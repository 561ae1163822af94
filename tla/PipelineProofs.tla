---------------------------- MODULE PipelineProofs ----------------------------
(***************************************************************************)
(* Machine-checked safety of Pipeline for every number of windows, workers *)
(* and escalations.  The argument: as soon as anything is cancelled,       *)
(* everything alive is, because the cancellation loops of run() and stop() *)
(* walk _tasks and nothing alive is missing from it; and what is cancelled *)
(* spawns nothing.  So the set of tasks alive can only shrink from there,  *)
(* and the client is closed with nothing left that could use it.           *)
(***************************************************************************)
EXTENDS Pipeline, FiniteSetTheorems, TLAPS

\* Everything alive has a cancellation pending.
AllCut == \A t \in Tasks : Alive(t) => t \in cancelled

\* The inductive invariant, without the types.
ShutdownInv ==
  /\ AliveIsTracked
  /\ runPc = "starting" => cancelled = {} /\ tracked = {} /\ stopPc = "idle" /\ client = "none"
  /\ cancelled # {} => AllCut
  /\ runPc = "gather" => \A t \in Tasks : Alive(t) => t \in runGather
  /\ runPc \in {"gather", "closing", "ended"} => AllCut
  /\ client = "closed" => runPc \in {"closing", "ended"}
  /\ pc[Consumer] = "raised" => Consumer \in cancelled

PipelineInv == TypeOK /\ dispatched <= windowId /\ ShutdownInv

-------------------------------------------------------------------------------
(***************************************************************************)
(* Types                                                                   *)
(***************************************************************************)
LEMMA PlacesOfTasks ==
  /\ PcOf(Consumer) = {"none", "ready", "get", "emit", "errEmit", "returned", "raised"}
  /\ PcOf(Cadencer) = {"none", "ready", "sleep", "returned"}
  /\ PcOf(StatsLoop) = {"none", "ready", "sleep", "emit", "bpEmit", "returned"}
  /\ \A w \in Windows :
       PcOf(w) = {"none", "ready", "acquiring", "calling", "applying", "failing",
                  "skipped", "completed", "failed", "cancelled", "cut"}
  /\ \A e \in Escalations : PcOf(e) = {"none", "ready", "calling", "applying", "done"}
<1>1. \A w \in Windows : w \notin Loops /\ w \notin Escalations
  BY PipelineAssumption DEF Windows
<1>2. \A e \in Escalations : e \notin Loops /\ e \notin Windows
  BY PipelineAssumption, <1>1
<1>3. /\ PcOf(Consumer) = {"none", "ready", "get", "emit", "errEmit", "returned", "raised"}
      /\ PcOf(Cadencer) = {"none", "ready", "sleep", "returned"}
      /\ PcOf(StatsLoop) = {"none", "ready", "sleep", "emit", "bpEmit", "returned"}
  BY <1>1, PipelineAssumption DEF PcOf, Loops
<1>4. ASSUME NEW w \in Windows
      PROVE  PcOf(w) = {"none", "ready", "acquiring", "calling", "applying", "failing",
                        "skipped", "completed", "failed", "cancelled", "cut"}
  BY <1>1 DEF PcOf, Loops
<1>5. ASSUME NEW e \in Escalations
      PROVE  PcOf(e) = {"none", "ready", "calling", "applying", "done"}
  BY <1>2 DEF PcOf, Loops
<1> QED BY <1>3, <1>4, <1>5

\* The part of TypeOK that says where tasks may be.
Places == DOMAIN pc = Tasks /\ \A t \in Tasks : pc[t] \in PcOf(t)

LEMMA PlaceStep ==
  ASSUME Places, NEW t \in Tasks, NEW x \in PcOf(t), pc' = [pc EXCEPT ![t] = x]
  PROVE  Places'
BY DEF Places, PcOf

LEMMA LevelType ==
  ASSUME NEW l \in Levels, NEW d, NEW n, NEW s
  PROVE  NextLevel(l, d, n, s) \in Levels
<1>1. DepthTarget(l, d) \in Levels
  BY DEF DepthTarget, Higher, Levels
<1>2. Target(l, d, n) \in Levels
  BY <1>1 DEF Target, Higher, Levels
<1> QED BY <1>2 DEF NextLevel

\* The rest of TypeOK, with the bound that makes the counters' types inductive.
Values ==
  /\ cancelled \subseteq Tasks
  /\ tracked \subseteq Tasks
  /\ stop \in BOOLEAN
  /\ client \in {"none", "open", "closed"}
  /\ runPc \in {"starting", "consuming", "grace", "gather", "closing", "ended"}
  /\ runGather \subseteq Tasks
  /\ grace \in {"off", "armed", "expired"}
  /\ stopPc \in {"idle", "aclosing", "gather", "done"}
  /\ stopGather \subseteq Tasks
  /\ windowId \in 0..MaxWindows
  /\ dispatched \in 0..MaxWindows
  /\ dispatched <= windowId
  /\ completed \in Nat /\ failed \in Nat /\ errors \in Nat
  /\ level \in Levels
  /\ escInFlight \in BOOLEAN

LEMMA TypeParts == TypeOK /\ dispatched <= windowId <=> Places /\ Values
BY DEF TypeOK, Places, Values

LEMMA ConsumerTypes ==
  ASSUME Places, Values, ConsumerStep \/ ConsumerFrame \/ ConsumerSourceEnds
  PROVE  Places' /\ Values'
<1>1. Consumer \in Tasks /\ Escalations \subseteq Tasks
  BY DEF Tasks, Loops
<1>2. CASE ConsumerEmitted /\ tracked' # tracked
  <2>1. PICK e \in Escalations :
          /\ pc' = [pc EXCEPT ![Consumer] = "get", ![e] = "ready"]
          /\ tracked' = tracked \cup {e}
    BY <1>2 DEF ConsumerEmitted
  <2>2. Places'
    BY <2>1, <1>1, PlacesOfTasks DEF Places, PcOf
  <2>3. Values'
    BY <1>1, <1>2, <2>1 DEF Values, ConsumerEmitted, runVars, stopVars, cadVars, winStats
  <2> QED BY <2>2, <2>3
<1>3. CASE ConsumerEmitted /\ tracked' = tracked
  <2>1. \/ pc' = [pc EXCEPT ![Consumer] = "get"]
        \/ \E e \in Escalations : pc' = [pc EXCEPT ![Consumer] = "get", ![e] = "ready"]
    BY <1>3 DEF ConsumerEmitted, Goes
  <2>2. Places'
    BY <2>1, <1>1, PlacesOfTasks DEF Places, PcOf
  <2>3. Values'
    BY <1>3 DEF Values, ConsumerEmitted, runVars, stopVars, cadVars, winStats
  <2> QED BY <2>2, <2>3
<1>4. CASE \/ ConsumerStart \/ ConsumerFrame \/ ConsumerSourceEnds
           \/ ConsumerErrEmitted \/ ConsumerCut
  <2>1. \E x \in PcOf(Consumer) : pc' = [pc EXCEPT ![Consumer] = x]
    BY <1>4, PlacesOfTasks
    DEF ConsumerStart, ConsumerFrame, ConsumerSourceEnds, ConsumerErrEmitted,
        ConsumerCut, Goes, Cut
  <2>2. Places'
    BY <1>1, <2>1, PlaceStep
  <2>3. Values'
    BY <1>4
    DEF Values, ConsumerStart, ConsumerFrame, ConsumerSourceEnds, ConsumerErrEmitted,
        ConsumerCut, runVars, stopVars, cadVars, winStats
  <2> QED BY <2>2, <2>3
<1> QED BY <1>2, <1>3, <1>4 DEF ConsumerStep

LEMMA CadencerTypes ==
  ASSUME Places, Values, CadencerStep
  PROVE  Places' /\ Values'
<1>1. Cadencer \in Tasks /\ Windows \subseteq Tasks
  BY DEF Tasks, Loops
<1>2. CASE CadencerWindow /\ ~ stop
  <2>1. windowId + 1 \in Windows
    BY <1>2, PipelineAssumption DEF CadencerWindow, Values, Windows
  <2>2. /\ pc' = [pc EXCEPT ![windowId + 1] = "ready"]
        /\ tracked' = tracked \cup {windowId + 1}
        /\ windowId' = windowId + 1 /\ dispatched' = dispatched + 1
    BY <1>2 DEF CadencerWindow
  <2>3. "ready" \in PcOf(windowId + 1)
    BY <2>1, PlacesOfTasks
  <2>4. Places'
    BY <1>1, <2>1, <2>2, <2>3, PlaceStep
  <2>5. Values'
    BY <1>1, <1>2, <2>1, <2>2, PipelineAssumption
    DEF Values, CadencerWindow, Windows, runVars, stopVars, winStats
  <2> QED BY <2>4, <2>5
<1>3. CASE \/ CadencerStart \/ CadencerIdle \/ CadencerCut
           \/ (CadencerWindow /\ stop)
  <2>1. \E x \in PcOf(Cadencer) : pc' = [pc EXCEPT ![Cadencer] = x]
    BY <1>3, PlacesOfTasks
    DEF CadencerStart, CadencerIdle, CadencerCut, CadencerWindow, Goes, Cut, LoopHead
  <2>2. Places'
    BY <1>1, <2>1, PlaceStep
  <2>3. Values'
    BY <1>3, PipelineAssumption
    DEF Values, CadencerStart, CadencerIdle, CadencerCut, CadencerWindow,
        runVars, stopVars, cadVars, winStats
  <2> QED BY <2>2, <2>3
<1> QED BY <1>2, <1>3 DEF CadencerStep, Values

LEMMA StatsTypes ==
  ASSUME Places, Values, StatsStep \/ ErrorExpires
  PROVE  Places' /\ Values'
<1>1. CASE ErrorExpires
  BY <1>1 DEF ErrorExpires, Places, Values, runVars, stopVars, cadVars
<1>2. CASE StatsStep
  <2>1. \E x \in PcOf(StatsLoop) : pc' = [pc EXCEPT ![StatsLoop] = x]
    BY <1>2, PlacesOfTasks
    DEF StatsStep, StatsStart, StatsWake, StatsUpdate, StatsBpEmitted, StatsCut, Goes,
        Cut, LoopHead
  <2>2. Places'
    BY <2>1, PlaceStep DEF Tasks, Loops
  <2>3. level' \in Levels
    BY <1>2, LevelType
    DEF Values, StatsStep, StatsStart, StatsWake, StatsUpdate, StatsBpEmitted, StatsCut
  <2>4. Values'
    BY <1>2, <2>3
    DEF Values, StatsStep, StatsStart, StatsWake, StatsUpdate, StatsBpEmitted, StatsCut,
        runVars, stopVars, cadVars, winStats
  <2> QED BY <2>2, <2>4
<1> QED BY <1>1, <1>2

LEMMA WindowTypes ==
  ASSUME Places, Values, NEW w \in Windows, WindowStep(w)
  PROVE  Places' /\ Values'
<1>1. w \in Tasks
  BY DEF Tasks
<1>2. \E x \in PcOf(w) : pc' = [pc EXCEPT ![w] = x]
  BY PlacesOfTasks
  DEF WindowStep, WindowSkipped, WindowSubmitted, WindowGranted, WindowAnswered,
      WindowCallFails, WindowPublished, WindowFailed, WindowCut, Goes, Cut
<1>3. Places'
  BY <1>1, <1>2, PlaceStep
<1>4. Values'
  BY DEF WindowStep, WindowSkipped, WindowSubmitted, WindowGranted, WindowAnswered,
         WindowCallFails, WindowPublished, WindowFailed, WindowCut, Drop, Values,
         runVars, stopVars, cadVars, winStats
<1> QED BY <1>3, <1>4

LEMMA EscalationTypes ==
  ASSUME Places, Values, NEW e \in Escalations, EscalationStep(e)
  PROVE  Places' /\ Values'
<1>1. e \in Tasks
  BY DEF Tasks
<1>2. \E x \in PcOf(e) : pc' = [pc EXCEPT ![e] = x]
  BY PlacesOfTasks
  DEF EscalationStep, EscalationRefused, EscalationCalls, EscalationAnswered,
      EscalationEnds, EscalationCut, Goes, Cut
<1>3. Places'
  BY <1>1, <1>2, PlaceStep
<1>4. Values'
  BY DEF EscalationStep, EscalationRefused, EscalationCalls, EscalationAnswered,
         EscalationEnds, EscalationCut, Drop, Values, runVars, stopVars, cadVars, winStats
<1> QED BY <1>3, <1>4

LEMMA RunTypes ==
  ASSUME Places, Values, RunStep \/ GraceExpires
  PROVE  Places' /\ Values'
<1>1. Outstanding \subseteq Tasks
  BY DEF Outstanding, Values
<1>2. CASE RunStart
  <2>1. Places'
    BY <1>2, PlacesOfTasks DEF RunStart, Places, Loops
  <2>2. Values'
    BY <1>2 DEF RunStart, Values, Tasks, stopVars, cadVars, winStats
  <2> QED BY <2>1, <2>2
<1>3. CASE RunConsumerReturned
  BY <1>1, <1>3
  DEF RunConsumerReturned, CancelOutstanding, Places, Values, stopVars, cadVars, winStats
<1>4. CASE RunGraceOver
  BY <1>1, <1>4
  DEF RunGraceOver, CancelOutstanding, Places, Values, stopVars, cadVars, winStats
<1>5. CASE RunGathered \/ RunConsumerRaised \/ RunEnds \/ GraceExpires
  BY <1>5
  DEF RunGathered, RunConsumerRaised, RunEnds, GraceExpires, Places, Values, stopVars,
      cadVars, winStats
<1> QED BY <1>2, <1>3, <1>4, <1>5 DEF RunStep

LEMMA StopTypes ==
  ASSUME Places, Values, StopCalled \/ StopAclosed \/ StopDone
  PROVE  Places' /\ Values'
<1>1. Outstanding \subseteq Tasks
  BY DEF Outstanding, Values
<1> QED
  BY <1>1
  DEF StopCalled, StopAclosed, StopDone, Places, Values, runVars, cadVars, winStats

LEMMA StepKeepsTypes ==
  ASSUME Places, Values, [Next]_vars
  PROVE  Places' /\ Values'
<1>1. CASE UNCHANGED vars
  BY <1>1 DEF vars, runVars, stopVars, cadVars, winStats, Places, Values
<1>2. CASE Next
  BY <1>2, ConsumerTypes, CadencerTypes, StatsTypes, WindowTypes, EscalationTypes,
     RunTypes, StopTypes
  DEF Next
<1> QED BY <1>1, <1>2

LEMMA PlacesAndValuesInit == Init => Places /\ Values
<1> SUFFICES ASSUME Init PROVE Places /\ Values
  OBVIOUS
<1>1. \A t \in Tasks : "none" \in PcOf(t)
  BY PlacesOfTasks DEF Tasks, Loops
<1>2. Places
  BY <1>1 DEF Init, Places
<1>3. 0 \in 0..MaxWindows /\ 0 \in Levels /\ 0 \in Nat
  BY PipelineAssumption DEF Levels
<1>4. /\ windowId = 0 /\ dispatched = 0 /\ completed = 0 /\ failed = 0 /\ errors = 0
      /\ level = 0 /\ dispatched <= windowId
  BY DEF Init
<1>5. Values
  BY <1>3, <1>4 DEF Init, Values
<1> QED BY <1>2, <1>5

-------------------------------------------------------------------------------
(***************************************************************************)
(* Shutdown                                                                *)
(***************************************************************************)

\* What most steps do, as far as ShutdownInv can tell: one task that is alive and
\* not cancelled goes elsewhere, or a cancelled one dies, and if it dies it may
\* leave _tasks.
Moves(t, x) ==
  /\ Alive(t)
  /\ pc' = [pc EXCEPT ![t] = x]
  /\ tracked' = tracked \/ (x \in Dead /\ tracked' = tracked \ {t})
  /\ t = Consumer /\ x = "raised" => t \in cancelled
  /\ UNCHANGED <<cancelled, runPc, runGather, client, stopPc>>

LEMMA MovesKeepsShutdown ==
  ASSUME Places, ShutdownInv, NEW t \in Tasks, NEW x, Moves(t, x)
  PROVE  ShutdownInv'
<1>1. \A u \in Tasks : Alive(u)' => Alive(u)
  BY DEF Moves, Alive, Places
<1>2. \A u \in Tasks : Alive(u)' => u \in tracked'
  BY <1>1 DEF Moves, Alive, Places, ShutdownInv, AliveIsTracked
<1>3. runPc # "starting"
  BY DEF Moves, ShutdownInv, AliveIsTracked
<1>4. AllCut => AllCut'
  BY <1>1 DEF AllCut, Moves
<1>5. pc'[Consumer] = "raised" => Consumer \in cancelled'
  BY DEF Moves, Places, ShutdownInv, Tasks, Loops
<1>6. runPc' = "gather" => \A u \in Tasks : Alive(u)' => u \in runGather'
  BY <1>1 DEF Moves, ShutdownInv
<1>7. AliveIsTracked'
  BY <1>2 DEF AliveIsTracked
<1> QED BY <1>3, <1>4, <1>5, <1>6, <1>7 DEF Moves, ShutdownInv

\* What a spawn does: a task alive and not cancelled makes another alive and
\* tracked.
LEMMA SpawnKeepsShutdown ==
  ASSUME Places, ShutdownInv, NEW s \in Tasks, NEW t \in Tasks,
         Alive(s), s \notin cancelled,
         \A u \in Tasks \ {t} : Alive(u)' => Alive(u),
         tracked' = tracked \cup {t},
         pc'[Consumer] # "raised",
         UNCHANGED <<cancelled, runPc, runGather, client, stopPc>>
  PROVE  ShutdownInv'
<1>1. runPc \notin {"starting", "gather", "closing", "ended"} /\ cancelled = {}
  BY DEF ShutdownInv, AllCut, AliveIsTracked
<1>2. AliveIsTracked'
  BY DEF ShutdownInv, AliveIsTracked
<1>3. client # "closed"
  BY <1>1 DEF ShutdownInv
<1> QED BY <1>1, <1>2, <1>3 DEF ShutdownInv

LEMMA ConsumerShutdown ==
  ASSUME Places, ShutdownInv, ConsumerStep \/ ConsumerFrame \/ ConsumerSourceEnds
  PROVE  ShutdownInv'
<1>1. Consumer \in Tasks /\ Escalations \subseteq Tasks /\ Consumer \notin Escalations
  BY PipelineAssumption DEF Tasks, Loops
<1>2. ASSUME NEW e \in Escalations,
             pc[Consumer] = "emit", Consumer \notin cancelled,
             pc' = [pc EXCEPT ![Consumer] = "get", ![e] = "ready"],
             tracked' = tracked \cup {e},
             UNCHANGED <<cancelled, runVars, stopVars>>
      PROVE  ShutdownInv'
  <2>1. Alive(Consumer)
    BY <1>2 DEF Alive, Dead
  <2>2. \A u \in Tasks \ {e} : Alive(u)' => Alive(u)
    BY <1>2, <2>1 DEF Alive, Places
  <2>3. pc'[Consumer] = "get"
    BY <1>1, <1>2 DEF Places
  <2> QED BY <1>1, <1>2, <2>1, <2>2, <2>3, SpawnKeepsShutdown DEF runVars, stopVars
<1>3. CASE ConsumerEmitted
  <2>1. CASE Goes(Consumer, "emit", "get") /\ UNCHANGED tracked
    <3>1. Moves(Consumer, "get")
      BY <1>3, <2>1 DEF ConsumerEmitted, Goes, Moves, Alive, Dead, runVars, stopVars
    <3> QED BY <1>1, <3>1, MovesKeepsShutdown
  <2> QED BY <1>2, <1>3, <2>1 DEF ConsumerEmitted
<1>4. CASE \/ ConsumerStart \/ ConsumerFrame \/ ConsumerSourceEnds
           \/ ConsumerErrEmitted \/ ConsumerCut
  <2>1. \E x : Moves(Consumer, x)
    BY <1>4
    DEF ConsumerStart, ConsumerFrame, ConsumerSourceEnds, ConsumerErrEmitted,
        ConsumerCut, Goes, Cut, Moves, Alive, Dead, runVars, stopVars
  <2> QED BY <1>1, <2>1, MovesKeepsShutdown
<1> QED BY <1>3, <1>4 DEF ConsumerStep

LEMMA CadencerShutdown ==
  ASSUME Places, Values, ShutdownInv, CadencerStep
  PROVE  ShutdownInv'
<1>1. Cadencer \in Tasks /\ Windows \subseteq Tasks
  BY DEF Tasks, Loops
<1>2. CASE CadencerWindow /\ ~ stop
  <2>1. windowId + 1 \in Windows
    BY <1>2, PipelineAssumption DEF CadencerWindow, Values, Windows
  <2>2. Alive(Cadencer) /\ Cadencer \notin cancelled
    BY <1>2 DEF CadencerWindow, Alive, Dead
  <2>3. \A u \in Tasks \ {windowId + 1} : Alive(u)' => Alive(u)
    BY <1>2, <2>1 DEF CadencerWindow, Alive, Places
  <2>4. windowId + 1 # Consumer
    BY <2>1, PipelineAssumption DEF Windows, Loops
  <2>5. pc'[Consumer] # "raised"
    <3>1. pc'[Consumer] = pc[Consumer]
      BY <1>2, <2>1, <2>4 DEF CadencerWindow, Places, Tasks, Loops
    <3> QED BY <2>2, <3>1, <1>1 DEF ShutdownInv, AllCut
  <2>6. /\ tracked' = tracked \cup {windowId + 1}
        /\ UNCHANGED <<cancelled, runPc, runGather, client, stopPc>>
    BY <1>2 DEF CadencerWindow, runVars, stopVars
  <2> QED BY <1>1, <2>1, <2>2, <2>3, <2>5, <2>6, SpawnKeepsShutdown
<1>3. CASE \/ CadencerStart \/ CadencerIdle \/ CadencerCut
           \/ (CadencerWindow /\ stop)
  <2>1. \E x : Moves(Cadencer, x)
    BY <1>3, PipelineAssumption
    DEF CadencerStart, CadencerIdle, CadencerCut, CadencerWindow, Goes, Cut, Moves,
        Alive, Dead, runVars, stopVars
  <2> QED BY <1>1, <2>1, MovesKeepsShutdown
<1> QED BY <1>2, <1>3 DEF CadencerStep, Values

LEMMA StatsShutdown ==
  ASSUME Places, ShutdownInv, StatsStep \/ ErrorExpires
  PROVE  ShutdownInv'
<1>1. CASE ErrorExpires
  BY <1>1
  DEF ErrorExpires, ShutdownInv, AliveIsTracked, AllCut, Alive, runVars, stopVars
<1>2. CASE StatsStep
  <2>1. \E x : Moves(StatsLoop, x)
    BY <1>2, PipelineAssumption
    DEF StatsStep, StatsStart, StatsWake, StatsUpdate, StatsBpEmitted, StatsCut, Goes,
        Cut, Moves, Alive, Dead, runVars, stopVars
  <2> QED BY <2>1, MovesKeepsShutdown DEF Tasks, Loops
<1> QED BY <1>1, <1>2

LEMMA WindowShutdown ==
  ASSUME Places, ShutdownInv, NEW w \in Windows, WindowStep(w)
  PROVE  ShutdownInv'
<1>1. w \in Tasks /\ w # Consumer
  BY PipelineAssumption DEF Tasks, Loops, Windows
<1>2. \E x : Moves(w, x)
  BY <1>1
  DEF WindowStep, WindowSkipped, WindowSubmitted, WindowGranted, WindowAnswered,
      WindowCallFails, WindowPublished, WindowFailed, WindowCut, Goes, Cut, Drop, Moves,
      Alive, Dead, runVars, stopVars
<1> QED BY <1>1, <1>2, MovesKeepsShutdown

LEMMA EscalationShutdown ==
  ASSUME Places, ShutdownInv, NEW e \in Escalations, EscalationStep(e)
  PROVE  ShutdownInv'
<1>1. e \in Tasks /\ e # Consumer
  BY PipelineAssumption DEF Tasks, Loops
<1>2. \E x : Moves(e, x)
  BY <1>1
  DEF EscalationStep, EscalationRefused, EscalationCalls, EscalationAnswered,
      EscalationEnds, EscalationCut, Goes, Cut, Drop, Moves, Alive, Dead, runVars, stopVars
<1> QED BY <1>1, <1>2, MovesKeepsShutdown

LEMMA RunShutdown ==
  ASSUME Places, Values, ShutdownInv, RunStep \/ GraceExpires
  PROVE  ShutdownInv'
<1>1. \A t \in Tasks : Alive(t) => t \in Outstanding
  BY DEF Outstanding, ShutdownInv, AliveIsTracked
<1>2. CASE RunStart
  <2>1. \A t \in Tasks : ~ Alive(t)
    BY <1>2 DEF RunStart, ShutdownInv, AliveIsTracked
  <2>2. \A t \in Tasks : Alive(t)' => t \in tracked'
    BY <1>2, <2>1 DEF RunStart, Alive
  <2>3. pc'[Consumer] = "ready"
    BY <1>2 DEF RunStart, Tasks, Loops
  <2> QED BY <1>2, <2>2, <2>3 DEF RunStart, ShutdownInv, AliveIsTracked
<1>3. ASSUME CancelOutstanding, UNCHANGED <<pc, tracked, client>>, runPc # "starting",
             client # "closed"
      PROVE  ShutdownInv'
  <2>1. AllCut' /\ \A t \in Tasks : Alive(t)' => t \in runGather'
    BY <1>1, <1>3 DEF CancelOutstanding, AllCut, Alive
  <2> QED BY <1>3, <2>1 DEF CancelOutstanding, ShutdownInv, AliveIsTracked, Alive
<1>4. CASE RunConsumerReturned
  <2>1. client # "closed"
    BY <1>4 DEF RunConsumerReturned, ShutdownInv
  <2>2. CASE Grace /\ Outstanding # {}
    BY <1>4, <2>1, <2>2
    DEF RunConsumerReturned, ShutdownInv, AliveIsTracked, AllCut, Alive, stopVars
  <2>3. CASE ~ (Grace /\ Outstanding # {})
    BY <1>3, <1>4, <2>1, <2>3 DEF RunConsumerReturned
  <2> QED BY <2>2, <2>3
<1>5. CASE RunGraceOver
  <2>1. client # "closed" /\ runPc # "starting"
    BY <1>5 DEF RunGraceOver, ShutdownInv
  <2> QED BY <1>3, <1>5, <2>1 DEF RunGraceOver
<1>6. CASE RunGathered
  <2>1. \A t \in Tasks : ~ Alive(t)'
    BY <1>6 DEF RunGathered, ShutdownInv, Alive
  <2> QED BY <1>6, <2>1
          DEF RunGathered, ShutdownInv, AliveIsTracked, AllCut, stopVars
<1>7. CASE RunConsumerRaised
  <2>1. AllCut
    BY <1>7 DEF RunConsumerRaised, ShutdownInv
  <2> QED BY <1>7, <2>1
          DEF RunConsumerRaised, ShutdownInv, AliveIsTracked, AllCut, Alive, stopVars
<1>8. CASE RunEnds
  BY <1>8 DEF RunEnds, ShutdownInv, AliveIsTracked, AllCut, Alive, stopVars
<1>9. CASE GraceExpires
  BY <1>9 DEF GraceExpires, ShutdownInv, AliveIsTracked, AllCut, Alive, stopVars
<1> QED BY <1>2, <1>4, <1>5, <1>6, <1>7, <1>8, <1>9 DEF RunStep

LEMMA StopShutdown ==
  ASSUME Places, Values, ShutdownInv, StopCalled \/ StopAclosed \/ StopDone
  PROVE  ShutdownInv'
<1>1. CASE StopCalled \/ StopDone
  BY <1>1
  DEF StopCalled, StopDone, ShutdownInv, AliveIsTracked, AllCut, Alive, runVars
<1>2. CASE StopAclosed
  <2>1. AllCut'
    BY <1>2 DEF StopAclosed, ShutdownInv, AliveIsTracked, Outstanding, AllCut, Alive
  <2>2. runPc # "starting"
    BY <1>2 DEF StopAclosed, ShutdownInv
  <2> QED BY <1>2, <2>1, <2>2
          DEF StopAclosed, ShutdownInv, AliveIsTracked, Alive, runVars
<1> QED BY <1>1, <1>2

LEMMA StepKeepsShutdown ==
  ASSUME Places, Values, ShutdownInv, [Next]_vars
  PROVE  ShutdownInv'
<1>1. CASE UNCHANGED vars
  BY <1>1
  DEF vars, runVars, stopVars, cadVars, winStats, ShutdownInv, AliveIsTracked, AllCut, Alive
<1>2. CASE Next
  BY <1>2, ConsumerShutdown, CadencerShutdown, StatsShutdown, WindowShutdown,
     EscalationShutdown, RunShutdown, StopShutdown
  DEF Next
<1> QED BY <1>1, <1>2

\* PipelineInv holds in every reachable state, for every number of windows,
\* escalations and workers, with or without a grace period.
THEOREM PipelineInvariant == Spec => []PipelineInv
<1>1. Init => Places /\ Values /\ ShutdownInv
  <2>1. Init => Places /\ Values
    BY PlacesAndValuesInit
  <2>2. Init => ShutdownInv
    BY DEF Init, ShutdownInv, AliveIsTracked, Alive, Tasks, Loops
  <2> QED BY <2>1, <2>2
<1>2. Places /\ Values /\ ShutdownInv /\ [Next]_vars => (Places /\ Values /\ ShutdownInv)'
  BY StepKeepsTypes, StepKeepsShutdown
<1>3. Places /\ Values /\ ShutdownInv => PipelineInv
  BY TypeParts DEF PipelineInv
<1> QED BY <1>1, <1>2, <1>3, PTL DEF Spec

\* The pipeline's state has its type.
THEOREM PipelineTypeCorrect == Spec => []TypeOK
<1>1. PipelineInv => TypeOK
  BY DEF PipelineInv
<1> QED BY <1>1, PipelineInvariant, PTL

\* _tasks holds every task alive, so the cancellation loops miss nobody.
THEOREM AliveTasksAreTracked == Spec => []AliveIsTracked
<1>1. PipelineInv => AliveIsTracked
  BY DEF PipelineInv, ShutdownInv
<1> QED BY <1>1, PipelineInvariant, PTL

\* After the LLM client is closed no task is alive that has not been told to
\* stop, on every path: a source that ends, fails, or is stopped at any moment.
THEOREM NobodyUsesClosedClient == Spec => []NoUseAfterClose
<1>1. PipelineInv => NoUseAfterClose
  BY DEF PipelineInv, ShutdownInv, NoUseAfterClose, AllCut
<1> QED BY <1>1, PipelineInvariant, PTL

\* run() cancels nothing on its own account before the grace period is over.
THEOREM GraceIsHonoured == Spec => CancelOnlyAfterGrace
<1>1. ASSUME [Next]_vars
      PROVE  [cancelled' # cancelled =>
                stopPc = "aclosing" \/ grace = "expired" \/ ~ Grace]_vars
  <2>1. CASE RunConsumerReturned \/ RunGraceOver
    BY <2>1 DEF RunConsumerReturned, RunGraceOver, CancelOutstanding
  <2>2. CASE StopAclosed
    BY <2>2 DEF StopAclosed
  <2>3. CASE ConsumerStep \/ ConsumerFrame \/ ConsumerSourceEnds
    BY <2>3
    DEF ConsumerStep, ConsumerStart, ConsumerFrame, ConsumerSourceEnds, ConsumerEmitted,
        ConsumerErrEmitted, ConsumerCut
  <2>4. CASE CadencerStep \/ StatsStep \/ ErrorExpires
    BY <2>4
    DEF CadencerStep, CadencerStart, CadencerIdle, CadencerWindow, CadencerCut, StatsStep,
        StatsStart, StatsWake, StatsUpdate, StatsBpEmitted, StatsCut, ErrorExpires
  <2>5. ASSUME NEW w \in Windows, WindowStep(w) PROVE UNCHANGED cancelled
    BY <2>5
    DEF WindowStep, WindowSkipped, WindowSubmitted, WindowGranted, WindowAnswered,
        WindowCallFails, WindowPublished, WindowFailed, WindowCut
  <2>6. ASSUME NEW e \in Escalations, EscalationStep(e) PROVE UNCHANGED cancelled
    BY <2>6
    DEF EscalationStep, EscalationRefused, EscalationCalls, EscalationAnswered,
        EscalationEnds, EscalationCut
  <2>7. CASE \/ RunStart \/ RunGathered \/ RunConsumerRaised \/ RunEnds \/ GraceExpires
             \/ StopCalled \/ StopDone
    BY <2>7
    DEF RunStart, RunGathered, RunConsumerRaised, RunEnds, GraceExpires, StopCalled, StopDone
  <2>8. CASE UNCHANGED vars
    BY <2>8 DEF vars
  <2> QED BY <1>1, <2>1, <2>2, <2>3, <2>4, <2>5, <2>6, <2>7, <2>8 DEF Next, RunStep
<1> QED BY <1>1, PTL DEF Spec, CancelOnlyAfterGrace

-------------------------------------------------------------------------------
(***************************************************************************)
(* The pool inside the pipeline                                            *)
(***************************************************************************)
LEMMA WindowStepIsPoolStep ==
  ASSUME NEW w \in Windows, WindowStep(w)
  PROVE  [Pool!PoolNext]_<<Pool!poolVars, cancelled \cap Windows>>
<1>1. UNCHANGED (cancelled \cap Windows)
  BY DEF WindowStep, WindowSkipped, WindowSubmitted, WindowGranted, WindowAnswered,
         WindowCallFails, WindowPublished, WindowFailed, WindowCut
<1>2. \/ Pool!Acquire(w) \/ Pool!Resume(w) \/ Pool!Abandon(w) \/ Pool!Release(w)
      \/ UNCHANGED Pool!poolVars
  BY DEF WindowStep, WindowSkipped, WindowSubmitted, WindowGranted, WindowAnswered,
         WindowCallFails, WindowPublished, WindowFailed, WindowCut, poolVars, Pool!poolVars
<1> QED BY <1>1, <1>2 DEF Pool!PoolNext, Pool!PoolStep

LEMMA CancellingIsPoolStep ==
  ASSUME NEW C, cancelled' = cancelled \cup C, UNCHANGED poolVars
  PROVE  [Pool!PoolNext]_<<Pool!poolVars, cancelled \cap Windows>>
<1>1. C \cap Windows \in SUBSET Windows
  OBVIOUS
<1>2. Pool!RequestCancel(C \cap Windows)
  BY DEF Pool!RequestCancel, poolVars, Pool!poolVars
<1> QED BY <1>1, <1>2 DEF Pool!PoolNext

LEMMA StepIsPoolStep ==
  ASSUME [Next]_vars
  PROVE  [Pool!PoolNext]_<<Pool!poolVars, cancelled \cap Windows>>
<1>1. ASSUME NEW w \in Windows, WindowStep(w)
      PROVE  [Pool!PoolNext]_<<Pool!poolVars, cancelled \cap Windows>>
  BY <1>1, WindowStepIsPoolStep
<1>2. CASE RunConsumerReturned \/ RunGraceOver \/ StopAclosed
  <2>1. UNCHANGED poolVars /\ \E C : cancelled' = cancelled \cup C
    <3>1. cancelled = cancelled \cup {}
      OBVIOUS
    <3> QED BY <1>2, <3>1
            DEF RunConsumerReturned, RunGraceOver, StopAclosed, CancelOutstanding
  <2> QED BY <2>1, CancellingIsPoolStep
<1>3. ASSUME UNCHANGED <<poolVars, cancelled>>
      PROVE  [Pool!PoolNext]_<<Pool!poolVars, cancelled \cap Windows>>
  BY <1>3 DEF poolVars, Pool!poolVars
<1>4. CASE \/ ConsumerStep \/ ConsumerFrame \/ ConsumerSourceEnds
           \/ CadencerStep \/ StatsStep \/ ErrorExpires
  <2>1. UNCHANGED <<poolVars, cancelled>>
    BY <1>4
    DEF ConsumerStep, ConsumerStart, ConsumerFrame, ConsumerSourceEnds, ConsumerEmitted,
        ConsumerErrEmitted, ConsumerCut, CadencerStep, CadencerStart, CadencerIdle,
        CadencerWindow, CadencerCut, StatsStep, StatsStart, StatsWake, StatsUpdate,
        StatsBpEmitted, StatsCut, ErrorExpires
  <2> QED BY <1>3, <2>1
<1>5. ASSUME NEW e \in Escalations, EscalationStep(e)
      PROVE  [Pool!PoolNext]_<<Pool!poolVars, cancelled \cap Windows>>
  <2>1. UNCHANGED <<poolVars, cancelled>>
    BY <1>5
    DEF EscalationStep, EscalationRefused, EscalationCalls, EscalationAnswered,
        EscalationEnds, EscalationCut
  <2> QED BY <1>3, <2>1
<1>6. CASE \/ RunStart \/ RunGathered \/ RunConsumerRaised \/ RunEnds \/ GraceExpires
           \/ StopCalled \/ StopDone
  <2>1. UNCHANGED <<poolVars, cancelled>>
    BY <1>6
    DEF RunStart, RunGathered, RunConsumerRaised, RunEnds, GraceExpires, StopCalled, StopDone
  <2> QED BY <1>3, <2>1
<1>7. CASE UNCHANGED vars
  BY <1>3, <1>7 DEF vars
<1> QED BY <1>1, <1>2, <1>4, <1>5, <1>6, <1>7 DEF Next, RunStep

\* The windows of a pipeline use the pool as WorkerPool allows, so what is proved
\* of WorkerPool holds of every pipeline.
THEOREM PipelineImplementsPool == Spec => PoolImplemented
<1>1. Init => Pool!PoolInit
  BY DEF Init, Pool!PoolInit
<1>2. [Next]_vars => [Pool!PoolNext]_<<Pool!poolVars, cancelled \cap Windows>>
  BY StepIsPoolStep
<1> QED BY <1>1, <1>2, PTL DEF Spec, PoolImplemented, Pool!PoolSpec

\* WorkerPool's lemmas, read with the pipeline's windows as the pool's tasks.
PoolFacts ==
  INSTANCE WorkerPoolProofs WITH Tasks <- Windows, cancelled <- cancelled \cap Windows

LEMMA SamePool ==
  ASSUME [Pool!PoolNext]_<<Pool!poolVars, cancelled \cap Windows>>
  PROVE  [PoolFacts!PoolNext]_<<PoolFacts!poolVars, cancelled \cap Windows>>
<1>1. ASSUME NEW t \in Windows, Pool!Acquire(t) PROVE PoolFacts!Acquire(t)
  BY <1>1
  DEF Pool!Acquire, Pool!Locked, Pool!Pending, Pool!In,
      PoolFacts!Acquire, PoolFacts!Locked, PoolFacts!Pending, PoolFacts!In
<1>2. ASSUME NEW t \in Windows, Pool!Resume(t) PROVE PoolFacts!Resume(t)
  BY <1>2
  DEF Pool!Resume, Pool!WakeUpNext, Pool!NextToResume, Pool!RemoveAt,
      PoolFacts!Resume, PoolFacts!WakeUpNext, PoolFacts!NextToResume, PoolFacts!RemoveAt
<1>3. ASSUME NEW t \in Windows, Pool!Abandon(t) PROVE PoolFacts!Abandon(t)
  BY <1>3
  DEF Pool!Abandon, Pool!WakeUpNext, Pool!NextToResume, Pool!RemoveAt,
      PoolFacts!Abandon, PoolFacts!WakeUpNext, PoolFacts!NextToResume, PoolFacts!RemoveAt
<1>4. ASSUME NEW t \in Windows, Pool!Release(t) PROVE PoolFacts!Release(t)
  BY <1>4 DEF Pool!Release, Pool!WakeUpNext, PoolFacts!Release, PoolFacts!WakeUpNext
<1>5. ASSUME NEW C, Pool!RequestCancel(C) PROVE PoolFacts!RequestCancel(C)
  BY <1>5
  DEF Pool!RequestCancel, Pool!poolVars, PoolFacts!RequestCancel, PoolFacts!poolVars
<1> QED
  BY <1>1, <1>2, <1>3, <1>4, <1>5
  DEF Pool!PoolNext, Pool!PoolStep, Pool!poolVars, PoolFacts!PoolNext, PoolFacts!PoolStep,
      PoolFacts!poolVars

LEMMA PoolInvInPipeline == Spec => []PoolFacts!PoolInv
<1>1. Workers \in Nat /\ PoolFacts!IsFiniteSet(Windows)
  <2>1. IsFiniteSet(Windows)
    BY PipelineAssumption, FS_Interval DEF Windows
  <2> QED BY <2>1, PipelineAssumption DEF IsFiniteSet, PoolFacts!IsFiniteSet
<1>2. Init => PoolFacts!PoolInv
  <2>1. Init => PoolFacts!PoolInit
    BY DEF Init, PoolFacts!PoolInit
  <2> QED BY <1>1, <2>1, PoolFacts!InitEstablishesInvariant
<1>3. PoolFacts!PoolInv /\ [Next]_vars => PoolFacts!PoolInv'
  BY <1>1, StepIsPoolStep, SamePool, PoolFacts!StepKeepsInvariant
<1> QED BY <1>2, <1>3, PTL DEF Spec

\* No interleaving of windows, failures and cancellations leaks a slot of the
\* pipeline's pool.
THEOREM PipelineLeaksNoSlot == Spec => []Pool!SlotsConserved
<1>1. PoolFacts!PoolInv => Pool!SlotsConserved
  BY DEF PoolFacts!PoolInv, PoolFacts!SlotsConserved, PoolFacts!In, PoolFacts!Cardinality,
         Pool!SlotsConserved, Pool!In, Pool!Cardinality
<1> QED BY <1>1, PoolInvInPipeline, PTL

-------------------------------------------------------------------------------
(***************************************************************************)
(* What Pipeline counts, for every number of windows and escalations: the  *)
(* windows in the statistics of session.ended, and the one escalation that *)
(* _escalation_in_flight admits.                                           *)
(***************************************************************************)
\* The windows at some of the places a task may be.
At(places) == {w \in Windows : pc[w] \in places}

Begun == {w \in Windows : pc[w] # "none"}
Answered == At({"applying", "completed", "cut"})
Failures == At({"failed"})
Running == {e \in Escalations : pc[e] \in {"calling", "applying"}}

\* The inductive invariant of the counters: window_id runs ahead of the windows.
CountInv ==
  /\ \A w \in Windows : w > windowId => pc[w] = "none"
  /\ dispatched = Cardinality(Begun)
  /\ completed = Cardinality(Answered)
  /\ failed = Cardinality(Failures)

\* That of the flag.
FlagInv ==
  /\ escInFlight => \E e \in Escalations : Running = {e}
  /\ ~ escInFlight => Running = {}

-------------------------------------------------------------------------------
(***************************************************************************)
(* Steps that change nothing of this                                       *)
(***************************************************************************)
QuietForWindows ==
  /\ \A w \in Windows : pc'[w] = pc[w]
  /\ windowId' \in Int /\ windowId' >= windowId
  /\ UNCHANGED <<dispatched, completed, failed>>

QuietForEscalations ==
  /\ \A e \in Escalations :
       pc'[e] \in {"calling", "applying"} <=> pc[e] \in {"calling", "applying"}
  /\ UNCHANGED escInFlight

LEMMA QuietKeepsCounts ==
  ASSUME Values, CountInv, QuietForWindows
  PROVE  CountInv'
<1>1. Begun' = Begun /\ Answered' = Answered /\ Failures' = Failures
  BY DEF QuietForWindows, Begun, Answered, Failures, At
<1>2. \A w \in Windows : w > windowId' => pc'[w] = "none"
  <2>1. windowId \in Int /\ windowId' \in Int /\ windowId' >= windowId
    BY DEF Values, QuietForWindows
  <2>2. ASSUME NEW w \in Windows, w > windowId'
        PROVE  pc'[w] = "none"
    BY <2>1, <2>2 DEF CountInv, QuietForWindows, Windows
  <2> QED BY <2>2
<1> QED BY <1>1, <1>2 DEF CountInv, QuietForWindows

LEMMA QuietKeepsFlag ==
  ASSUME FlagInv, QuietForEscalations
  PROVE  FlagInv'
<1>1. Running' = Running
  BY DEF QuietForEscalations, Running
<1> QED BY <1>1 DEF FlagInv, QuietForEscalations

\* Windows, escalations and loops are different tasks.
LEMMA TasksDiffer ==
  /\ \A w \in Windows : w \notin Loops /\ w \notin Escalations /\ w \in Tasks
  /\ \A e \in Escalations : e \notin Loops /\ e \notin Windows /\ e \in Tasks
  /\ Consumer \in Loops /\ Cadencer \in Loops /\ StatsLoop \in Loops /\ Loops \subseteq Tasks
<1>1. \A w \in Windows : w \notin Loops /\ w \notin Escalations
  BY PipelineAssumption DEF Windows
<1> QED BY <1>1, PipelineAssumption DEF Tasks, Loops

\* A loop's step moves no window and no escalation.
LEMMA LoopMoves ==
  ASSUME Places, NEW t \in Loops, NEW x, pc' = [pc EXCEPT ![t] = x]
  PROVE  \A u \in Windows \cup Escalations : pc'[u] = pc[u]
BY TasksDiffer DEF Places

-------------------------------------------------------------------------------
(***************************************************************************)
(* The steps                                                               *)
(***************************************************************************)
LEMMA ConsumerCounts ==
  ASSUME Places, Values, ConsumerStep \/ ConsumerFrame \/ ConsumerSourceEnds
  PROVE  QuietForWindows /\ QuietForEscalations
<1>1. windowId \in Int /\ UNCHANGED <<cadVars, winStats, escInFlight>>
  BY DEF Values, ConsumerStep, ConsumerFrame, ConsumerSourceEnds, ConsumerStart,
         ConsumerEmitted, ConsumerErrEmitted, ConsumerCut
<1>2. \/ \E x : pc' = [pc EXCEPT ![Consumer] = x]
      \/ \E e \in Escalations :
           pc[e] = "none" /\ pc' = [pc EXCEPT ![Consumer] = "get", ![e] = "ready"]
  BY DEF ConsumerStep, ConsumerFrame, ConsumerSourceEnds, ConsumerStart,
         ConsumerEmitted, ConsumerErrEmitted, ConsumerCut, Goes, Cut
<1>3. CASE \E x : pc' = [pc EXCEPT ![Consumer] = x]
  <2>1. \A u \in Windows \cup Escalations : pc'[u] = pc[u]
    BY <1>3, LoopMoves, TasksDiffer
  <2> QED BY <1>1, <2>1 DEF QuietForWindows, QuietForEscalations, cadVars, winStats
<1>4. ASSUME NEW e \in Escalations, pc[e] = "none",
             pc' = [pc EXCEPT ![Consumer] = "get", ![e] = "ready"]
      PROVE  QuietForWindows /\ QuietForEscalations
  <2>1. \A u \in Windows \cup (Escalations \ {e}) : pc'[u] = pc[u]
    BY <1>4, TasksDiffer DEF Places
  <2>2. pc'[e] = "ready"
    BY <1>4, TasksDiffer DEF Places
  <2>3. QuietForWindows
    BY <1>1, <2>1 DEF QuietForWindows, cadVars, winStats
  <2>4. QuietForEscalations
    BY <1>1, <1>4, <2>1, <2>2 DEF QuietForEscalations
  <2> QED BY <2>3, <2>4
<1> QED BY <1>2, <1>3, <1>4

LEMMA LoopsCount ==
  ASSUME Places, Values, StatsStep \/ CadencerStep, ~ CadencerWindow
  PROVE  QuietForWindows /\ QuietForEscalations
<1>1. windowId \in Int /\ UNCHANGED <<cadVars, winStats, escInFlight>>
  BY DEF Values, StatsStep, StatsStart, StatsWake, StatsUpdate, StatsBpEmitted, StatsCut,
         CadencerStep, CadencerStart, CadencerIdle, CadencerCut
<1>2. \E t \in Loops : \E x : pc' = [pc EXCEPT ![t] = x]
  BY TasksDiffer
  DEF StatsStep, StatsStart, StatsWake, StatsUpdate, StatsBpEmitted, StatsCut,
      CadencerStep, CadencerStart, CadencerIdle, CadencerCut, Goes, Cut
<1>3. \A u \in Windows \cup Escalations : pc'[u] = pc[u]
  BY <1>2, LoopMoves
<1> QED BY <1>1, <1>3 DEF QuietForWindows, QuietForEscalations, cadVars, winStats

LEMMA RestCounts ==
  ASSUME Places, Values,
         ErrorExpires \/ RunStep \/ GraceExpires \/ StopCalled \/ StopAclosed \/ StopDone
  PROVE  QuietForWindows /\ QuietForEscalations
<1>1. windowId \in Int
  BY DEF Values
<1>2. CASE RunStart
  <2>1. \A u \in Windows \cup Escalations : pc'[u] = pc[u]
    BY <1>2, TasksDiffer DEF RunStart
  <2> QED BY <1>1, <1>2, <2>1
          DEF RunStart, QuietForWindows, QuietForEscalations, cadVars, winStats
<1>3. CASE ~ RunStart
  BY <1>1, <1>3
  DEF ErrorExpires, RunStep, RunConsumerReturned, RunGraceOver, RunGathered,
      RunConsumerRaised, RunEnds, GraceExpires, StopCalled, StopAclosed, StopDone,
      QuietForWindows, QuietForEscalations, cadVars, winStats
<1> QED BY <1>2, <1>3

\* A window's place after its own step, and the other tasks'.
LEMMA TaskMoves ==
  ASSUME Places, NEW t \in Tasks, NEW x, pc' = [pc EXCEPT ![t] = x]
  PROVE  pc'[t] = x /\ \A u \in Tasks \ {t} : pc'[u] = pc[u]
BY DEF Places

\* A set of windows gets one more.
LEMMA OneMore ==
  ASSUME NEW S \in SUBSET Windows, NEW T, NEW w \in Windows, w \notin S, T = S \cup {w}
  PROVE  Cardinality(T) = Cardinality(S) + 1
<1>1. IsFiniteSet(Windows)
  BY FS_Interval, PipelineAssumption DEF Windows
<1> QED BY <1>1, FS_Subset, FS_AddElement

\* A window is dispatched under a number that no window has had.
LEMMA DispatchCounts ==
  ASSUME Places, Values, CountInv, CadencerWindow
  PROVE  CountInv' /\ QuietForEscalations
<1>1. CASE stop
  <2>1. \A u \in Windows \cup Escalations : pc'[u] = pc[u]
    BY <1>1, LoopMoves, TasksDiffer DEF CadencerWindow, Goes
  <2>2. windowId' \in Int /\ windowId' >= windowId
    BY DEF CadencerWindow, Values
  <2>3. QuietForWindows /\ QuietForEscalations
    BY <1>1, <2>1, <2>2
    DEF CadencerWindow, QuietForWindows, QuietForEscalations, winStats
  <2> QED BY <2>3, QuietKeepsCounts
<1>2. CASE ~ stop
  <2> DEFINE w == windowId + 1
  <2>1. /\ w \in Windows /\ windowId \in Nat
        /\ pc' = [pc EXCEPT ![w] = "ready"]
        /\ windowId' = w /\ dispatched' = dispatched + 1
        /\ UNCHANGED <<completed, failed, escInFlight>>
    BY <1>2, PipelineAssumption DEF CadencerWindow, Values, Windows, winStats
  <2> HIDE DEF w
  <2>2. pc[w] = "none"
    BY <2>1 DEF CountInv, w
  <2>3. w \in Tasks /\ pc'[w] = "ready" /\ \A u \in Tasks \ {w} : pc'[u] = pc[u]
    BY <2>1, TasksDiffer, TaskMoves
  <2>4. Begun' = Begun \cup {w} /\ w \notin Begun /\ Begun \subseteq Windows
    BY <2>1, <2>2, <2>3, TasksDiffer DEF Begun
  <2>5. Answered' = Answered /\ Failures' = Failures
    BY <2>1, <2>2, <2>3, TasksDiffer DEF Answered, Failures, At
  <2>6. Cardinality(Begun') = Cardinality(Begun) + 1
    BY <2>1, <2>4, OneMore
  <2>7. \A v \in Windows : v > windowId' => pc'[v] = "none"
    BY <2>1, <2>3, TasksDiffer DEF CountInv, w, Windows
  <2>8. QuietForEscalations
    BY <2>1, <2>3, TasksDiffer DEF QuietForEscalations
  <2> QED BY <2>1, <2>5, <2>6, <2>7, <2>8 DEF CountInv
<1> QED BY <1>1, <1>2

\* What a window's step does to the counters: one more where it goes in, none
\* where it was before or does not go.
LEMMA WindowCounts ==
  ASSUME Places, Values, CountInv, NEW w \in Windows, WindowStep(w)
  PROVE  CountInv' /\ QuietForEscalations
<1>1. /\ windowId' = windowId /\ dispatched' = dispatched /\ escInFlight' = escInFlight
      /\ windowId \in Int /\ w \in Tasks
  BY TasksDiffer
  DEF WindowStep, WindowSkipped, WindowSubmitted, WindowGranted, WindowAnswered,
      WindowCallFails, WindowPublished, WindowFailed, WindowCut, cadVars, Values
<1>2. PICK x : /\ pc' = [pc EXCEPT ![w] = x] /\ x # "none" /\ pc[w] # "none"
               /\ \/ /\ pc[w] \notin {"applying", "completed", "cut"} /\ x \in {"applying", "completed", "cut"}
                     /\ completed' = completed + 1
                  \/ /\ pc[w] \in {"applying", "completed", "cut"} <=> x \in {"applying", "completed", "cut"}
                     /\ completed' = completed
               /\ \/ /\ pc[w] # "failed" /\ x = "failed" /\ failed' = failed + 1
                  \/ /\ pc[w] = "failed" <=> x = "failed"
                     /\ failed' = failed
  BY DEF WindowStep, WindowSkipped, WindowSubmitted, WindowGranted, WindowAnswered,
         WindowCallFails, WindowPublished, WindowFailed, WindowCut, Goes, Cut, winStats
<1>3. pc'[w] = x /\ \A u \in Tasks \ {w} : pc'[u] = pc[u]
  BY <1>1, <1>2, TaskMoves
<1>4. Begun' = Begun
  BY <1>2, <1>3, TasksDiffer DEF Begun
<1>5. \A v \in Windows : v > windowId' => pc'[v] = "none"
  BY <1>1, <1>2, <1>3, TasksDiffer DEF CountInv, Windows
<1>6. completed' = Cardinality(Answered')
  <2>1. CASE pc[w] \notin {"applying", "completed", "cut"} /\ x \in {"applying", "completed", "cut"}
    <3>1. Answered' = Answered \cup {w} /\ w \notin Answered /\ Answered \subseteq Windows
      BY <1>3, <2>1, TasksDiffer DEF Answered, At
    <3>2. completed' = completed + 1
      BY <1>2, <2>1
    <3> QED BY <3>1, <3>2, OneMore DEF CountInv
  <2>2. CASE pc[w] \in {"applying", "completed", "cut"} <=> x \in {"applying", "completed", "cut"}
    <3>1. Answered' = Answered
      BY <1>3, <2>2, TasksDiffer DEF Answered, At
    <3>2. completed' = completed
      BY <1>2, <2>2
    <3> QED BY <3>1, <3>2 DEF CountInv
  <2> QED BY <1>2, <2>1, <2>2
<1>7. failed' = Cardinality(Failures')
  <2>1. CASE pc[w] # "failed" /\ x = "failed"
    <3>1. Failures' = Failures \cup {w} /\ w \notin Failures /\ Failures \subseteq Windows
      BY <1>3, <2>1, TasksDiffer DEF Failures, At
    <3>2. failed' = failed + 1
      BY <1>2, <2>1
    <3> QED BY <3>1, <3>2, OneMore DEF CountInv
  <2>2. CASE pc[w] = "failed" <=> x = "failed"
    <3>1. Failures' = Failures
      BY <1>3, <2>2, TasksDiffer DEF Failures, At
    <3>2. failed' = failed
      BY <1>2, <2>2
    <3> QED BY <3>1, <3>2 DEF CountInv
  <2> QED BY <1>2, <2>1, <2>2
<1>8. QuietForEscalations
  BY <1>1, <1>3, TasksDiffer DEF QuietForEscalations
<1> QED BY <1>1, <1>4, <1>5, <1>6, <1>7, <1>8 DEF CountInv

\* An escalation takes the flag with nobody running, and gives it back alone.
LEMMA EscalationCounts ==
  ASSUME Places, Values, FlagInv, NEW e \in Escalations, EscalationStep(e)
  PROVE  QuietForWindows /\ FlagInv'
<1>1. windowId \in Int /\ e \in Tasks /\ UNCHANGED <<cadVars, winStats>>
  BY TasksDiffer
  DEF Values, EscalationStep, EscalationRefused, EscalationCalls, EscalationAnswered,
      EscalationEnds, EscalationCut
<1>2. PICK x \in {"calling", "applying", "done"} :
        /\ pc' = [pc EXCEPT ![e] = x]
        /\ \/ x = "calling" /\ ~ escInFlight /\ escInFlight'
           \/ x = "applying" /\ pc[e] = "calling" /\ escInFlight' = escInFlight
           \/ x = "done" /\ pc[e] = "ready" /\ escInFlight' = escInFlight
           \/ x = "done" /\ pc[e] \in {"calling", "applying"} /\ ~ escInFlight'
  BY DEF Values, EscalationStep, EscalationRefused, EscalationCalls, EscalationAnswered,
         EscalationEnds, EscalationCut, Goes, Cut
<1>3. pc'[e] = x /\ \A u \in Tasks \ {e} : pc'[u] = pc[u]
  BY <1>1, <1>2, TaskMoves
<1>4. QuietForWindows
  BY <1>1, <1>3, TasksDiffer DEF QuietForWindows, cadVars, winStats
<1>5. CASE x = "calling"
  <2>1. Running = {} /\ Running' = {e}
    BY <1>2, <1>3, <1>5, TasksDiffer DEF FlagInv, Running
  <2>2. escInFlight'
    BY <1>2, <1>5
  <2> QED BY <1>4, <2>1, <2>2 DEF FlagInv
<1>6. CASE x = "done" /\ pc[e] \in {"calling", "applying"}
  <2>1. e \in Running
    BY <1>6 DEF Running
  <2>2. Running = {e}
    BY <2>1 DEF FlagInv
  <2>3. Running' = {}
    BY <1>3, <1>6, <2>2, TasksDiffer DEF Running
  <2>4. ~ escInFlight'
    BY <1>2, <1>6
  <2> QED BY <1>4, <2>3, <2>4 DEF FlagInv
<1>7. CASE x = "applying" \/ (x = "done" /\ pc[e] = "ready")
  <2>1. QuietForEscalations
    BY <1>2, <1>3, <1>7, TasksDiffer DEF QuietForEscalations
  <2> QED BY <1>4, <2>1, QuietKeepsFlag
<1> QED BY <1>2, <1>4, <1>5, <1>6, <1>7

LEMMA StepKeepsCounts ==
  ASSUME Places, Values, CountInv, FlagInv, [Next]_vars
  PROVE  CountInv' /\ FlagInv'
<1>1. CASE UNCHANGED vars
  <2>1. QuietForWindows /\ QuietForEscalations
    BY <1>1 DEF vars, cadVars, winStats, QuietForWindows, QuietForEscalations, Values
  <2> QED BY <2>1, QuietKeepsCounts, QuietKeepsFlag
<1>2. CASE Next
  BY <1>2, QuietKeepsCounts, QuietKeepsFlag, ConsumerCounts, LoopsCount, RestCounts,
     DispatchCounts, WindowCounts, EscalationCounts
  DEF Next, CadencerStep
<1> QED BY <1>1, <1>2

\* The counters and the flag say where the windows and escalations are, in every
\* reachable state and for every number of them.
THEOREM CountInvariant == Spec => [](CountInv /\ FlagInv)
<1>1. Init => CountInv /\ FlagInv
  <2> SUFFICES ASSUME Init PROVE CountInv /\ FlagInv
    OBVIOUS
  <2>1. \A t \in Tasks : pc[t] = "none"
    BY DEF Init
  <2>2. Begun = {} /\ Answered = {} /\ Failures = {} /\ Running = {}
    BY <2>1, TasksDiffer DEF Begun, Answered, Failures, At, Running
  <2>3. \A w \in Windows : pc[w] = "none"
    BY <2>1, TasksDiffer
  <2> QED BY <2>2, <2>3, FS_EmptySet DEF Init, CountInv, FlagInv
<1>2. PipelineInv /\ CountInv /\ FlagInv /\ [Next]_vars => (CountInv /\ FlagInv)'
  BY StepKeepsCounts, TypeParts DEF PipelineInv
<1> QED BY <1>1, <1>2, PipelineInvariant, PTL DEF Spec

\* session.ended tells how every window ended: each dispatched one is counted once
\* as completed or failed if its call was answered or failed (_run_one,
\* _dispatch_window).
THEOREM WindowsAreAccounted == Spec => []WindowsAccounted
<1>1. CountInv => WindowsAccounted
  BY DEF CountInv, WindowsAccounted, Begun, Answered, Failures, At
<1> QED BY <1>1, CountInvariant, PTL

\* At most one escalation calls the LLM, and _escalation_in_flight says whether.
THEOREM OneEscalationAtATime == Spec => []SingleEscalation
<1>1. FlagInv => SingleEscalation
  <2> SUFFICES ASSUME FlagInv
               PROVE  Cardinality(Running) = IF escInFlight THEN 1 ELSE 0
    BY DEF SingleEscalation, Running
  <2> QED BY FS_EmptySet, FS_Singleton DEF FlagInv
<1> QED BY <1>1, CountInvariant, PTL
===============================================================================

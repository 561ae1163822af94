------------------------------- MODULE Analysis -------------------------------
(***************************************************************************)
(* A window's analysis, from its slot in the pool to its last message      *)
(* (pipeline.py, _run_one and _apply_result; llm.py, M3Client): the posts, *)
(* their retries and the repair turn, the events merged into the memory    *)
(* (memory.py, events.py), and the messages sent while other windows and   *)
(* the motion gate merge into the same events.  The calls drive the        *)
(* backpressure controller.                                                *)
(*                                                                         *)
(* Whether two events' types and texts are alike is left open; their times *)
(* and the windows they come from are kept.                                *)
(***************************************************************************)
EXTENDS BackpressureControl, FiniteSets, SequencesExt

CONSTANTS Windows,     \* 1..n: windows waiting for a slot, in the pool's order
          MaxRetry,    \* settings.max_retry
          Spans,       \* an event's <<t_start, t_end>> in its window, as the model says
          MostEvents,  \* bound: events in an answer
          GateTimes,   \* when the gate may fire
          MaxGate,     \* bound: firings of the gate
          Jitter,      \* tolerance of should_merge (0.5 s)
          Kept         \* narratives kept (maxlen 5)

ASSUME AnalysisAssumption ==
  /\ Windows \subseteq Nat \ {0}
  /\ MaxRetry \in Nat /\ MostEvents \in Nat /\ MaxGate \in Nat
  /\ Jitter \in Nat /\ Kept \in Nat \ {0}
  /\ Spans \subseteq Nat \X Nat /\ GateTimes \subseteq Nat

VARIABLES call,       \* each window's analysis: where it is, its turn and attempt
          told,       \* announcements each window has still to make
          pending,    \* StreamingMemory.pending_events, in insertion order
          narratives, \* recent_narratives: the windows they describe
          ingested,   \* events given to ingest_new_events so far
          shown,      \* the last message about each event
          stopping    \* stop() has cancelled the tasks

memoryVars == <<pending, narratives, ingested>>
callVars == <<call, told>>
analysisVars == <<callVars, memoryVars, shown, stopping>>

Now(where) == [at |-> where, turn |-> 1, attempt |-> 0]

AnalysisInit ==
  /\ call = [w \in Windows |-> Now("waiting")]
  /\ told = [w \in Windows |-> <<>>]
  /\ pending = <<>> /\ narratives = <<>> /\ ingested = 0
  /\ shown = <<>>
  /\ stopping = FALSE

At(w, where) == call[w].at = where

\* The task goes on; what analyze_window kept of its turns is gone.
Moves(w, where) == call' = [call EXCEPT ![w] = Now(where)]

-------------------------------------------------------------------------------
(***************************************************************************)
(* analyze_window: two turns at most, each with its retries                *)
(***************************************************************************)

\* A request of attempt \in 0..MaxRetry is sent.
Posts(w, turn, attempt) ==
  call' = [call EXCEPT ![w] = [at |-> "posting", turn |-> turn, attempt |-> attempt]]

\* The pool grants a slot, in order, and the first request goes out.
WindowStarts(w) ==
  /\ At(w, "waiting") /\ \A v \in Windows : v < w => ~ At(v, "waiting")
  /\ CallStarts
  /\ Posts(w, 1, 0)
  /\ UNCHANGED <<told, memoryVars, shown, stopping>>

MayRetry(w) == call[w].attempt < MaxRetry

\* 429, 5xx, a timeout, a network error or an error in the body: _post sleeps.
Backs(w) ==
  /\ At(w, "posting") /\ MayRetry(w)
  /\ call' = [call EXCEPT ![w].at = "backoff"]
  /\ UNCHANGED <<vars, told, memoryVars, shown, stopping>>

Retries(w) ==
  /\ At(w, "backoff")
  /\ Posts(w, call[w].turn, call[w].attempt + 1)
  /\ UNCHANGED <<vars, told, memoryVars, shown, stopping>>

\* analyze_window raises: the last attempt of the first turn failed, a failure
\* that is not retried came, or in either turn an answer without choices.
\* record_error(), then the error message is being sent.
Fails(w) ==
  /\ At(w, "posting")
  /\ CallFails
  /\ Moves(w, "reporting")
  /\ UNCHANGED <<told, memoryVars, shown, stopping>>

\* An answer that does not parse or has not the schema: the second turn.
Repairs(w) ==
  /\ At(w, "posting") /\ call[w].turn = 1
  /\ Posts(w, 2, 0)
  /\ UNCHANGED <<vars, told, memoryVars, shown, stopping>>

\* The second turn gives nothing (its post failed, or the answer is invalid again),
\* or the first an empty answer: _apply_result returns early.
Empty(w) ==
  /\ At(w, "posting")
  /\ CallEnds
  /\ Moves(w, "done")
  /\ UNCHANGED <<told, memoryVars, shown, stopping>>

-------------------------------------------------------------------------------
(***************************************************************************)
(* The memory                                                              *)
(***************************************************************************)
\* recent_narratives.append, on a deque with a maxlen.
Remembered(w) ==
  Append(IF Len(narratives) < Kept THEN narratives ELSE Tail(narratives), w)

Lower(a, b) == IF a <= b THEN a ELSE b

\* Mutation: the time span is the later event's.
MergedOver(a, b) ==
  [a EXCEPT !.from = b.from, !.to = b.to, !.windows = @ \cup b.windows, !.count = @ + 1]

\* merge_events(): a with b's contribution.
Merged(a, b) ==
  [a EXCEPT !.from = Lower(@, b.from), !.to = Higher(@, b.to),
            !.windows = @ \cup b.windows, !.count = @ + 1]

\* should_merge(existing, b) for the event named like, and it is the match: the
\* one of the same type and like text that ends last.  Any may be it.
Matches(mem, like, b) ==
  {i \in DOMAIN mem : mem[i].id = like /\ b.from <= mem[i].to + Jitter
                                       /\ b.to >= mem[i].from - Jitter}

\* Mutation: the merged event is stored under the new one's id.
StoredTwice(acc, like, b) ==
  IF Matches(acc.mem, like, b) = {}
  THEN [mem |-> Append(acc.mem, b), ids |-> Append(acc.ids, b.id)]
  ELSE LET i == CHOOSE x \in Matches(acc.mem, like, b) : TRUE
       IN  [mem |-> Append(acc.mem, [Merged(acc.mem[i], b) EXCEPT !.id = b.id]),
            ids |-> Append(acc.ids, b.id)]

\* ingest_new_events() of one event: the memory, and the id it goes by from now on.
Stored(acc, like, b) ==
  IF Matches(acc.mem, like, b) = {}
  THEN [mem |-> Append(acc.mem, b), ids |-> Append(acc.ids, b.id)]
  ELSE LET i == CHOOSE x \in Matches(acc.mem, like, b) : TRUE
       IN  [mem |-> [acc.mem EXCEPT ![i] = Merged(@, b)], ids |-> Append(acc.ids, like)]

\* ingest_new_events(), without a pause between the events.
StoredAll(news, like) ==
  LET acc[i \in 0..Len(news)] ==
        IF i = 0 THEN [mem |-> pending, ids |-> <<>>]
        ELSE Stored(acc[i - 1], like[i], news[i])
  IN  acc[Len(news)]

Known == {pending[i].id : i \in DOMAIN pending}

NoEvent == <<0, 0>>

\* An answer's events: their times are relative to the window's start, here w.
News(w, spans) ==
  [i \in DOMAIN spans |-> [id |-> <<w, i>>, from |-> w + spans[i][1], to |-> w + spans[i][2],
                           windows |-> {w}, count |-> 1]]

\* Mutation: only an inserted event is announced.
ToAnnounceNew(w, ids) == SelectSeq(ids, LAMBDA id : id[1] = w)

ToAnnounce(w, ids) == ids

\* _apply_result up to its first message: the narrative and the events enter the
\* memory in one step.
Applies(w) ==
  /\ At(w, "posting")
  /\ \E n \in 0..MostEvents : \E spans \in [1..n -> Spans], narrative \in BOOLEAN :
       LET news == News(w, spans)
       IN  /\ n > 0 \/ narrative
           /\ narratives' = IF narrative THEN Remembered(w) ELSE narratives
           /\ \E like \in [1..n -> Known \cup {news[i].id : i \in 1..n}] :
                LET all == StoredAll(news, like)
                IN  /\ pending' = all.mem
                    /\ told' = [told EXCEPT ![w] = ToAnnounce(w, all.ids)]
           /\ ingested' = ingested + n
  /\ Moves(w, "announcing")
  /\ UNCHANGED <<vars, shown, stopping>>

-------------------------------------------------------------------------------
(***************************************************************************)
(* Messages                                                                *)
(***************************************************************************)

\* A message says what is known of the event id.
Shows(id, ev) ==
  shown' = [x \in DOMAIN shown \cup {id} |-> IF x = id THEN ev ELSE shown[x]]

Named(mem, id) == CHOOSE i \in DOMAIN mem : mem[i].id = id

\* The next announcement is sent: the event as it is now, not as it was ingested.
Announces(w) ==
  /\ At(w, "announcing") /\ told[w] # <<>>
  /\ LET id == Head(told[w])
     IN  Shows(id, pending[Named(pending, id)])
  /\ told' = [told EXCEPT ![w] = Tail(@)]
  /\ UNCHANGED <<vars, call, memoryVars, stopping>>

\* The narrative has been sent as well, or the error: the slot is given back.
Finishes(w) ==
  /\ At(w, "reporting") \/ (At(w, "announcing") /\ told[w] = <<>>)
  /\ CallEnds
  /\ Moves(w, IF At(w, "reporting") THEN "failed" ELSE "done")
  /\ UNCHANGED <<told, memoryVars, shown, stopping>>

Firings == Cardinality({id \in DOMAIN shown : id[1] = 0})

\* The gate fires in _consume: its event is ingested and announced under its own
\* id, even when it was merged into another.
GateFires ==
  /\ Firings < MaxGate
  /\ \E t \in GateTimes, like \in Known \cup {NoEvent} :
       LET ev == [id |-> <<0, Firings + 1>>, from |-> t, to |-> t, windows |-> {}, count |-> 1]
       IN  /\ pending' = StoredAll(<<ev>>, <<like>>).mem
           /\ Shows(ev.id, ev)
  /\ ingested' = ingested + 1
  /\ UNCHANGED <<vars, callVars, narratives, stopping>>

-------------------------------------------------------------------------------
\* stop() cancels the tasks; each learns of it where it awaits, and gives its
\* slot back without a word.
Stops ==
  /\ stopping' = TRUE
  /\ UNCHANGED <<vars, callVars, memoryVars, shown>>

Cancelled(w) ==
  /\ call[w].at \in {"posting", "backoff", "reporting", "announcing"}
  /\ CallEnds
  /\ Moves(w, "cancelled")
  /\ told' = [told EXCEPT ![w] = <<>>]
  /\ UNCHANGED <<memoryVars, shown, stopping>>

Ladder ==
  /\ Update \/ FiveSecondsPass \/ ErrorExpires
  /\ UNCHANGED analysisVars

AnalysisNext ==
  \/ /\ ~ stopping
     /\ \/ \E w \in Windows :
             \/ WindowStarts(w) \/ Backs(w) \/ Retries(w) \/ Fails(w) \/ Repairs(w)
             \/ Empty(w) \/ Applies(w) \/ Announces(w) \/ Finishes(w)
        \/ GateFires \/ Ladder \/ Stops
  \/ stopping /\ \E w \in Windows : Cancelled(w)

AnalysisSpec == Init /\ AnalysisInit /\ [][AnalysisNext]_<<vars, analysisVars>>

-------------------------------------------------------------------------------
(***************************************************************************)
(* Properties                                                              *)
(***************************************************************************)

\* Whatever other windows and the gate merge into an event between two messages
\* about it, a later message never says less than an earlier one: no window, no
\* second and no corroboration that an observer has seen is taken back.
EventNeverRegresses ==
  [][\A id \in DOMAIN shown :
       /\ shown[id].windows \subseteq shown'[id].windows
       /\ shown'[id].from <= shown[id].from /\ shown[id].to <= shown'[id].to
       /\ shown[id].count <= shown'[id].count]_shown

\* The corroborations of the events of a memory, added up.
Corroborations(mem) ==
  LET upto[i \in 0..Len(mem)] == IF i = 0 THEN 0 ELSE upto[i - 1] + mem[i].count
  IN  upto[Len(mem)]

\* What ingest_new_events() is given is in the memory once: the corroborations of
\* the pending events add up to the events found by the windows and the gate.
EventsConserved == Corroborations(pending) = ingested

\* When a window's task is through, every event it contributed to has been shown
\* with that contribution, though other windows' results came in between.
NewsIsTold ==
  \A w \in Windows : At(w, "done") =>
    \A i \in DOMAIN pending : w \in pending[i].windows =>
      /\ pending[i].id \in DOMAIN shown
      /\ w \in shown[pending[i].id].windows
===============================================================================

# A verification of rtva

rtva is a server that analyses live video with an LLM.  A client opens a
session, pushes JPEG frames over a WebSocket, over HTTP or over KCP (or names a
URL to pull), and the session's pipeline picks frames, sends windows of them to
the LLM and emits events and narratives to whoever observes the session.
Everything runs on one asyncio event loop: the hard part of the program is not
parallelism but what can happen at each `await`, and how a session ends.

This directory holds TLA+ modules that model that part of the system, the TLC
configurations that check them on small instances, and proofs, checked by
TLAPS, of the theorems that hold for every value of the constants.
`PROJECT.json` maps every definition to the source lines it models, lists the
runs, the mutations each property is known to catch, the hazards of the code and
the disagreements found.

## 1. Inventory

Paths are relative to `src/`.  "Hard" names the behaviour a test hardly reaches.

| Component | State | Operations | Interacts with | Hard | Correct when |
|---|---|---|---|---|---|
| **Worker pool** `rtva/scheduler.py` `WorkerPool` | semaphore (counter, deque of futures), `in_flight` | `submit` | window tasks submit; the stats loop reads `in_flight`; `stop` cancels submitters | cancellation racing a wake-up | no slot leaks, no wake-up is lost, FIFO, `in_flight` exact |
| **Backpressure** `rtva/scheduler.py` `Backpressure` | `current_level`, `error_window`, `last_level_change_t` | `update`, `record_error` | stats loop updates, windows record errors, level sets cadence and frames per window | a controller that never returns; thresholds out of reach | the level rises for a cause and comes back without it |
| **Cadence** `rtva/scheduler.py` `WindowScheduler`, `rtva/pipeline.py` `FrameRing`, `_consume`, `_cadencer`, `_dispatch_window` | last kept stamp, ring of 64 frames, next dispatch | rate cap, `push`, `recent`, `next_window`, sampling | frames from the ingestors, level from backpressure | client clocks that step back; a window assembled after newer frames came | windows far enough apart, each with all of its frames |
| **Pipeline** `rtva/pipeline.py` | tasks, `_tasks`, `_stop`, ring, memory, counters, escalation flag, LLM client | `run`, `stop`, three loops, one task per window and per escalation | source, pool, LLM, `emit`, session manager | interleaving of tasks, cancellation at any await, two ways to end | nobody uses a closed client, nothing is cancelled before the grace period, windows are counted once, everything ends |
| **Push ingestors** `rtva/ingest_{ws,http,kcp}.py` and the handlers in `api_v1.py`, `kcp_server.py` | bounded queue, `_stop` | `feed`, `close`/`aclose`, `frames` | handlers feed, pipeline consumes, `stop` closes | drop-oldest against the sentinel, blocking `put` on a full queue, frames of one KCP peer decoded together | frames once, in order where the channel keeps order, the end is never lost, closing ends |
| **Pull source** `rtva/source.py`, `frame_source.py` | queue, producer task | `frames`, `aclose` | PyAV, pipeline | the same queue, other end marker | as above |
| **Session manager and reaper** `rtva/sessions.py` | registry, lock, reaper task | `create`, `stop`, `_run`, `_sweep_once` | pipelines, routes, observers | a lock held over a long await; a stale victim list | ended sessions leave the registry; only idle ones are reaped |
| **Observer fan-out** `rtva/sessions.py` `emit`, `api_v1.py` `observe` | observer set, 200-message replay buffer | emit, join with replay, leave | pipeline tasks emit concurrently | a join during an emit, a slow observer | every message once, in order |
| **KCP server** `rtva/kcp_server.py` | peers, buffers, binding to a session | hello, frame, ping, close | ingestor, manager | a peer outliving its session, a handler suspended in a decode while the peer changes | messages survive any split into packets; a change of peer loses no event |
| **Token store** `rtva/auth.py` | JSON file, lock file | mint, verify, revoke | all routes | two processes, a crash between write and rename | an operation is all or nothing, a revoked token stays revoked |
| **Rate limiter** `rtva/rate_limit.py` | tokens, last refill | `acquire` | stream creation | the burst after a pause | never more than capacity + rate * t |
| **Motion gate** `rtva/gate.py` | previous frame, motion average, last scene cut | `update` | consumer | cooldown of scene cuts only | a cut fires at most once a cooldown |
| **Events, memory** `rtva/events.py`, `memory.py` | bounded deques, open events | merge, append | windows | merging results while earlier ones are still being announced | nothing is merged twice, announced news is not taken back |
| **LLM client** `rtva/llm.py` | HTTP client | `analyze_window` with retries and a repair turn | windows, escalations | retries, bad JSON | ends after a bounded number of requests |
| **Routes, settings, prompts, scripts, page** | - | plumbing and text | - | - | - |

Seven behaviours carry the risk, in this order: how a session ends (pipeline,
pool), how a source ends (ingestors), whether the controller that protects the
LLM works (backpressure), how sessions are created, stopped and reaped
(manager), what observers see (fan-out, KCP), whether the windows sent are the
right ones (cadence), and who may ask for them (token store).

## 2. Modules

| Module | What it is |
|---|---|
| `WorkerPool` | `submit()` and the `asyncio.Semaphore` below it, with cancellation |
| `WorkerPoolProofs` | its inductive invariant and six safety theorems |
| `Backpressure` | `update()` as an operator, used by the next module and by `Pipeline` |
| `BackpressureControl` | the controller among calls, errors and the passing of time |
| `Pipeline` | `run`, `stop`, the loops, windows, escalations; instantiates `WorkerPool` with the windows as tasks |
| `PipelineProofs` | shutdown safety; the pipeline implements `WorkerPool`; the counters of windows and the flag of the escalations |
| `Cadence` | the rate cap, the ring, when a window is due, which frames it takes and sends |
| `Analysis` | a window from its slot to its last message: posts, retries, repair turn, merging into the memory; extends `BackpressureControl`, which its calls drive |
| `StreamProofs` | from frame to message: the ring's and the windows' invariants, what the memory keeps and what is said of it, the ladder and the depth that drives it |
| `FrameChannel` | abstract: a bounded lossy FIFO channel, ordered per source or not, what a source promises |
| `Ingestor` | the three push channels with their handlers, the pull source with its producer, the consumer and `stop()`; implements `FrameChannel` |
| `IngestorProofs` | the end is never dropped; the ingestors implement `FrameChannel`; frames are received once and in order |
| `Framing` | `Framer.feed()` on a byte stream cut anywhere, against what the client meant |
| `Selection` | the members of a set in a sequence, which `Framing` and `Ingestor` use |
| `KcpServer` | connections, peer objects, hello, frames that decode, close, and the session's bound peer |
| `Fanout` | one session's messages: numbering, replay buffer, observers coming and going, the KCP peer; extends `KcpServer` |
| `KcpProofs` | observers and the KCP peer get every message once; every stream is cut into the messages it was made of |
| `Sessions` | registry, lock, `_run`, `stop`, DELETE requests, the reaper, observers joining and leaving |
| `SessionsProofs` | its inductive invariant and the exactness of the lock's queue |
| `TokenStore` | `tokens.json`, its temporary file and their inodes, several processes, crashes |
| `TokenBucket` | `acquire()` as an operator |
| `Access` | the requests: authentication against the store, admin routes, a stream's slot in the bucket; extends both |
| `AccessProofs` | the bound on bursts, revocations that hold, lone operations that are atomic |
| `DataLemmas` | sequences, sets listed as sequences, functions defined by recursion: what the proofs above share |
| `MCWorkerPool`, `MCPipeline`, `MCBackpressure`, `MCIngestor`, `MCSessions`, `MCCadence`, `MCAccess`, `MCStream` | instances for TLC; `MCStream` holds four modules' |

An operator whose comment begins with "Mutation" is a plausible bug of the
definition next to it.  No specification uses it; substituted for the
definition, it makes the property `PROJECT.json` names fail, so each property is
known to depend on the code it talks about.

### How the models follow the code

*Atomicity.*  A step is what one task executes between two suspension points, so
the interleavings are exactly the event loop's.  An `await` that cannot suspend
is not one: `put()` after a `get_nowait()` that made room, `acquire()` on an
unlocked semaphore.  Every `_emit` is a suspension point of any length, because
it awaits each observer in turn; `session.started` is the exception, emitted
when nobody can have joined yet, so `run()` reaches `await consumer` in one step
and `stop()` cannot precede it.  Between processes, in `TokenStore`, a step is a
stretch of file operations under one lock.

*Cancellation.*  `cancelled` holds the tasks `cancel()` was called on.
Such a task makes no normal step; its next step is the one CancelledError
forces at the point where it is suspended (`Cut`), which runs its `finally`
clauses and nothing else.  `ConsumerCut` separates the points where
`_consume` catches the error from the two where it escapes to `await consumer`
(before the first step, and while the error of a failed source is emitted).

*WorkerPool.*  `value` is `Semaphore._value`, `waiters` its deque of futures,
`slot` says where a task is: idle, waiting (future pending), granted (future set,
task not resumed), held, done.  The model is of the CPython 3.11 semaphore, whose
`_wake_up_next` decrements the counter on behalf of the waiter; a waiter
cancelled after its grant increments it again and wakes the next.  Granted tasks
resume in the order of the grants, because `set_result` schedules them with
`call_soon`, which is FIFO.

*Pipeline.*  `pc[t]` is the suspension point of each task or how it ended,
`tracked` is `_tasks`.  Windows and escalations leave `_tasks` by the
done-callback of `_track_task` in the step that ends them; the three loops are
created by `run()` itself and stay until `_tasks.clear()`.  Windows start in the
order of their creation (the loop's FIFO).  Escalations do not use the pool, as
in the code.  What the result of a call may be is reduced to: it fails, it is
empty (nothing is emitted), or it is published.  `_apply_result` cannot raise
after counting the window: the client has already coerced each event's
fields.  `Cadence` and `Analysis` have the data that this module leaves out.

*Cadence.*  Time is the frames' own stamps, in ticks.  They are set by clients:
`FrameArrives` is a running clock, `ClockStepsBack` one that was restarted or
wrapped.  A window is due in one step (`WindowDue`, the cadencer's, with
`next_window` and the stride that replaces the one it set) and assembled in a
later one (`Assemble`, the window task's first), with frames and changes of
level in between.  `late` counts those frames.  The consumer lets the loop run
the other tasks whenever its queue is empty, so no more than a queue of frames
can come between; `Late` is that bound.  The assumption that the ring has room
for a window and that many frames, `Window \div MinGap + 1 + Late <= RingMax`, is true of the
defaults (64 places; 13 frames and 32).

*Analysis.*  `call[w]` says where a window is: waiting for its slot, in a post,
in the sleep before a retry, announcing, reporting an error, done, failed; with its turn (first or
repair) and attempt.  An answer is the times of its events and whether it has a
narrative.  The pending events are kept with their span, the windows they come
from and their count; whether types and texts are alike is a choice (`like`).
Events are merged in place, so a message carries the event as it is when it is
sent, which other windows and the gate may have changed meanwhile.  The gate's
firings are a choice of times.

*Ingestor.*  One module for the four channels; `kind`, chosen at the start from
the constant `Kinds`, selects the differences: KCP checks `_stop` after the
decoding and WebSocket and HTTP before; a frame that does not decode closes the
whole ingestor on WebSocket (`finally: await ingestor.close()` in the handler)
and costs a frame elsewhere; only a WebSocket handler closes at the end of its
connection.  `decoding[c]` holds the numbers of the frames of `c` in decoding.  It has
at most one on WebSocket, whose handler awaits `feed`, and in a pull source's
producer.  On KCP every packet has its own call of `handle_data`, suspended in
`to_thread`, so several frames of one peer may be in decoding and end in any order
(`Receive` looks at `decoding[c]` except on KCP; `KcpServer` has the peers' side of it).
For HTTP a member of `Conns` is a client that awaits the answer before its next POST;
POSTs that overlap, of one client or several, are as many members.
A pull source has a producer task instead of handlers: its end
markers are blocking `put`s of its own, `aclose()` adds none, and the consumer's
`finally` cancels and awaits the producer (`reaping`).
`putters` and `woken` are asyncio.Queue's blocked putters: `get_nowait` wakes one
by setting its future, and it looks again when it resumes, since a feed may
have taken the place meanwhile.

*Framing.*  A byte stream is a sequence of cells that remember which part of
which message they are, so a length read in the wrong place is recognisable
(`Misread`, more than any stream has: a JPEG's first bytes, read as a length, are
over 4 * 10^9).  A message is a frame with the length of its payload in the header
(form A) or in front of it (form B), another message, one whose body is not
JSON, or one without a body.  `Drain` is `feed()`'s loop: `Turn` is half a turn of it,
the length (`TakePrefix`) or the body (`TakeBody`), on a record of the framer's state and
the loop's local variables.  A half that goes on has removed a cell, so as many
halves as there are cells, and one, are enough.  `payload` is one of the variables: it is not reset
from message to message, so a message without a payload is returned with the
last frame's.  Only a frame's payload is looked at (`Understood`).

*KcpServer.*  The messages that one packet completes are handled as a batch, in
one step up to the first frame that has to be decoded.  The call suspended there
(`calls`) goes on with the rest of its batch later, on the peer object it
started on, even if another packet made a new object for the same address.
What the other messages of a batch change does not depend on their order (a hello
binds the object, a close or a refused hello pops its key, nothing undoes either),
so `Continue` applies them together; their order only decides where the call
suspends (`Prompt`).

*Fanout.*  Emission goes on after the source was closed, as windows are drained and the
session ends.  `emitting[e]` is a task in `emit`: its message, the observers it has
still to send to, and those that failed, which are dropped when it is through.
The list is copied at the start, as in the code.  A cancelled emission goes no
further (`cut`): neither to the other observers nor to the KCP peer.  A joining
observer is added to the set, and is then sent its replay one by one.

*Sessions.*  `sess[s]` follows a session from its POST through `_run`;
`sessions` is the registry.  Whether `pipeline.run()` and `pipeline.stop()` have
ended is all it knows of a pipeline.  The asyncio.Lock is modelled as it
behaves: taken in the same step when it is free and nobody waits, else a FIFO
queue.  This precision matters for the reaper: it does not suspend between its
sweep and the first `stop()` unless somebody waits for the lock, so its decision
is only stale for later victims or under contention (`StopsInTurn`).  The order
of the victims (that of the dictionary) is left open.  A session pulled from a
URL has no ingestor and never becomes idle; it is a session whose
`TimeoutPasses` never makes it so.

*TokenStore.*  An operation reads the file, opens the temporary file, writes it,
and renames it over the file.  Files are inodes: the temporary one is opened
without being truncated before its lock is held, so its content may be longer
than the dump written over it (`whole` says whether what is there parses); a
process that has it open keeps the inode when another renames it.  A process may
be killed at any of those points (`Crash`, bounded by `MaxCrashes`).  `solo` and
`firm` are history: the operations that had the store to themselves, and the
tokens revoked by one of those.

*Access.*  A request is verified, which itself writes the file for
`last_used_at`, and then served: it mints, revokes, creates a stream or does
something that changes nothing here.  A request of this kind does not suspend
between verification and the end of its handler.  Buckets are per worker and
per label, made at the first stream.  `meter` is history: a meter that leaks at
the bucket's rate and rises with each stream granted.

## 3. Runs

| Run | Instance | Shows |
|---|---|---|
| `pool` | 4 tasks, 2 slots | no slot leaks, no wake-up is lost, slots are granted in order, every waiter is served |
| `pipeline` | 2 windows, 1 worker, 2 escalations, a grace period | a shutdown of either kind misses no task and cancels nothing early; windows are counted once and use the pool as `WorkerPool` allows; one escalation calls the LLM at a time |
| `pipeline_liveness` | 2 windows, 1 worker, a ladder that climbs at 1 | every window ends, the end of the source ends the session, `stop()` returns and leaves nothing running |
| `ingest` | the four channels; 2 connections, 3 frames each, queue of 3 | the end is never dropped, the queue is a `FrameChannel`, frames are received once and (except on KCP) in order, an end ends the consumer, on KCP `stop()` returns |
| `sessions` | 2 sessions, 1 client, the reaper, 1 observer | the registry and the lock stay consistent; ended sessions and zombies leave; every DELETE is answered; deadlock is checked |
| `access` | a worker and the command line, 2 tokens, 3 inodes, 1 crash, bursts of 1 | lone operations are atomic and a crash in one changes nothing; revocations nobody raced hold; bursts are bounded |
| `stream` | `MCStream`, below | messages survive any split; windows are whole and spaced; events are merged once and announced; observers and the KCP peer miss nothing; the ladder has a cause |
| `backpressure_recovery` | pool 4, thresholds 4/8/12, 5 errors, as the defaults | **refuted**: the level does not return to normal |
| `ingest_http_stop` | HTTP, 2 connections, 3 frames each, queue of 2 | **refuted**: `stop()` may block for ever |
| `sessions_reaper` | as `sessions` | **refuted**: the reaper stops a session that came to life again |
| `access_race` | 2 workers, 2 tokens, 3 inodes, no crash | **refuted**: a token nobody revoked disappears |
| `sampling` | the defaults, in ticks of 1/8 s | **refuted**: the sample is not uniform |

*The run `stream`.*  `MCStream` extends `Framing`, `Cadence`, `Analysis` and
`Fanout`.  They share no variable, so a behaviour runs one of them and leaves
the others in their initial states.  `Framing`: up to 3
messages of 7 kinds, prefixes and headers of 2 cells (so that a packet can end
inside one), payloads up to 3 cells and a cap of 2.  `Cadence`: a rate cap of 2
ticks, windows of 5, strides of 4 and 7 at the two levels, a ring of 4, 3
windows within 12 ticks.  `Analysis`: 2 windows on 2 workers, 1 retry,
up to 2 events an answer, 1 firing of the gate, the ladder at 2, 3, 3 and one
error.  `Fanout`: 2 emitters, 2 messages, 2 observers, a replay buffer of 1, 2
connections and 2 packets out of three batches.

*Why these bounds.*  Pool: two of four tasks must wait, so a cancelled waiter
has a successor and a predecessor and two grants can be outstanding at once.
Pipeline: with one worker, one window can run and one wait or be granted, which
is what a cancellation during a hand-over needs; two escalations are
what a conflict over the flag needs.  There the thresholds are out of reach (9),
which freezes the ladder; the ladder has the runs `pipeline_liveness`, `stream`
and `backpressure_recovery`.  Ingestors: two connections interleave, three
frames on each fill the queue and overflow it, and on KCP are decoded in any order.  A queue of 3 keeps the code's
relation "more places than connections" (32 in the code) on which `EndNotLost`
depends and which its statement names.  Sessions: two sessions give
the reaper a second victim and the lock a queue; one client and the reaper are
two tasks in `stop()` for the same session.  Store: two processes are a race;
of three inodes one is the file, one the temporary file, and one is held by a
process whose temporary file was renamed.  Cadence: 12 ticks are three strides
of the shorter kind, and a ring of 4 must drop frames.  Analysis: two windows and the gate
merge into the same event in every order.  Fanout: two emitters and two
observers are what a message that overtakes another needs; a replay of 1 is
already shorter than the 2 messages.

The bounds that the code does not have are `MaxWindows`, `MaxFrames`,
`MaxErrors`, `MaxCrashes`, `MaxMessages`, `MaxPts`, `MaxStep`, `MostEvents`, `MaxGate`,
`MaxPackets` and `MaxSeq`.  `CHECK_DEADLOCK FALSE` stands where sessions end and
nothing is left to do, or a bound is reached.

*Fairness.*  Weak, on the steps of each task: the event loop runs whatever is
ready.  A timer fires (the grace period, the sleeps).  An LLM call ends, since
httpx has a timeout and the retries are bounded.  An observer's send ends, since
the server closes a WebSocket that does not answer pings.  A decoding ends.
`Pipeline` assumes that `frame_source.aclose()` returns; `Ingestor` is where
that is examined, and only on KCP is it always true.  Nothing is assumed of a client:
frames, disconnections, the end of the source and `stop()` may never happen.
`Sessions` assumes of a pipeline what `StopEndsSession` shows.  Liveness is
stated of the pool, the pipeline, the ingestors, the sessions and the
controller; the other modules state safety only.

## 4. What is proved

All proofs hold for every set of tasks, processes, tokens, clients, every pool
size, threshold and number of windows, and with or without a grace period.  The
assumptions are the modules' ASSUMEs: finite sets of tasks, natural numbers,
distinct names, and in `Cadence` that the ring has room.

*Pool* (`WorkerPoolProofs`).  The inductive invariant adds to the type that the
deque holds exactly the waiting and granted tasks, once each, that slots are
conserved, and that `value > 0` beside a pending waiter implies a granted one.
The last needs the first two: a wake-up is passed on by a task that is still in
the deque.  From it follow `SlotsConserved`, `DequeExact`, `InFlightExact` and
`NoLostWakeup`.
`GrantsInOrder` needs an invariant of its own, `Ordered`: in the deque no pending
task stands before a granted one.  A wake-up keeps it because it takes the first
pending task, and a departure because the rest of the deque stays in order.

*Pipeline* (`PipelineProofs`).  The invariant of the shutdown says that whoever
is alive is in `_tasks` or `run()` is past clearing it, that whatever is alive
while `run()` or `stop()` gathers is among what they gather, and, as the
strengthening that makes it inductive, that once anything has been cancelled
everything alive has been: nothing can be spawned between the
cancellation and the end, because the spawners are themselves among the
cancelled.  Hence `NoUseAfterClose`, `AliveIsTracked` and `CancelOnlyAfterGrace`.
`PipelineImplementsPool` shows that every step of the pipeline is a step of
`WorkerPool` or a stutter, and `PipelineLeaksNoSlot` carries the pool's theorem
through that refinement instead of proving it again.
Its counters: the invariant says of each one which windows it counts: the begun, the
answered and the failed ones.  Numbers above `window_id` have no window
yet, which is why a dispatch adds exactly one.  The flag is up exactly while one
escalation is in its call.

*Backpressure* (`StreamProofs`).  `NextLevelNotBelow` says that an update never returns
less than the level it is given, the reason of the first disagreement below.  With a
pool smaller than `bp_l2` and `bp_l3`, as in the defaults, "mild" takes calls in flight, "heavy" takes
errors, and "circuit" is out of reach (`LadderClimbsForCause`).
`AnalysisDrivesLadder` shows that every step of an analysis is a step of the
controller's model or leaves it alone, and `DepthCountsAnalyses` that the depth
is the number of windows between the start and the end of their call.

*Cadence* (`StreamProofs`).  `RingSpread` says that stamps n places apart in the
ring are at least n gaps apart, which gives `RingIncreasing` and the number of
frames a window can span.  `Holds` says that a kept frame is in the ring or
older than a full ring's first, and `PendingInRing` that the newest frame of a
window not yet assembled is at most `late` places from the ring's end.
Together with the assumption on the ring's size they give `WindowWhole`: a frame
of the window that had left the ring would have more frames after it than fit in
the window and the queue.  `DispatchFollows` ties the next dispatch to the
stride of the last window's level, whence `WindowsSpaced`.

*Analysis* (`StreamProofs`).  `AnalysisInv` says that the ids in the memory are distinct
(`Distinct`), that a window marks events only once it has found them (`MarkInv`),
that what a window has still to announce is in the memory (`ToldInv`), that
a message about an event said no more than the memory says now (`ShownInv`), that
the gate's events are announced in the step that ingests them (`GateInv`), and that
whatever a window contributed was shown or is on its list (`NewsInv`).
`EventsConserved` adds the counts up: each event that `ingest_new_events` is given
begins one at 1 or raises one by 1.  `Distinct`, which needs `GateInv` for the
ids of the gate's events, is why an announcement finds the event it is about.
`EventNeverRegresses` needs `ShownInv`: a
message carries the event as it is when it is sent, and between two of them the memory
only grows (`Grows`), every event staying at its place.

*Ingestors* (`IngestorProofs`).  `NumberInv` says that the frames a connection has in
decoding are among those it sent and, except on KCP, that there is only its last one.
`EndInv` is the argument for `EndNotLost`: while an end is owed and nobody is blocked putting
one, some sentinel in the queue has fewer items behind it than there are places, even
if every handler still decoding adds one more.  A handler that does takes itself out of that
count; one that comes later sees `_stop`; on KCP none adds any, for it looks at
`_stop` after its decoding.  What the consumer takes from the head only brings the
sentinel nearer.  With more places than connections the bound is
true when the end is put.  `IngestorImplementsChannel` maps the queue to
its frames (`Only(queue, Frames)`), the consumer's list to what was delivered, the
frames sent and no longer in decoding to those that came (`NotDecoding`), and
`kind # "kcp"` to whether the channel is ordered.  Step by step, a decoding that ends is
an `Accept`, perhaps with a loss of the oldest item, or a `Refuse`; a frame that arrives,
sentinels and wake-ups are stutters; leaving the loop finishes the channel.  That a frame
has not come before rests on the first half of `NumberInv`, and the order of a
connection's frames, claimed of WebSocket, HTTP and pull, on the second; of KCP no order is
claimed, and the code keeps none.  `FramesOnceInOrder` says what a channel means for the
pipeline and is proved through the refinement: `OrderInv`, that the frames received and
held have come, once and in order, is kept by every step of a `FrameChannel`.  What `Only` makes of `Append`, `Head` and `Tail` is proved in
`DataLemmas` (below).

*Sessions* (`SessionsProofs`).  The invariant says that only one task is between
the beginning and the end of `stop()` and has the lock, that its session is
registered, and that a registered session has never been stopped
(`EntriesFresh`), which is what makes `StoppedOnce` inductive.
`SessionsTypeCorrect` adds that the lock's queue holds exactly the tasks
suspended there.

*Access* (`AccessProofs`).  What the meter shows and what the bucket holds never
exceed a full bucket together; a tick moves at most one unit from one to the
other.  For the store, a token that a lone revocation revoked is not live in any
inode, nor in any copy that a process is about to write (`Clean`); `LoneRevoke` says that a lone revocation in progress
has no process beside it that holds an older copy, which is where "nobody
raced it" enters, and why the theorem says nothing of the other revocations.
For `SoloIsAtomic` and `UnseenUntilRename`, `LoneWrites` says what a lone operation
has done so far: the file is still what it read, and the temporary file, once
written, holds the dump.  `Held` supplies what this rests on: the
temporary inode is never the file's, and unless a process was killed it exists
only while somebody has it open.

*Framing* (`KcpProofs`).  `Carries` and `BytesLayout` say what is where on the wire.
The invariant is the framer's place: after some number `k` of messages it is before the
next one (`Between`), behind that one's length (`Inside`), or in the payload of an
oversize frame, where nothing is a message any more (`Lost`).  Its buffer is then exactly
the cells from there to the last that arrived (`Rest`), and what it has returned is what
the first `k` messages say (`Told`).  One lemma per place says that half a turn of the loop
leads to a place again, with fewer cells, or stops where the next message
has not arrived (`Waits`); a header that is put back leads from `Inside` to `Between`.
`DrainIs` concludes that the loop ends at a place where it waits, and `CompleteIs` that `k`
is then the number of messages that arrived.  The theorem is for all messages, sizes of
prefixes and headers, and caps; it assumes that a stream is shorter than `Misread`
(`StreamsAreShort`), that is than 4 GB, after which the framer would take a JPEG's
first bytes for the length of a message that has arrived.

*Fan-out* (`KcpProofs`).  For each observer the invariant says that what it was
sent, what of the replay it has still to be sent and what is on its way to it are
apart, and together everything it is owed.  Three facts make this
inductive: the replay buffer has no gaps, so a joining observer's
copy ends where the live messages begin; an emission lists each observer once and
only ones that joined; and no two emissions carry the same message.  For the KCP peer,
`PushInv` says that a message whose fan-out is under way has reached nobody yet,
and `PeerInv` that once a peer is bound one always is, because objects are
numbered from 1 and nothing unbinds.

*Data* (`DataLemmas`).  The library's induction theorems take an operator, which no
prover here can instantiate.  `InductionOnNat` is stated of a *set* of numbers instead, and
proved from the least element of its complement.  `RecursionDefines` says
that a function with the values its equations give exists, and `InStepAgree` that
two functions that take the same steps agree; with them `Only` and
`StoredAll`, which are recursive functions, and the loop of `Framing`'s `Drain` are
reasoned about for every length.

Only model-checked: liveness and ENABLED, out of the prover's reach, which are all the
properties of passing runs that no theorem states; and the bindings that `KcpServer` makes beyond what the theorems on the
fan-out say.

## 5. Where the code and its words disagree

1. **The backpressure level never falls** (`rtva/scheduler.py:113`).  The target
   starts at the current level and is only raised, so the branch the comment
   "upgrade only after depth has stayed below the level's threshold" describes
   is dead.  Run `backpressure_recovery`.
2. **`stop()` may block on the HTTP channel** (`rtva/ingest_http.py:56`).  The
   queue is full when `close()` puts its sentinel, so it waits; the consumer
   takes one frame, sees `_stop` and leaves; a POST whose frame was still being
   decoded takes the place.  Nobody reads any more and `close()`, `stop()` and
   the session manager's lock wait for ever.  Run `ingest_http_stop`.  The same
   property is false of WebSocket, and of a pull source that is stopped with its
   queue full.
3. **The reaper may stop a session that is alive** (`rtva/sessions.py:188`).
   The victims are chosen in one sweep and stopped one by one; a later victim
   that gets frames or an observer meanwhile is stopped too.  `docs/API.md:90`
   says only idle sessions are.  Run `sessions_reaper`.
4. **Two workers lose each other's tokens** (`rtva/auth.py:150`).  The file is
   read under one lock and written under another, so a writer undoes what was
   renamed between; every request writes.  The module's docstring says that
   "multi-worker servers stay consistent".  Run `access_race`.
5. **The sample of a window is not uniform** (`rtva/pipeline.py:377`).  The step
   is an integer quotient and the list is then cut, so with the defaults the
   newest third of a window is never sent.  Run `sampling`.

Noted while reading and not the subject of a run.
In the pipeline: `_escalate` emits a `narrative` where its docstring promises an
updated event; `docs/API.md` says that a filling queue raises the level, which
reads `in_flight` only; the usage of a first turn is lost when the repair turn
answers; an event merged by a later answer keeps `provisional` even if that
answer confirmed it, and may be announced as merged before it is announced as
inserted; a firing of the gate that was merged is announced under an id of its
own; `finalize_old`, `add_event` and `replace_event` have no caller; the gate's
docstring speaks of a refractory period for every fire, and the code has one for
scene cuts only.
At the channels: `frames_dropped_queue` is never incremented; one frame that
does not decode ends a WebSocket session; an observer that joins while `stop()`
closes the others, or stays when its session ends by itself, is never closed; a
cancelled emission skips the observers that remain and the KCP peer; the `since`
of event polling compares a `ts` that events do not carry (`api_v1.py:372`,
`docs/API.md:236`).
On KCP: the frames of one peer whose decodings overlap are fed in the order in which the
decodings end (`kcp_server.py:274`), and one that is overtaken is then older than the last
kept stamp, so that the rate cap drops it (`pipeline.py:253`); the hello and idle timeouts of `docs/KCP_WIRE.md:292` are constants that
nothing reads; no `bye` is sent when a session is deleted (`KCP_WIRE.md:183`); a
closed peer stays bound, and the frames behind a `close` in the same packet are
still fed (`KCP_WIRE.md:128`); the framer returns a message without a payload with
the last frame's payload; and a body that is JSON but no object raises out
of `feed()`.

## 6. Not modelled

*Motion gate*: arithmetic on images; that it fires, and how strongly, is a choice
in `Pipeline` and `Analysis`.  *Prompts and settings*: text and constants.
*Scripts, the example client, the page*: clients of the system.  *KCP itself* is a
library, and the server's `start` and listening task run once, as do
`start_reaper` and `stop_reaper`.  *The routes that only read* (listing, detail,
stats, event polling) change no state; `Access` has one action for them.
*Likeness of texts* in `should_merge` is a choice.  *The usage counters* are sums
that nothing reads back.  *The time a step takes*: PyAV demuxes on the event
loop's thread, so a source that stalls stalls the process, which a model whose
steps take no time cannot express.  *Bounds nobody promises*: windows that wait for a worker, and
pending events, grow without one in the code.

Messages on KCP are taken to be JSON objects or no JSON at all.

## 7. Plan

1. The refutations' counterparts: under which hypotheses on the environment
   (one worker, no error of the LLM) the refuted promises hold, as theorems.
2. The gate's cooldown as a module of its own, on a sequence of differences.
3. The wall-clock side of the cadencer: how late `WindowDue` may be.

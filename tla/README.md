# A verification development for *embodiment*

`embodiment` is the daemon that gives an agent ("Gwen") ears, a voice, a memory
and a presence on a mesh of peers: one Python process with many threads, an HTTP
server and a browser client.  The TLA+ modules here model the parts whose
correctness is a matter of interleavings, crashes, retries and limits, and that a
unit test hardly reaches.  Paths below are relative to the repository; every
definition that stands for code has its lines in `PROJECT.json` (`map`).

## 1. Inventory

| component | code (`src/embodiment/`) | state it keeps | what is hard | modelled |
|---|---|---|---|---|
| event bus | `bus.py` | `seq`, bounded subscriptions with drop counters, the fan-out queue, the broker client, the ledger | any thread publishes; drops; broker down and retried; `close` races all | `Bus` |
| ingest spool, drain, retention | `ingest/spool.py`, `daemon/drain.py` | `inbox/`, `processed/`, `failed/`, cursor, refusals, retention ledger | a crash between two steps, replay, transient failure with back-off | `Drain` |
| memory, continuity | `memory.py`, `continuity.py` | records in a store, the jobs that write them | a job that outlives its deadline | partly, `IngestStore`, `Drain` |
| background recall, unprompted speech | `daemon/recall_events.py` | turns, pending recalls, late answers | a late answer racing the turn that asked | mostly, `BackgroundRecall` |
| turn coordination, the ear | `daemon/app.py` | the turn in flight, supersession, the floor; the ear, its generation, its session | turns from several sources on several threads; an ear displaced while its frames are under way | partly, in six modules |
| voice | `voice.py` | speaking flags, the pace buffer | barge-in racing synthesis, playback and trace | partly, `BackgroundRecall`, `Playback` |
| host audio | `audio/host.py` | a player process, its queue, a writer thread; a recorder and its thread | a kill racing a write, a start and a close | playback half, `Playback`; capture and mute, `Ears` |
| daemon lifecycle | `daemon/lifecycle.py` | the pid file, its lock, the daemon's threads | starts, stops and deaths of several processes | partly, `PidFile` |
| mesh asks | `mesh_asks.py`, `mesh_judge.py`, `mesh_tools.py` | open asks, answers that wait for a turn | an answer judged without the lock; expiry; put-back | `MeshAsks` |
| to-do marks | `daemon/todos.py`, `library/todo_source.py` | marks in memory and on disk, events on the wire | a save that fails, lost and overtaken events | `TodoMarks` |
| typed turns, HTTP text lane, chat page | `daemon/text_turns.py`, `http/server.py`, `web/` | calls on a small pool, kept results, pending questions | time-outs of routes whose calls run on; shutdown | partly, `ChatRequests` |
| realtime client | `realtime/client.py` | a socket, a send buffer | a close during the handshake; the loop of another thread | partly, `Ears` |
| mesh client, remote ear | `mesh_client.py`, `audio/remote.py` | sockets, send buffers | reconnects, asyncio callbacks | no |
| daemon state, session, recordings, history | `daemon/state.py`, `session.py`, ... | bounded files and windows | file I/O under a lock | no |
| HTTP guard, agent loop, presence, perception, library, ingest contract, capabilities, command line | the rest | little, or data | sequential | no |

`PROJECT.json` lists all 28 components with their files and says of each what is
left out.

The bus is what the others share: the drain, the voice, the turns and the mesh
publish on it, the HTTP server subscribes each browser to it, and
`DaemonApp.pump` ticks it.  The spool is filled by a separate process and drained
by the pump.  A turn starts from a transcript, a typed question, the mesh or an
unprompted event, speaks through the voice and the endpoint, and may start recalls
in the background.  The library's keeper is told of to-do marks over the bus.
`lifecycle` starts and stops the process that all of this runs in.  Closing the
daemon stops the parts in a fixed order, the bus last.

What makes the ones that keep state correct:

- *bus*: each subscriber reads in `seq` order; every event it was offered is read,
  waiting or counted as dropped; nothing is sent after the stop, and `close` returns.
- *spool and drain*: whatever dies when, a batch is applied in order, ends in one
  directory, and what expires is archived and not forgotten.
- *turns, voice and recall*: one turn at a time; a superseded turn stops and falls
  silent; a turn that was not superseded answers; a memory is used once and counted
  once.
- *todo marks*: a mark the daemon works on is on disk; every mark is confirmed, rolled
  back or given up.
- *mesh asks*: an answer reaches one turn, once, in order; an ask is answered, failed,
  or announced expired, once.
- *typed questions*: turns do not interleave in a session; every question comes to
  something on its page; the lane counts what it runs.
- *playback*: what is said is heard once, in order, and not after it was cut; nothing
  waits for ever.
- *lifecycle*: one daemon per pid file; the file is true; a confirmed stop is one.
- *the ear*: what is heard comes from the one that is attached, in a session of its rate; a
  mute outlives a handover; a closed daemon keeps neither ear nor session.
- *memory, sessions, daemon state*: a file is the old one or the new one, never half.
- *remote ear, mesh client*: a connection that comes back misses nothing it
  promised, and repeats nothing.

## 2. Modules

| module | models |
|---|---|
| `EventQueue` | the drop policy shared by subscriptions and the fan-out (`_drop_policy`) |
| `LossyStream` | abstract: what one subscriber is promised |
| `Bus` | the bus, one action per critical section or read of `_closed` |
| `MCBus` + `MCBus_*.cfg` | its small instances |
| `IngestStore` | the ingest scope: upsert by id, collapse of equal texts, supersede, archive |
| `AtomicBatches` | abstract: what one who enqueues batches is promised |
| `Drain` | the spool, a pass of the drain, retention and the jobs of the memory, with deaths |
| `MCDrain` + `MCDrain_*.cfg` | its small instances |
| `BackgroundRecall` | a reply with its late memory, the floor, barge-in and the voice's flags |
| `MCRecall` + `MCRecall_*.cfg` | its small instances |
| `PidFile` | starts, stops and the daemon around one pid file and its lock |
| `MeshAsks` | the ask book, the worker that hears answers, the turns that read them |
| `TodoMarks` | marks, their file, their telling and re-telling, the library's answer |
| `ChatRequests` | a typed question from the page through the text lane to the conversation |
| `Ears` | the ear: attach, displace, detach, mute, its frames, and the thread of its realtime session |
| `MCDaemon` + `MCDaemon_*.cfg` | small instances of these five |
| `Playback` | a reply becomes sound: voice, endpoint, writer, player process, trace |
| `MCPlayback` + `MCPlayback.cfg` | its small instance |
| `BusProofs` | theorems about the bus and its queues, proved with TLAPS |
| `DrainProofs` | theorems about the spool, the drain, retention and their deaths |
| `RecallProofs` | theorems about background recall and speech |
| `DaemonProofs` | theorems about the pid file and the to-do marks |
| `MeshProofs`, `ChatProofs`, `EarsProofs`, `PlaybackProofs` | theorems about the asks, the questions, the ear, the playback |

`BackgroundRecall` and `Playback` compose classes that interact (recall, app and
voice; voice, endpoint and player), `Drain` composes spool, drain and memory over
`IngestStore`, `ChatRequests` the page, the server's lane and the app's turns, `Ears` the
daemon, its endpoints and its realtime clients.
`MCDaemon` is no such composition: its five parts share no state, and in a behaviour
one of them moves while the others stay as they begin.  It only lets one run ask
about all five.

### The bus

*Correspondence.*  `closed`, `seq`, `subscribers`, `ledger` are the fields of
`Bus`; `queue`, `pending`, `lifetime`, `protectedDrops`, `subClosed` those of each
`Subscription`; `brokerDisabled`, `client`, `core` and `lockHolder` what
`_broker_lock` guards; `brokerQueue` and `stop` what `_broker_cv` guards.  `pc` says
where a thread is, `hand` the event it carries between two sections, `owed` the
protected drops it has still to record.  `offered`, `got`, `told`, `lastGot`,
`sent`, `built`, `released` are history.  Action names follow the methods:
`PublishCheck`, `PublishOffer`, `PublishRecord`, `FanoutCheck`, `Enqueue` and
`Spawn` are the successive sections of `publish`; `Worker...` those of the worker;
`Tick...` of `tick`; `Close...` of `close`.

*Abstracted.*  A payload is a kind and one of three verdicts of validation
(delivered, refused before a seq is assigned, refused after).  Time is left out:
a tick may or may not find its heartbeat or its retry due, a join may or may not
time out, a send may fail.  The MQTT client is external; its constructor may
raise and holds `_broker_lock` while it runs.

*Bounds.*  `MaxCalls` publishes and `MaxRetries` retries.  `bus_delivery` publishes five
events of two kinds to one subscription of capacity 2, without a ticker: up to three are
dropped, with reads before, between and after, so that drops of several offers add up before
a read, and a queue overflows again while a gap is unread or after one was told.  One
subscription is enough for what a subscription promises; sums over several are the theorems'.
`bus_broker` publishes three events beside heartbeats into a fan-out queue of 2 and retries
once; `bus_close` leaves a backlog of two.

*Fairness.*  A thread inside a method keeps being scheduled (weak fairness per
thread), a consumer reads what waits.  Nobody has to publish, tick, subscribe or
close.  That the network call answers is no part of the specification: it is the
premise `NetworkAnswers` of `BacklogSent` alone, and `close` ends the subscriptions without it.

*Runs.*

| run | asks |
|---|---|
| `bus_delivery` | do racing publishers and a subscription that overflows several times keep order, account for every drop, record every sacrificed protected event, implement `LossyStream`? |
| `bus_broker` | are down-periods counted once, sends unique and in publisher order? |
| `bus_close` | is no event sent that `close` has reported as unsent, does every subscription end though the network hangs, and is each event of a backlog sent while the network answers? |

`SubscriptionsAreLossyStreams` is the refinement: each subscription implements
`LossyStream` (an event is offered, read in order, or lost and counted), with the
queue mapped by `INSTANCE ... WITH`.

*Proved* (`BusProofs`), for every number of threads, subscriptions, events and every
capacity, from `BusAssumption`: the types (`TypeCorrect`), `BoundedQueues`, and every safety
property of the three runs, by name `OrderedDelivery`, `GapsAccounted`,
`SacrificesRecorded`, `DownPeriodsRecordedOnce`, `PublishersStayInOrder`,
`ReportsStand`, and the refinement `StreamsAreLossy`.  The argument:

- `TypeInv` is `TypeOK` with `Held` (a thread in the middle of a method has an event in
  hand; without it the enqueue could append anything), proved action by action.
- `DeliveryInv` adds the properties of delivery and `ReadersBehind` (no reader is ahead of
  `seq`; without it a new event need not be newer than what was read).  Only four actions
  touch a queue; `QuietStep` disposes of all others, `TakeDelivery` and `GetDelivery` of
  these, from the lemmas on what the drop policy does to any queue.
- `SacrificeInv`: a publisher owes records only between its critical section and the
  records.  The property is an equation between sums over subscriptions and threads;
  that a sum over a finite set changes by what one summand does (`Total...` lemmas) is
  proved by least counterexample.
- `DownInv`: a down-period ends with a retry, and each recovery has one of its own, so
  nobody counts the same one twice.
- `SendInv`: from `sent`, over what the worker holds and what waits, to what publishers
  hold, each publisher's events are in order and none is there twice.  It is what a
  publisher that is preempted between its critical section and the broker's queue needs.
- `ReportsStand` needs it again: what `close` counts are the events that wait at that moment,
  no one of them is with the worker or was sent, a late publisher only appends others, and
  the worker takes nothing more; it is an action property over the report `close` has made.
- `StreamsAreLossy` maps each step of the bus to a step of `LossyStream` or a stutter; an
  event is lost in the mapping just when the queue was full (`DeliveryInv` again).

*Only model-checked*: liveness (out of the prover's reach).

### The spool and the drain

*Correspondence.*  A batch is its position in enqueue order, which is the order of
the file names; `inbox`, `doneDir`, `failedDir`, `purged` are the directories of
`Spool`, `ledgerFile` the retention file, `store` the ingest scope of the memory
(`IngestStore`).  `cursor`, `refused`, `ledger`, `loaded`, `backoff`, `due` are fields
of `Drain` and last from pass to pass; `pc`, `todo`, `batch`, `issue`, `expiring`, ...
are locals of one pass.  `slots` are the jobs `RoomMemory` has in flight.  A pass is
`StartPass`, then per batch `Load`, `Begin`, `SaveLedger`, the records (`Apply`,
`RunJob`, `Answered`, `Refuse`, `Deferred`), `Receipt`, `RemoveFile`, then `Retention`,
`ArchiveIssue`, `ArchiveSource`, `Archive`, `Tidy`.  `Crash` may happen between any two
steps and keeps the files and the store.  A stop that gives the drain one last
pass is a death later on, as far as the files can tell.

*Abstracted.*  A text is a value, so that two records can have the same one;
validation of a record is an input.  Clocks are left out: a budget may run out at
every check that follows some work, a deadline may pass.  A file's name is minted (`spool.py:136`)
just before the file appears; the model has one order of both.  Faults are named
(`FaultKinds`), and a cfg says which of them may happen.

*Bounds.*  Two ids, two texts, one or two dates, two or three batches taken from a
few shapes (a renewal that supersedes, a change of text, a forget, a forgotten
issue, a batch partly invalid, a file that is no batch), one death, one
fault (the theorems below bound neither).  Each shape is one the drain's tests use; three batches are enough for an
older, a current and a younger one.

*Fairness.*  The pump kicks the drain and the executor has workers (weak fairness of
the pass and of each job), the backoff and the retention interval end.  Faults and
deaths are finitely many.

| run | asks |
|---|---|
| `drain_order` | does the store change in enqueue order, end as if each batch was applied once, is the whole of it one step of `AtomicBatches`, and is the ledger on disk never short of a date? |
| `drain_live` | under a fault of any kind but an unreadable file, and a death: has every settled batch exactly one verdict, does every batch leave the inbox, and is an expired issue archived? |
| `drain_deferred` | expected violation: a job past its deadline is not withdrawn and may change the store after a younger batch |
| `drain_moved` | expected violation: the replay of a batch that hands one record's text to another leaves a record that the batch applied without a death does not |

`AppliesAtomically` is the refinement: `Drain` implements `AtomicBatches`, where batches wait in
line and the oldest is applied in one step, or set aside when its file cannot be read, and
where items whose date has expired are archived one by one.  The line is the inbox; the store
that shows is, as long as the batch begun last is in the inbox, the one it found (`Whole`, by
`INSTANCE ... WITH`).  Passes, jobs, retries, receipts, replays and deaths are steps that show
nothing; the removal of the file is the step that shows the batch.

What a property does not claim, because the code does not either: `LedgerCovers`
is checked without the faults "write", "slow" and "ledger" (a ledger that could not
be saved or read, or a job that runs late, can lose a date), and `ExpiredArchived`
has it as its premise, of the ledger on disk and of the one the drain has read (one that could
not be read counts as empty until the next start); `Converges` leaves out "list" (a pass that could not list its
inbox runs retention between two records of a batch) and batches that hand a text over;
`Receipts` leaves out "read", and `OrderKept` "read" together with "write" (`load` does not say
whether an unreadable file could be moved).

*Proved* (`DrainProofs`), for any batches, ids, texts, dates and bounds, any number of
faults and deaths, from `DrainAssumption`; a theorem names the faults it excludes:

| theorem | excludes | states |
|---|---|---|
| `DrainTypes` | nothing | `TypeOK` |
| `ReceiptsAreExact` | "read" | `Receipts` |
| `LedgerMissesNothing` | "write", "ledger", "slow" | `LedgerCovers` |
| `OlderBatchesFirst` | "slow", and "read" together with "write" | `OrderKept` |
| `ReplaysConverge` | "slow", "list", "read" together with "write"; batches that move a text | `Converges` |
| `BatchesAreAtomic` | the same | `AppliesAtomically` |

No exclusion is idle: TLC violates each promise on a small instance with each of the faults
its theorem excludes alone ("slow" for `OrderKept` is `drain_deferred`; the others are no runs).  The first four follow from one inductive invariant,
`DrainInv`, whose parts are claimed under the faults that leave them true.  Under every
fault (`TypeInv`): `PlaceInv`, what the place of the pass says of the batch in hand and
of what is still to do; `CursorInv`, a cursor is within its batch; `JobInv`, what a job
carries.  `ReceiptInv`: a batch is `refused` just when an invalid record of it has been
passed, so that the verdict at its end is the right one after any replay.  `SoleInv`: in
time, there is no job but the one that is waited for.  `TrackInv`, `DatesInv`,
`ExpireInv`: the dates of a batch are in the ledger in memory, and saved, before its
first record is submitted; a write under way is of such a batch; and a date leaves the
ledger only when the list retention works on covers what is live of the issue.  `OrderInv`:
a batch in the inbox is younger than every settled one, and a write under way is of
the batch in hand.  None of these properties is inductive without; `LedgerCovers`, say,
speaks of the store and the disk alone, and nothing in it keeps a job from writing a date
nobody noted.

`ReplaysConverge` says `Spec /\ []TextsStay => Converges`.  `TextsStay` is what the drain's
docstring leaves unsaid: the batch hands no text from one id to another (no two of its records
have one text under two ids, and a text the store has under another id is either replaced there
by an earlier record or left alone by all).  It is a premise about the data, not about the drain:
TLC finds it invariant on the instance of `drain_order`, and `drain_moved` shows what happens
without it.  The argument:

- `Clean` says in closed form what the first *c* records leave of an id: the last write, or what
  the batch found, archived if a record archived it and none wrote it later.  That a clean
  application computes this (`ReplayedIs`) is shown by a least counterexample, not by induction.
- `HandInv`: one batch at a time is being replayed.  The last one begun is the oldest batch in the
  inbox, it alone has a cursor, and no pass goes by without taking it first.
- `ConvInv`: while it is there, the store is `Near` the clean one.  An id that a record passed so
  far has written is as `Clean` has it, or as the record in hand leaves it; one that only a
  later record writes may be anything the batch can make of it, which that record will
  overwrite; one that none writes may be archived already, if the batch archives it at all.
  Of the record in hand it says which ids are settled: all but those an archiving job is still
  to be sent for, as long as none has failed.
- A death throws the cursor back to the first record, of which near asks least (`NearIs`); a
  record applied over leftovers does to each id what it does in a clean application, because
  whoever is in the way of its text now was in the way when the batch began (`ClashIs`, the one
  place where `TextsStay` is used).  After the last record, near leaves no choice (`NearEnd`).

`BatchesAreAtomic`, under the same premises, is the refinement, step by step (`DrainShows`).  It
needs two facts more: `EndInv`, a file is removed only when its batch is at its end (so that
`ConvInv` gives the step that shows), and `RetireInv`, what retention archives has expired and
is of no batch under way.  A file that can no longer be read is given up in the middle; `HalfIs`
says what is then left: of an id the batch does not write, what was there or what the whole
batch would have left.

*Only model-checked*: liveness.

### Background recall

*Correspondence.*  `BackgroundRecall` composes four classes, because what it asks is
what they do together.  Of `recall_events.BackgroundRecall`: `latest`, `inReply`,
`waiting`, `tally`, `closed`, and per turn `replying`, `spoken`, `pending`,
`classified`.  Of `Unprompted`: `speakingLock` and the steps of `offer` (`Relevant`,
`GateFloor`, `GateBusy`, `Compose`, `FloorAgain`, `Acquire`, `SayFloor`,
`SayFollowUp`, `Release`).  Of `DaemonApp`: `queued`, `inFlight`, `serial`,
`superseded`, `floorTaken`, `stopping`.  Of `Voice`: `voicing` and `interrupted`, and
per sentence how far `speak` has come (`mouth`); `audible` is what the endpoint still
has to play.  `pc` is the turn thread, `job[t]` the recall job of a turn, `late[t]` the
late path on whichever thread runs it (`lateOn`), `ear` the ears thread.  `counted`,
`used`, `uttered`, `overrun` are history.

*Abstracted.*  Time (a head start may end early, a window may have passed, a
threshold may not be met), the words of a completion (only the number of sentences
is kept), TTS and endpoint failures (the app's `speak` seam never raises), the bound
that lets the ear go on while a stop hangs.  The app injects no contradicts judge:
`Contradicts` is a constant, TRUE in `recall_reply` so that the restart is checked
too.  A transcript gives the floor back and is queued in one step.
Follow-ups are off by default (no threshold, no window); the model has them on.
The typed turns' second instance and the mesh's notices are left out.

*Bounds.*  Two turns of two and one sentences, a queue of one, one `speech_started`,
one stop: enough for a late answer of the first turn to meet the second, for a
barge-in at every point of a reply, and for a transcript refused by a full queue.

*No liveness*: every wait of the code is bounded by a clock the model leaves out.

| run | asks |
|---|---|
| `recall_reply` | is every arrival counted once, a memory spoken of once, does a superseded turn stop and fall silent, and does every other turn speak? |

*Proved*, for every number of turns, sentences and speeches, every queue size, with
and without a judge: all five properties of `recall_reply`, and the types
(`RecallTypes`, `RecallsAreCounted`, `MemoriesAreSpokenOnce`, `SupersededTurnsStop`,
`TurnsAreNotSilent`, `SupersededTurnsAreSilenced`), from `RecallAssumption` alone.
None of them is inductive.  `IInv` adds to the types `WorkerInv` (the worker has one
turn at a time, the last it accepted), `Arrival` (an arrival is with its job, waits
for the reply loop, is on the late path or was claimed, and in one of these places
only; without it an arrival could be taken twice), `LateInv` (a late path belongs to
one thread, and a follow-up sounds only on it) and `CountInv` (the counters are the
cardinalities of the sets they count).  `SpeechInv` adds that a sentence of a reply
is under way only for the turn in hand, that a reply restarts only after it has
spoken, and where the worker may be once a superseded turn has begun its last
sentence.  `EarFrame`, `VoiceFrame` and `LateFrame` say once what whole groups of
actions leave alone; what remains is one step per action.

### The pid file

*Correspondence.*  A file is the start that created it: `named` is the one the path
names, `opened` the one each start has open, `record` what each holds.  `keep[s]` says
which processes have the descriptor that start `s` locked; a child inherits it, so the
lock is held while either lives, and a daemon is `Alive` while its child has it.
`probing` is a lock taken for an instant by `_probe_locked`.  `cli` is where each
invocation of `start()` or `stop()` is, `main` and `watchdog` the two threads of each
daemon.  `Start...` are the system calls of `start`, `_spawn` and `_confirm`; `Boot`,
`Mark...`, `RunReturns`, `ShutdownReturns`, `Finalise`, `WatchFires`, `Exit...` the daemon;
`Stop...` those of `stop`, `_verify_target` and `_wait_for_release`.  `Recycle` is
the kernel, which gives a number again.  `outcome`, `ended`, `unlinked` are history.

*Abstracted.*  Clocks: a wait may time out whenever what it waits for is not so.  The
text of a record, except that a short one written over a longer one leaves its tail
(`Overwritten`).  The fallback directories, `status` and the child's environment are left
out.  A start that cannot spawn removes the path and lets the lock go in one step.  `SlowStart` is FALSE in the runs: a parent that is slower to write its record than
its child is to boot would overwrite `running` with `spawned`, which is listed below.

*Fairness* (`PidFairness`): the daemon's own threads are scheduled.  Nobody has to start
or stop, and a target need not ever return: `RunReturns` and `ShutdownReturns` have none.

### Mesh asks

*Correspondence.*  `book` is `AskBook` in memory and `kept` its file; `lastAnswer` the five
seconds in which a nick's next line continues its answer; `waiting` and `lru` are
`_mesh_answers`, `shown` is `_mesh_expired`, `turn` the turn that holds the conversation and
`listener` the mesh worker.  `OpenAsk`, `PostAsk`, `PostFails`, `TurnTakes`, `TurnEnds` are a
turn's; `HearLine`, `Judge`, `Rules`, `AnswerArrived`, `AnswerContinued`, `AgentTurn`, `Tick` the
worker's.  The judge's call is made without the lock: the candidates it was shown are
kept in `listener`, and `attach` looks again.  `Reboot` keeps the file and loses the rest.

*Abstracted.*  The judge gives any verdict; texts, labels and the rate cap are left out;
one channel.  Saving replaces a file or fails (`SavesFail`).

*Fairness* (`MeshFairness`): the worker's loop goes round and its calls return, a post
returns or fails, a turn ends.  Nobody has to ask or to answer.

### To-do marks

*Correspondence.*  `mark` is `TodoStates._states`, `file` what is on disk, `held` and `missing`
what `TodoSource` read last, `line` the library itself.  `Mark` is `set` with its roll-back,
`Tell` the publication after the lock, `ReadLines`, `Reconcile`, `Resend`, `CheckEnds` the
library worker's check.  `Flip` is the keeper, `Lost` the broker, `ForeignChange` an edit by
somebody else: external, all three.  `DaemonDies` keeps the file and what is on the wire.

*Abstracted.*  Each mark has a stamp of its own (the code compares whole seconds, `todos.py:53`);
the line a mark is compared with is read in the same step.

*Fairness* (`TodoFairness`): the worker's check goes on and markers tell (weak).  The bus
loses events but not every event for a to-do, and an item that can sometimes be read is
read some time (both strong): without the first no re-send ever helps, and the code
promises confirmation only while the keeper can be reached.

### Typed questions

*Correspondence.*  `page` and `poll` are `pendingChats.ts` and `Chat.tsx`; `post` the request
as its route sees it; `queue`, `inflight` and `job` the text lane (`_Lane`, an executor of
`TextWorkers` threads); `results`, `keptOrder` are `_chat_results`; `floor` the conversation's
lock and `log` what the session wrote.  A route that stops waiting answers 202 (or 503 for
a poll) and leaves its call to run; a call nobody has taken is cancelled at shutdown, and
its route never hears of it, because `wait()` is told of a cancellation by a worker.

A turn ends with a reply that is written, or without one; or it ends with the fixed notice
that the chosen role refused (`text_model_unavailable_text`), which the session keeps as the
assistant's record while `_chat_outcome` fails the question.  Once a completion of the turn
was refused, that notice is its final text whatever came before (`app.py:4868-4877`), so a
question that failed has a notice in its conversation and never a reply.

*Abstracted.*  What is said; the clips and the recall of a typed turn; each question has
a page of its own.  The session's writes are taken to succeed: one that raises is recorded
(`_session_call`), and the reply would be on the page alone.  The admission to the lane and
the submit that follows it are one step.

*Fairness* (`ChatFairness`): requests arrive or are lost, workers take calls, turns and
routes end, a page that waits asks again, a closed server is started again.  Nobody has
to ask, speak or close.

### The ear

*Correspondence.*  `theEar`, `earGeneration`, `muteIntent`, `leftOver`, `client`, `clientRate`,
`liveSession` are the fields of `DaemonApp`, `stopping` its two flags, `earLock` the lock, held
over a whole attach or detach.  `bound`, `capturing`, `mutedEars`, `earRate` belong to each
endpoint, `capture` to its thread, which reads a frame (`FrameRead`), compares generations
(`FrameCheck`), and hands it to whatever client there is by then (`FrameSend`).  `sess` is what
each `_EarsSession` and its client hold: `told` is `closed`, `asked` a close scheduled on its
loop, `up` the socket, `takes` whether `send_audio` accepts.  `call` says where each thread is in
`attach_ear`, `detach_ear` or `set_mute`; "detacher" is the thread of `close`'s second step, which
`close` does not wait for beyond its share.  `lateFrames`, `amiss`, `muteAcked`, `missed` are history.

*Abstracted.*  Time: a join or a bounded teardown may end early, with two exceptions the
module names.  Requests to mute or to unmute come one at a time, so that there is a last word;
`set_mute` itself does not serialise its callers.
The send buffer's bound, pings, the decoding of events, and a recorder that ends by itself
are left out.

*Fairness* (`EarsFairness`): a call that was made goes on, a frame that was read is handled, a
handshake ends (`handshake_deadline`), a close takes its next step.  Nobody has to call, no
peer has to hang up, no event has to come.

### The five of them, checked

| run | asks |
|---|---|
| `daemon_safe` | pid file: one daemon, a true file, a confirmed stop is one.  Asks: an answer is read once and in order, kept until read, never given to a failed ask.  Marks: on disk.  Questions: an exact count, replies that follow what they reply to, a page that agrees with the session.  Ears: one is heard, in a session of its rate, and a mute is kept. |
| `daemon_live` | does a daemon asked to stop end though its target hangs, is an expired ask marked as shown, and announced at most once across a restart, does every mark settle and every question come to something, and does a close leave no ear and no thread of a session? |
| `daemon_two` | expected violation: two daemons, after a start that could not spawn removed the path |

*Bounds* of `daemon_safe`: two starts, a stop and two process numbers, so that a number is
recycled; a file left by an earlier boot; two asks of which one may be open, three lines,
two conversations of which one may have answers waiting, two of them, so that each bound is hit
and an answer that is put back meets a newer one; one
to-do, two markers, three stamps and a death, enough for a mark, its opposite and a
foreign change; two questions on one worker, two calls admitted, one result kept, a spoken
turn and a restart, so that the lane is full, a result is dropped and a call cancelled; two threads, one of
which mutes and unmutes, two ears of one or two rates, so that an ear is displaced, its session dialled again, its
frames late, and a word said to one ear while the other attaches.  The asks are saved without a failure
here, and may fail to be in `daemon_live`; with the marks it is the other way about.  `TypeOK` asks for the types
of the part that moves.
`daemon_two` needs a third start.  `daemon_live` has one start, one line, one ear that may fail and a
restart of the daemon instead: what must end is bounded by a clock or a file, not by numbers.

*Proved.*  `AtMostOneDaemon` (`DaemonProofs`), for any number of starts, stops and process
numbers.  The invariant: a start has no lock before it takes it and its parent keeps it
until it has spawned (`StartPlaces`), a file's lock is had through one descriptor (`Exclusive`),
and while no start has removed the path all have opened the file it names (`OneFile`).
`OneDaemon` alone is not inductive: nothing in it says that a start about to spawn has the
lock.  The premise `~unlinked` is what `daemon_two` shows to be needed.

`TheFileIsTrue` (`DaemonProofs`): a running daemon's record names it, an exited one's says
so, and a stop that reports success is right.  `FileInv` adds to the invariant of the lock:
where a start is says whether it has a child, and a child that lives holds the lock
(`CliInv`); a number belongs to one process, and is not given away while somebody may still
look (`OwnerInv`); the watchdog and the main thread exclude each other at the exit
(`ThreadInv`); what a file says follows from where its daemon is, and is empty between a
truncation and its write (`TruthInv`); whoever a stop has read of had begun, and has ended
once the stop found the lock free (`StopInv`).  The step that needs most of it is a
signal to a number that may have been given to another process.

`MarksAreOnDisk` (`DaemonProofs`), for any to-dos and markers: inductive with the types, once it
is known that judging and pruning make no mark pending and change none that stays so
(`JudgingKeeps`), so that a reconcile whose save fails has forgotten only what the file may
keep.

`AnswersReadOnceInOrder`, `AnswersAreKept`, `FailedAsksAreNotMatched` and
`AsksOutliveTheDaemon` (`MeshProofs`), for any number of asks, lines, conversations and
restarts and any limits.  `MeshInv`: a line that waits anywhere (in the worker's hands, in
a conversation, with the turn that took it) is one the worker is through with, waits in one
place only and was not used, and what waits is in the order of first lines
(`AnswersInv`); an ask is on disk as long as it is open, and one that was announced is
shown or settled (`BookInv`).  The sequence lemmas say what appending, continuing, putting
back and cutting do to an ordered sequence.

`LaneCountsExactly` and `RepliesFollowTheirTurns` (`ChatProofs`), for any questions, workers and
bounds.  `CallsInv` says that a question has one call at most, in the queue or on a
worker; without it a call could be taken twice and counted once.  `TalkInv` adds that who
holds the conversation wrote last, that a job which did not end well has no reply but at most
a notice, and that a question the page calls failed has none under way, nor one it calls
answered a reply to come; none of the two properties is inductive without.

`OneEarIsHeard` (`EarsProofs`), for any threads, endpoints and rates.  Frames, mutes and the
close do not take the ear lock; the generation makes up for that.  `GenInv`: only the ear
there is can be bound to the generation that stands.  `QuietInv`: whatever captures, or has
a frame on its way to the client, is the ear there is, or one whose teardown is waited for,
or was given up on and has nothing on its way.  `RateInv` follows, because the
client changes rate only after the wait; `MuteInv` is what a mute that returned is owed
while an attach has still to carry it over, whichever ear it was said to.  The one handover
that breaks it is named, not assumed away: `missed` holds the ears attached while a `set_mute`
was between its look at the endpoint and its write of the intent, and the theorem says that
there is no other.

All of these are theorems of the part's own specification (`PidSpec`, `MeshSpec`, `TodoSpec`,
`ChatSpec`, `EarsSpec`), from its named assumptions.  The runs check `MCDaemon.Spec`, where one
part moves: it implies each part's specification (`EachPart`, by `DaemonProofs`), so that
what is proved of the parts holds of it (`PartsKeepTheirPromises`).

`TypesCorrect` (`DaemonProofs`): the types of all five hold of that specification, from one theorem per part
(`PidTypeCorrect`, `MeshTypeCorrect`, `TodoTypeCorrect`, `ChatTypeCorrect`, `EarsTypeCorrect`).
Two of the types say more than a range.  The order of the results kept names exactly the
questions that have a result, and never more than the bound: inductive once it is known
that a question is there once (`KeptInv`), so that the one pushed out is not the one just
kept.  The eviction order of the mesh names exactly the conversations with answers waiting
(`OrderInv`): a conversation is taken out and put last when an answer comes, and leaves with
its answers.

*Only model-checked*: all liveness.

### Playback

*Correspondence.*  `said`, `talk`, `interrupted` are the speaking thread and `Voice._interrupted`;
`paceBuffer`, `traced`, `untraced`, `pacer`, `paceStop` the trace; `player`, `chunks`, `pending`,
`generation`, `isPlaying` the fields under `_counter_lock`; `writer` the writer threads (a
second one may start before the first has gone), `writerStop` their flag; `alive`, `unreaped`,
`doom` the player processes and who is about to kill them.  `BargeIn` and `Ear...` are
`on_speech_started`; `Close...` and `Voice...` the two closings.  `heard` and `pushedTo` are history.

*Abstracted.*  A sentence is one slice; what is heard is what the player was given;
the choice of devices is left out; cool-downs end at any time.  `play` has a second caller,
the warm-up of an ear that attaches (`app.py:3841`), which is left out.

*Bounds*: two sentences, two mishaps (barge-ins, the closing, faults of a player), a buffer of
two: both sentences wait together, or the second meets a dying player, a kill in progress, a
cut that is not its own and a second writer.

*Fairness* (`PlaybackFairness`): each thread that has something to do goes on.  Nobody has
to speak, barge in or close, and a player need not ever be reaped.  One step has no fairness:
the writer's `write` and `flush` to the player's pipe (`host.py:2105-2106`) block without a
time-out while a living player leaves its pipe full, and so does `stdin.close()` before a
barge-in's or a closing's kill (`host.py:1657-1658`), which waits for that write (`ShutAndKill`).
That a player reads is a premise, `PlayerReads`, and of the endpoint's queue alone: that the
trace is emptied does not need it.  Without it `QueuesDrain` would be false.

| run | asks |
|---|---|
| `playback` | is what was said heard once, in order and only through its own player, is nothing cleared but by a cut of its own player, is a kill never taken for a lost device, is every sentence traced or counted, and does no queue wait for ever? |

*Proved* (`PlaybackProofs`), for any number of sentences, barge-ins and players and any
buffer: `CutsLeaveNoTrace` and `SentencesAreTraced`.  Between a writer's look and its commit
the lock is free, and anybody may cut; but a cut ends the generation, so a slice in a
writer's hands is of the generation that stands, and then of the player that stands, or of
one that is over, and then its failure is ignored (`WritersInv`).  What was heard, what the
writer holds and what waits are in order (`OrderInv`), and what was queued for a player that
nobody cut is among them (`KeptInv`), until `close` forgets the writer's
thread and a second one may start.  `TraceInv`: the pace buffer holds a sentence once, so that
dropping it counts exactly what it held.

*Only model-checked*: `QueuesDrain`, a liveness property.

## 3. Claims that do not hold

Three are findings, with a run that shows them.

- *Order is the contract* (`src/embodiment/daemon/drain.py:40-41`): a job that outlived its
  deadline (`memory.py:2182`) is retried and not withdrawn; it may write after a younger
  batch forgot the record.  Run `drain_deferred`.
- *A second start cannot win* (`lifecycle.py:28`): a start that cannot spawn unlinks the path
  (`lifecycle.py:1368`) whose file another start has already opened; a third start creates
  and locks a new one.  Run `daemon_two`.
- *A replay converges* (`drain.py:30-32`, `tests/test_daemon_drain.py:319`): where a batch hands
  one record's text to another, its replay writes a record that the uninterrupted batch
  left out as a duplicate (`memory.py:2325`).  Run `drain_moved`; `Converges` is checked on,
  and proved for, batches without such a hand-over.

Six were met while modelling, and no run is spent on them; the properties that hold are
stated so as to leave them out.

- *A closed bus builds no client* (`bus.py:186-187`): `_closed` is read before `_broker_lock` is
  taken (`bus.py:1386`), so a worker or a tick that passed the read builds one afterwards.
- *A follow-up never talks over anybody* (`daemon/app.py:4640-4642`, `recall_events.py:57`): a
  `speech_started` while the transcript is between the queue and `_run_heard` supersedes
  nothing (`app.py:4646`, `app.py:8715`), and the follow-up on that turn's thread speaks.
- *A mark outlives an older line* (`docs/specs/2026-10-25-gwen-reads-library-todos.md:32`): a
  mark made after the lines were read is judged against them (`app.py:6267`), and the
  opposite mark may be settled by the older line until the next check.
- *A muted daemon sends zero frames* (`docs/specs/2026-09-21-realtime-embodiment-app.md:67`): an ear
  attached while the operator's word is "mute" captures (`app.py:3757`) before it is muted
  (`app.py:3766`), and what it reads in between goes out.  `OneEarHeard` asks once the attach is over.
- *The operator's last word travels with the ear* (`daemon/app.py:3784`): `set_mute` takes the
  endpoint (`app.py:4157`) and writes the intent afterwards, without the ear lock.  An ear that is
  attached in between carries the old intent, the mute goes to the ear before it, and the new
  one stays hot until the next word.  `OneEarHeard` names such ears (`missed`) and excepts them.
- *It closes its own client* (`daemon/app.py:8486`), and *safe to call at any point*
  (`realtime/client.py:505`): a session told to close during its handshake closes a client that
  has no socket; `connect` then opens one, and since `closed` is set, `_shut_ears_down` returns at
  once.  After a redial it is served until the peer hangs up, after a stop it is left open.
  `EarsClose` asks of the session's thread, not of the socket, and of the last session.

## 4. Not modelled

Every safety property that a passing run checks is a theorem, `Converges` for batches that
move no text.  Liveness under fairness stays with TLC.  The library's induction theorems take
an operator as a parameter, which the provers cannot instantiate; where an induction is needed
(the sums of the bus, the least batch of the drain, the records of a replay) the proofs take a
least counterexample instead.  `BackgroundRecall` has no liveness: every wait of that code is
bounded by a clock, which the model leaves out.

Hazards that are real and that no property covers, beyond those with a note in
`PROJECT.json`:

- `bus.py:1024`, `bus.py:1143`: `publish` and `subscribe` that pass the closed check late; the
  first is harmless, the second leaves a subscription that nobody closes.
- `daemon/drain.py:554`: a pass of retention returns at the first issue that cannot be archived;
  one that never can keeps those after it waiting.
- `daemon/drain.py:476`: an unreadable ledger counts as empty, and the next save overwrites it.
- `recall_events.py:507`, `recall_events.py:526`: a second `Unprompted` instance with a lock of
  its own, and relevance asked before the follow-up is composed.
- `lifecycle.py:1417`: a slow parent overwrites its child's record; `SlowStart` enables it.
- `audio/host.py:1510`: `close` stops the player before it sets `_closed`; a play in between
  starts one that nothing stops.
- `daemon/app.py:4983`: a poll that overtakes its own call, still queued, is answered that
  there is no such question.
- `audio/host.py:2105`, `audio/host.py:1658`: a living player that stops reading blocks the writer, and
  then a barge-in and the close, for as long.
- `daemon/app.py:6559`: asks that expired while the daemon was down are marked as shown
  and not announced.
- `daemon/todos.py:205`: a settled mark whose save failed is back after a restart, and is judged and re-sent again.
- `audio/host.py:2020`, `audio/host.py:1252`: a writer that was told to stop is revived by the
  next start; players that could not be reaped stay in a list.

Components without a model:

- the mesh client and the remote ear: sockets with reconnects.  They are what a next module
  would be about, the mesh client first, whose lines `MeshAsks` takes as inputs.
- the send buffer of the realtime client, and its decoding.
- the sessions and the other lanes of `daemon/app.py`, which has 10,000 lines; six modules
  have its turns, its pump, its mesh worker, its to-do check, its chat results and its ear.
- daemon state, recordings, history, library and reading: file I/O and data.
- the agent loop, presence engine, perception, ingest contract, guard, capabilities and the
  command line: sequential, and covered by unit tests.

## 5. What could come next

1. An abstract lock (one holder, a record of the last) that `PidFile` implements while no start
   removes the path.
2. The mesh client, then the realtime client's send buffer.

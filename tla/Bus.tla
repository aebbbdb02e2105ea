-------------------------------- MODULE Bus --------------------------------
(***************************************************************************)
(* embodiment.bus: the daemon's internal event substrate.                  *)
(*                                                                         *)
(* Any thread may publish; one critical section (_lock) numbers an event   *)
(* and offers it to every Subscription, each of which a consumer thread    *)
(* drains.  Outside that section the publisher appends the event to a      *)
(* bounded fan-out queue, drained by one lazily started worker that talks  *)
(* to the MQTT broker.  The daemon's pump thread ticks (heartbeat, broker  *)
(* retry) and a shutdown thread closes the bus, both racing all the rest.  *)
(*                                                                         *)
(* Grain: one action is one critical section, or one read of the _closed   *)
(* event.  Critical sections of _broker_lock that call out (building a     *)
(* client) are two actions, and lockHolder says who is inside.             *)
(***************************************************************************)
EXTENDS EventQueue, FiniteSets

CONSTANTS
  Publishers,       \* threads that call publish
  Tickers,          \* threads that call tick (DaemonApp.pump)
  Closers,          \* the thread, if any, that calls close (DaemonApp.close)
  Worker,           \* the "embodiment-bus-broker" thread
  Subs,             \* Subscription objects a consumer may open
  Kinds,            \* event kinds that occur
  LocalOnly,        \* LOCAL_ONLY_KINDS
  Heartbeat,        \* the kind tick publishes
  SubKinds,         \* [Subs -> SUBSET Kinds]: what each subscription asked for
  Publishes,        \* [Publishers -> SUBSET Kinds]: what each of them publishes
  Verdicts,         \* what validation may say of a published payload
  SubCapacity,      \* a subscription's maxsize
  BrokerCapacity,   \* broker_queue_size
  Installed,        \* can events_cli be imported
  NoClient, NoOne, NoEvent,
  MaxCalls,         \* bound: publish calls
  MaxRetries        \* bound: broker retries

Threads == Publishers \cup Tickers \cup Closers \cup {Worker}

\* "ok": delivered.  "invalid": refused before a seq is assigned (unknown
\* kind, missing field).  "screened": refused after one is (not JSON, a
\* secret, oversize).
AllVerdicts == {"ok", "invalid", "screened"}

ASSUME BusAssumption ==
  /\ SubCapacity \in Nat \ {0} /\ BrokerCapacity \in Nat \ {0}
  /\ MaxCalls \in Nat /\ MaxRetries \in Nat
  /\ Installed \in BOOLEAN
  /\ Heartbeat \in Kinds \ (DropFirst \cup LocalOnly)
  /\ IsFiniteSet(Threads) /\ IsFiniteSet(Subs) /\ SubKinds \in [Subs -> SUBSET Kinds]
  /\ Publishes \in [Publishers -> SUBSET (Kinds \ {Heartbeat})]
  /\ Verdicts \subseteq AllVerdicts
  /\ Publishers \cap Tickers = {} /\ (Publishers \cup Tickers) \cap Closers = {}
  /\ Worker \notin Publishers \cup Tickers \cup Closers
  /\ \A c, d \in Closers : c = d
  /\ NoOne \notin Threads /\ NoClient \notin Nat

VARIABLES
  pc,               \* [Threads -> where the thread is]
  arg,              \* [Threads -> the kind and verdict of the publish it enters]
  hand,             \* [Threads -> the event it holds outside every lock]
  owed,             \* [Threads -> protected drops it has yet to record]
  closed,           \* Bus._closed
  seq,              \* Bus._seq
  subscribers,      \* Bus._subscribers
  ledger,           \* Bus.degradation_counts
  queue, pending, lifetime, protectedDrops, subClosed,   \* Subscription
  consumer,         \* [Subs -> what the thread that owns the subscription does]
  brokerDisabled, client, core, lockHolder,              \* under _broker_lock
  brokerQueue, brokerDropped, stop,                      \* under _broker_cv
  report,           \* what close() has computed so far
  offered, got, told, lastGot, sent, built, released, calls, retries  \* history

threadVars  == <<pc, arg, hand, owed>>
coreVars    == <<closed, seq, subscribers, ledger>>
subVars     == <<queue, pending, lifetime, protectedDrops, subClosed, consumer,
                 offered, got, told, lastGot>>
brokerVars  == <<brokerDisabled, client, core, lockHolder>>
fanoutVars  == <<brokerQueue, brokerDropped, stop>>
clientVars  == <<built, released>>
boundVars   == <<calls, retries>>
vars == <<threadVars, coreVars, subVars, brokerVars, fanoutVars, report, sent,
          clientVars, boundVars>>

Codes == {"publish-after-close", "schema-invalid", "screened", "protected-drop",
          "broker-unavailable", "broker-recovered"}

Events == [seq : Nat, kind : Kinds, by : Threads]
Args   == [kind : Kinds, verdict : AllVerdicts]

Record(code, n) == ledger' = [ledger EXCEPT ![code] = @ + n]
Goto(t, where)  == pc' = [pc EXCEPT ![t] = where]
LockFree        == lockHolder = NoOne

Init ==
  /\ pc = [t \in Threads |-> IF t = Worker THEN "unstarted" ELSE "idle"]
  /\ arg = [t \in Threads |-> NoEvent]
  /\ hand = [t \in Threads |-> NoEvent]
  /\ owed = [t \in Threads |-> 0]
  /\ closed = FALSE /\ seq = 0 /\ subscribers = {}
  /\ ledger = [c \in Codes |-> 0]
  /\ queue = [s \in Subs |-> <<>>]
  /\ pending = [s \in Subs |-> 0] /\ lifetime = [s \in Subs |-> 0]
  /\ protectedDrops = [s \in Subs |-> 0]
  /\ subClosed = [s \in Subs |-> FALSE]
  /\ consumer = [s \in Subs |-> "absent"]
  /\ offered = [s \in Subs |-> 0] /\ got = [s \in Subs |-> 0]
  /\ told = [s \in Subs |-> 0] /\ lastGot = [s \in Subs |-> 0]
  /\ brokerDisabled = FALSE /\ client = NoClient /\ core = FALSE
  /\ lockHolder = NoOne
  /\ brokerQueue = <<>> /\ brokerDropped = 0 /\ stop = FALSE
  /\ report = [taken |-> {}, joined |-> FALSE, unsent |-> <<>>, client |-> NoClient]
  /\ sent = <<>> /\ built = 0 /\ released = {}
  /\ calls = 0 /\ retries = 0

-----------------------------------------------------------------------------
(* publish *)

\* A caller enters publish with a payload of some kind.
PublishCall(t, k, v) ==
  /\ t \in Publishers /\ pc[t] = "idle" /\ calls < MaxCalls
  /\ arg' = [arg EXCEPT ![t] = [kind |-> k, verdict |-> v]]
  /\ calls' = calls + 1
  /\ Goto(t, "publish")
  /\ UNCHANGED <<hand, owed, coreVars, subVars, brokerVars, fanoutVars,
                 report, sent, clientVars, retries>>

\* publish returns None; its locals are gone.
Refuse(t) == Goto(t, "idle") /\ arg' = [arg EXCEPT ![t] = NoEvent]

\* _closed is read first; then the payload is validated.
PublishCheck(t) ==
  /\ pc[t] = "publish"
  /\ \/ closed /\ Record("publish-after-close", 1) /\ Refuse(t)
     \/ ~closed /\ arg[t].verdict = "invalid"
        /\ Record("schema-invalid", 1) /\ Refuse(t)
     \/ ~closed /\ arg[t].verdict # "invalid"
        /\ Goto(t, "offer") /\ UNCHANGED <<arg, ledger>>
  /\ UNCHANGED <<hand, owed, closed, seq, subscribers, subVars,
                 brokerVars, fanoutVars, report, sent, clientVars, boundVars>>

Takers(e) == {s \in subscribers : e.kind \in SubKinds[s] /\ ~subClosed[s]}

\* Drops that nobody has been told of yet are forgotten at the next one.
BadOffer(e) ==
  LET takers == Takers(e)
      drops(s) == Cardinality(Shed(queue[s], SubCapacity, e))
      grew(s)  == IF ShedProtected(queue[s], SubCapacity, e) THEN 1 ELSE 0
      Plus(f, g(_)) == [s \in Subs |-> IF s \in takers THEN f[s] + g(s) ELSE f[s]]
  IN /\ queue' = [s \in Subs |-> IF s \in takers
                    THEN Offered(queue[s], SubCapacity, e) ELSE queue[s]]
     /\ pending' = [s \in Subs |-> IF s \in takers /\ drops(s) > 0 THEN drops(s) ELSE pending[s]]
     /\ lifetime' = Plus(lifetime, drops) /\ protectedDrops' = Plus(protectedDrops, grew)
     /\ offered' = [s \in Subs |-> IF s \in takers THEN offered[s] + 1 ELSE offered[s]]
     /\ UNCHANGED <<subClosed, consumer, got, told, lastGot>>

\* Subscription._offer at every live subscription, in one section with seq.
Offer(e) ==
  LET takers == Takers(e)
      drops(s) == Cardinality(Shed(queue[s], SubCapacity, e))
      grew(s)  == IF ShedProtected(queue[s], SubCapacity, e) THEN 1 ELSE 0
  IN /\ queue' = [s \in Subs |-> IF s \in takers
                    THEN Offered(queue[s], SubCapacity, e) ELSE queue[s]]
     /\ pending' = [s \in Subs |-> IF s \in takers
                    THEN pending[s] + drops(s) ELSE pending[s]]
     /\ lifetime' = [s \in Subs |-> IF s \in takers
                    THEN lifetime[s] + drops(s) ELSE lifetime[s]]
     /\ protectedDrops' = [s \in Subs |-> IF s \in takers
                    THEN protectedDrops[s] + grew(s) ELSE protectedDrops[s]]
     /\ offered' = [s \in Subs |-> IF s \in takers
                    THEN offered[s] + 1 ELSE offered[s]]
     /\ UNCHANGED <<subClosed, consumer, got, told, lastGot>>

\* Any event shed counts as a sacrifice.
BadSacrificing(e) == {s \in Takers(e) : ~HasRoom(queue[s], SubCapacity)}

\* The subscriptions that had to sacrifice a protected event for e.
Sacrificing(e) == {s \in Takers(e) : ShedProtected(queue[s], SubCapacity, e)}

\* The critical section under _lock, and the refusal of a screened payload.
PublishOffer(t) ==
  LET e == [seq |-> seq + 1, kind |-> arg[t].kind, by |-> t]
      protected == Cardinality(Sacrificing(e))
  IN /\ pc[t] = "offer"
     /\ seq' = seq + 1
     /\ \/ /\ arg[t].verdict = "screened"
           /\ Record("screened", 1) /\ Refuse(t)
           /\ UNCHANGED <<hand, owed, subVars>>
        \/ /\ arg[t].verdict = "ok"
           /\ Offer(e)
           /\ hand' = [hand EXCEPT ![t] = e]
           /\ arg' = [arg EXCEPT ![t] = NoEvent]
           /\ owed' = [owed EXCEPT ![t] = protected]
           /\ Goto(t, IF protected > 0 THEN "record" ELSE "fanout")
           /\ UNCHANGED ledger
     /\ UNCHANGED <<closed, subscribers, brokerVars, fanoutVars,
                    report, sent, clientVars, boundVars>>

\* After the lock is released: one protected-drop record per sacrifice.
PublishRecord(t) ==
  /\ pc[t] = "record"
  /\ Record("protected-drop", owed[t])
  /\ owed' = [owed EXCEPT ![t] = 0]
  /\ Goto(t, "fanout")
  /\ UNCHANGED <<arg, hand, closed, seq, subscribers, subVars, brokerVars,
                 fanoutVars, report, sent, clientVars, boundVars>>

\* publish returns its Event to the caller.
Return(t) == Goto(t, "idle") /\ hand' = [hand EXCEPT ![t] = NoEvent]

\* _enqueue_broker, up to reading _broker_disabled under _broker_lock.
FanoutCheck(t) ==
  /\ pc[t] = "fanout"
  /\ \/ hand[t].kind \in LocalOnly /\ Return(t)
     \/ hand[t].kind \notin LocalOnly /\ LockFree /\ brokerDisabled /\ Return(t)
     \/ hand[t].kind \notin LocalOnly /\ LockFree /\ ~brokerDisabled
        /\ Goto(t, "enqueue") /\ UNCHANGED hand
  /\ UNCHANGED <<arg, owed, coreVars, subVars, brokerVars, fanoutVars,
                 report, sent, clientVars, boundVars>>

\* _enqueue_broker's section under _broker_cv: the same drop policy.
Enqueue(t) ==
  /\ pc[t] = "enqueue"
  /\ brokerQueue' = Offered(brokerQueue, BrokerCapacity, hand[t])
  /\ brokerDropped' = brokerDropped
                        + Cardinality(Shed(brokerQueue, BrokerCapacity, hand[t]))
  /\ \/ Accepts(brokerQueue, BrokerCapacity, hand[t]) /\ Goto(t, "spawn")
        /\ UNCHANGED hand
     \/ ~Accepts(brokerQueue, BrokerCapacity, hand[t]) /\ Return(t)
  /\ UNCHANGED <<arg, owed, coreVars, subVars, brokerVars, stop,
                 report, sent, clientVars, boundVars>>

\* _ensure_broker_thread: one worker, started once, never after the stop.
Spawn(t) ==
  /\ pc[t] = "spawn"
  /\ pc' = [pc EXCEPT ![t] = "idle",
              ![Worker] = IF @ = "unstarted" /\ ~stop THEN "wait" ELSE @]
  /\ hand' = [hand EXCEPT ![t] = NoEvent]
  /\ UNCHANGED <<arg, owed, coreVars, subVars, brokerVars, fanoutVars,
                 report, sent, clientVars, boundVars>>

Publish(t) ==
  \/ PublishCheck(t) \/ PublishOffer(t) \/ PublishRecord(t)
  \/ FanoutCheck(t) \/ Enqueue(t) \/ Spawn(t)

-----------------------------------------------------------------------------
(* Subscriptions and their consumers *)

Subscribe(s) ==
  /\ consumer[s] = "absent"
  /\ consumer' = [consumer EXCEPT ![s] = "open"]
  /\ subscribers' = subscribers \cup {s}
  /\ UNCHANGED <<threadVars, closed, seq, ledger, queue, pending, lifetime,
                 protectedDrops, subClosed, offered, got, told, lastGot,
                 brokerVars, fanoutVars, report, sent, clientVars, boundVars>>

\* The newest event first.
BadGet(s) ==
  /\ consumer[s] = "open" /\ queue[s] # <<>>
  /\ queue' = [queue EXCEPT ![s] = Front(@)]
  /\ pending' = [pending EXCEPT ![s] = 0]
  /\ got' = [got EXCEPT ![s] = @ + 1]
  /\ told' = [told EXCEPT ![s] = @ + pending[s]]
  /\ lastGot' = [lastGot EXCEPT ![s] = Last(queue[s]).seq]
  /\ UNCHANGED <<threadVars, coreVars, lifetime, protectedDrops, subClosed,
                 consumer, offered, brokerVars, fanoutVars, report, sent,
                 clientVars, boundVars>>

\* Subscription.get with an event waiting: the pending drops ride on its gap.
Get(s) ==
  /\ consumer[s] = "open" /\ queue[s] # <<>>
  /\ queue' = [queue EXCEPT ![s] = Tail(@)]
  /\ pending' = [pending EXCEPT ![s] = 0]
  /\ got' = [got EXCEPT ![s] = @ + 1]
  /\ told' = [told EXCEPT ![s] = @ + pending[s]]
  /\ lastGot' = [lastGot EXCEPT ![s] = Head(queue[s]).seq]
  /\ UNCHANGED <<threadVars, coreVars, lifetime, protectedDrops, subClosed,
                 consumer, offered, brokerVars, fanoutVars, report, sent,
                 clientVars, boundVars>>

\* Bus.unsubscribe: out of the list, then closed.
Unsubscribe(s) ==
  /\ consumer' = [consumer EXCEPT ![s] = "gone"]
  /\ subscribers' = subscribers \ {s}
  /\ subClosed' = [subClosed EXCEPT ![s] = TRUE]
  /\ UNCHANGED <<threadVars, closed, seq, ledger, queue, pending, lifetime,
                 protectedDrops, offered, got, told, lastGot, brokerVars,
                 fanoutVars, report, sent, clientVars, boundVars>>

\* get returns None, closed and drained: the consumer is done.
EndOfStream(s) ==
  consumer[s] = "open" /\ subClosed[s] /\ queue[s] = <<>> /\ Unsubscribe(s)

\* The client went away; nothing says it read everything first.
Disconnect(s) == consumer[s] = "open" /\ ~subClosed[s] /\ Unsubscribe(s)

-----------------------------------------------------------------------------
(* The broker: what the worker and the ticker share *)

\* A caller of _ensure_broker_core / _ensure_broker_client that got nothing:
\* the worker forgets the event it popped, the ticker moves on to its beat.
GiveUp(t) ==
  /\ Goto(t, IF t = Worker THEN "wait" ELSE "beat")
  /\ hand' = [hand EXCEPT ![t] = NoEvent]

\* _degrade_broker_locked: one record per down-period.
Disable ==
  \/ brokerDisabled /\ UNCHANGED <<brokerDisabled, ledger>>
  \/ ~brokerDisabled /\ brokerDisabled' = TRUE /\ Record("broker-unavailable", 1)

\* The read of _closed that opens both _ensure methods, before _broker_lock.
EnsureCheck(t) ==
  /\ \/ pc[t] \in {"coreCheck", "clientCheck"} /\ closed /\ GiveUp(t)
     \/ pc[t] = "coreCheck" /\ ~closed /\ Goto(t, "core") /\ UNCHANGED hand
     \/ pc[t] = "clientCheck" /\ ~closed /\ Goto(t, "client") /\ UNCHANGED hand
  /\ UNCHANGED <<arg, owed, coreVars, subVars, brokerVars, fanoutVars,
                 report, sent, clientVars, boundVars>>

\* _ensure_broker_core under _broker_lock: import events_cli, or disable.
EnsureCore(t) ==
  /\ pc[t] = "core" /\ LockFree
  /\ \/ core /\ Goto(t, "clientCheck") /\ UNCHANGED <<hand, core, brokerDisabled, ledger>>
     \/ ~core /\ brokerDisabled /\ GiveUp(t) /\ UNCHANGED <<core, brokerDisabled, ledger>>
     \/ ~core /\ ~brokerDisabled /\ Installed
        /\ core' = TRUE /\ Goto(t, "clientCheck")
        /\ UNCHANGED <<hand, brokerDisabled, ledger>>
     \/ ~core /\ ~brokerDisabled /\ ~Installed
        /\ Disable /\ GiveUp(t) /\ UNCHANGED core
  /\ UNCHANGED <<arg, owed, closed, seq, subscribers, subVars, client,
                 lockHolder, fanoutVars, report, sent, clientVars, boundVars>>

\* _ensure_broker_client under _broker_lock: reuse, refuse, or start to build.
EnsureClient(t) ==
  /\ pc[t] = "client" /\ LockFree
  /\ \/ /\ client # NoClient
        /\ Goto(t, "ready")
        /\ UNCHANGED <<hand, lockHolder>>
     \/ /\ client = NoClient /\ brokerDisabled
        /\ GiveUp(t) /\ UNCHANGED lockHolder
     \/ /\ client = NoClient /\ ~brokerDisabled
        /\ lockHolder' = t /\ Goto(t, "build") /\ UNCHANGED hand
  /\ UNCHANGED <<arg, owed, coreVars, subVars, brokerDisabled, client, core,
                 fanoutVars, report, sent, clientVars, boundVars>>

\* The event that was waiting for the client is forgotten when the client is there.
BadBuildClient(t) ==
  /\ pc[t] = "build" /\ lockHolder = t
  /\ lockHolder' = NoOne /\ GiveUp(t)
  /\ \/ built' = built + 1 /\ client' = built + 1 /\ UNCHANGED <<brokerDisabled, ledger>>
     \/ Disable /\ UNCHANGED <<built, client>>
  /\ UNCHANGED <<arg, owed, closed, seq, subscribers, subVars, core, fanoutVars,
                 report, sent, released, boundVars>>

\* The client constructor returns, or raises; _broker_lock is held until then.
BuildClient(t) ==
  /\ pc[t] = "build" /\ lockHolder = t
  /\ lockHolder' = NoOne
  /\ \/ /\ built' = built + 1 /\ client' = built + 1
        /\ Goto(t, "ready") /\ UNCHANGED <<hand, brokerDisabled, ledger>>
     \/ /\ Disable /\ GiveUp(t) /\ UNCHANGED <<built, client>>
  /\ UNCHANGED <<arg, owed, closed, seq, subscribers, subVars, core, fanoutVars,
                 report, sent, released, boundVars>>

Ensure(t) == EnsureCheck(t) \/ EnsureCore(t) \/ EnsureClient(t) \/ BuildClient(t)

-----------------------------------------------------------------------------
(* The worker *)

\* The stop is looked at before the queue, every iteration.
WorkerExit ==
  /\ pc[Worker] = "wait" /\ stop
  /\ Goto(Worker, "exited")
  /\ UNCHANGED <<arg, hand, owed, coreVars, subVars, brokerVars,
                 fanoutVars, report, sent, clientVars, boundVars>>

\* The stop is looked at only when the queue is empty.
BadWorkerPop ==
  /\ pc[Worker] = "wait" /\ brokerQueue # <<>>
  /\ hand' = [hand EXCEPT ![Worker] = Head(brokerQueue)]
  /\ brokerQueue' = Tail(brokerQueue)
  /\ Goto(Worker, "sync")
  /\ UNCHANGED <<arg, owed, coreVars, subVars, brokerVars, brokerDropped,
                 stop, report, sent, clientVars, boundVars>>

\* The newest event is sent first.
BadWorkerPopNewest ==
  /\ pc[Worker] = "wait" /\ ~stop /\ brokerQueue # <<>>
  /\ hand' = [hand EXCEPT ![Worker] = Last(brokerQueue)]
  /\ brokerQueue' = Front(brokerQueue)
  /\ Goto(Worker, "sync")
  /\ UNCHANGED <<arg, owed, coreVars, subVars, brokerVars, brokerDropped,
                 stop, report, sent, clientVars, boundVars>>

WorkerPop ==
  /\ pc[Worker] = "wait" /\ ~stop /\ brokerQueue # <<>>
  /\ hand' = [hand EXCEPT ![Worker] = Head(brokerQueue)]
  /\ brokerQueue' = Tail(brokerQueue)
  /\ Goto(Worker, "sync")
  /\ UNCHANGED <<arg, owed, coreVars, subVars, brokerVars, brokerDropped,
                 stop, report, sent, clientVars, boundVars>>

\* _publish_broker_sync: _closed first, then _broker_disabled.
WorkerCheck ==
  /\ \/ pc[Worker] = "sync" /\ closed /\ GiveUp(Worker)
     \/ pc[Worker] = "sync" /\ ~closed /\ Goto(Worker, "enabled") /\ UNCHANGED hand
     \/ pc[Worker] = "enabled" /\ LockFree /\ brokerDisabled /\ GiveUp(Worker)
     \/ pc[Worker] = "enabled" /\ LockFree /\ ~brokerDisabled
        /\ Goto(Worker, "coreCheck") /\ UNCHANGED hand
  /\ UNCHANGED <<arg, owed, coreVars, subVars, brokerVars, fanoutVars,
                 report, sent, clientVars, boundVars>>

\* The envelope class is read once more; a retry may have cleared it.
WorkerEnvelope ==
  /\ pc[Worker] = "ready" /\ LockFree
  /\ \/ core /\ Goto(Worker, "send") /\ UNCHANGED hand
     \/ ~core /\ GiveUp(Worker)
  /\ UNCHANGED <<arg, owed, coreVars, subVars, brokerVars, fanoutVars,
                 report, sent, clientVars, boundVars>>

\* The network call: outside every lock, and it may fail.
WorkerSend ==
  /\ pc[Worker] = "send"
  /\ \/ /\ sent' = Append(sent, hand[Worker])
        /\ GiveUp(Worker)
     \/ Goto(Worker, "failed") /\ UNCHANGED <<sent, hand>>
  /\ UNCHANGED <<arg, owed, coreVars, subVars, brokerVars, fanoutVars,
                 report, clientVars, boundVars>>

\* _degrade_broker after a failed send.
WorkerFailed ==
  /\ pc[Worker] = "failed" /\ LockFree
  /\ Disable /\ GiveUp(Worker)
  /\ UNCHANGED <<arg, owed, closed, seq, subscribers, subVars, client,
                 core, lockHolder, fanoutVars, report, sent, clientVars, boundVars>>

WorkerStep ==
  \/ WorkerExit \/ WorkerPop \/ WorkerCheck \/ Ensure(Worker)
  \/ WorkerEnvelope \/ WorkerSend \/ WorkerFailed

-----------------------------------------------------------------------------
(* tick *)

\* A closed bus neither beats nor retries.
TickCall(t) ==
  /\ t \in Tickers /\ pc[t] = "idle" /\ ~closed
  /\ Goto(t, "retry")
  /\ UNCHANGED <<arg, hand, owed, coreVars, subVars, brokerVars,
                 fanoutVars, report, sent, clientVars, boundVars>>

\* The broker stays marked as disabled while it is being retried.
BadTickRetry(t) ==
  /\ pc[t] = "retry" /\ LockFree
  /\ \/ Goto(t, "beat") /\ UNCHANGED <<brokerDisabled, client, core, retries>>
     \/ /\ brokerDisabled /\ retries < MaxRetries
        /\ client' = NoClient /\ core' = FALSE /\ UNCHANGED brokerDisabled
        /\ retries' = retries + 1
        /\ Goto(t, "coreCheck")
  /\ UNCHANGED <<arg, hand, owed, coreVars, subVars, lockHolder,
                 fanoutVars, report, sent, clientVars, calls>>

\* _maybe_retry_broker: forget the old client and try again, when due.
TickRetry(t) ==
  /\ pc[t] = "retry" /\ LockFree
  /\ \/ Goto(t, "beat") /\ UNCHANGED <<brokerDisabled, client, core, retries>>
     \/ /\ brokerDisabled /\ retries < MaxRetries
        /\ brokerDisabled' = FALSE /\ client' = NoClient /\ core' = FALSE
        /\ retries' = retries + 1
        /\ Goto(t, "coreCheck")
  /\ UNCHANGED <<arg, hand, owed, coreVars, subVars, lockHolder,
                 fanoutVars, report, sent, clientVars, calls>>

TickRecovered(t) ==
  /\ t \in Tickers /\ pc[t] = "ready"
  /\ Record("broker-recovered", 1) /\ Goto(t, "beat")
  /\ UNCHANGED <<arg, hand, owed, closed, seq, subscribers, subVars,
                 brokerVars, fanoutVars, report, sent, clientVars, boundVars>>

\* The heartbeat, when one is due.
TickBeat(t) ==
  /\ pc[t] = "beat"
  /\ \/ Goto(t, "idle") /\ UNCHANGED <<arg, calls>>
     \/ /\ calls < MaxCalls /\ calls' = calls + 1
        /\ arg' = [arg EXCEPT ![t] = [kind |-> Heartbeat, verdict |-> "ok"]]
        /\ Goto(t, "publish")
  /\ UNCHANGED <<hand, owed, coreVars, subVars, brokerVars, fanoutVars,
                 report, sent, clientVars, retries>>

Tick(t) ==
  TickRetry(t) \/ Ensure(t) \/ TickRecovered(t) \/ TickBeat(t) \/ Publish(t)

-----------------------------------------------------------------------------
(* close *)

CloseStep(c, from, to) == pc[c] = from /\ Goto(c, to)

CloseCall(c) ==
  /\ CloseStep(c, "idle", "take") /\ closed' = TRUE
  /\ UNCHANGED <<arg, hand, owed, seq, subscribers, ledger, subVars,
                 brokerVars, fanoutVars, report, sent, clientVars, boundVars>>

CloseTake(c) ==
  /\ CloseStep(c, "take", "end")
  /\ report' = [report EXCEPT !.taken = subscribers] /\ subscribers' = {}
  /\ UNCHANGED <<arg, hand, owed, closed, seq, ledger, subVars,
                 brokerVars, fanoutVars, sent, clientVars, boundVars>>

\* The subscriptions leave the list but are not closed.
BadCloseSubs(c) ==
  /\ CloseStep(c, "end", "stop")
  /\ UNCHANGED <<arg, hand, owed, coreVars, subVars, brokerVars, fanoutVars,
                 report, sent, clientVars, boundVars>>

CloseSubs(c) ==
  /\ CloseStep(c, "end", "stop")
  /\ subClosed' = [s \in Subs |-> subClosed[s] \/ s \in report.taken]
  /\ UNCHANGED <<arg, hand, owed, coreVars, queue, pending, lifetime,
                 protectedDrops, consumer, offered, got, told, lastGot,
                 brokerVars, fanoutVars, report, sent, clientVars, boundVars>>

CloseStop(c) ==
  /\ CloseStep(c, "stop", "join") /\ stop' = TRUE
  /\ UNCHANGED <<arg, hand, owed, coreVars, subVars, brokerVars,
                 brokerQueue, brokerDropped, report, sent, clientVars, boundVars>>

\* join(timeout): the worker is gone, or the deadline passed first.
CloseJoin(c) ==
  /\ CloseStep(c, "join", "count")
  /\ report' = [report EXCEPT !.joined = pc[Worker] \in {"unstarted", "exited"}]
  /\ UNCHANGED <<arg, hand, owed, coreVars, subVars, brokerVars,
                 fanoutVars, sent, clientVars, boundVars>>

\* What is reported of the backlog is its length.
CloseCount(c) ==
  /\ CloseStep(c, "count", "client")
  /\ report' = [report EXCEPT !.unsent = brokerQueue]
  /\ UNCHANGED <<arg, hand, owed, coreVars, subVars, brokerVars,
                 fanoutVars, sent, clientVars, boundVars>>

CloseClient(c) ==
  /\ CloseStep(c, "client", "release") /\ LockFree
  /\ report' = [report EXCEPT !.client = client] /\ client' = NoClient
  /\ UNCHANGED <<arg, hand, owed, coreVars, subVars, brokerDisabled, core,
                 lockHolder, fanoutVars, sent, clientVars, boundVars>>

CloseRelease(c) ==
  /\ CloseStep(c, "release", "returned")
  /\ released' = released \cup ({report.client} \ {NoClient})
  /\ UNCHANGED <<arg, hand, owed, coreVars, subVars, brokerVars,
                 fanoutVars, report, sent, built, boundVars>>

Close(c) ==
  \/ CloseTake(c) \/ CloseSubs(c) \/ CloseStop(c) \/ CloseJoin(c)
  \/ CloseCount(c) \/ CloseClient(c) \/ CloseRelease(c)

-----------------------------------------------------------------------------
Consume(s) == Get(s) \/ EndOfStream(s)

Next ==
  \/ \E t \in Publishers : \/ \E k \in Publishes[t], v \in Verdicts : PublishCall(t, k, v)
                            \/ Publish(t)
  \/ \E s \in Subs : Subscribe(s) \/ Consume(s) \/ Disconnect(s)
  \/ WorkerStep
  \/ \E t \in Tickers : TickCall(t) \/ Tick(t)
  \/ \E c \in Closers : CloseCall(c) \/ Close(c)

Spec == Init /\ [][Next]_vars

(* Fairness: a thread that is inside a method keeps being scheduled, and a *)
(* consumer that has something to read reads it.  Nobody is obliged to     *)
(* publish, tick, subscribe or close.  The network call is the only step   *)
(* outside the process: it has a fairness condition of its own.            *)
WorkerLocal ==
  \/ WorkerExit \/ WorkerPop \/ WorkerCheck \/ Ensure(Worker)
  \/ WorkerEnvelope \/ WorkerFailed

Fairness ==
  /\ \A t \in Publishers : WF_vars(Publish(t))
  /\ \A s \in Subs : WF_vars(Consume(s))
  /\ WF_vars(WorkerLocal)
  /\ \A t \in Tickers : WF_vars(Tick(t))
  /\ \A c \in Closers : WF_vars(Close(c))

FairSpec == Spec /\ Fairness
NetworkAnswers == WF_vars(WorkerSend)

-----------------------------------------------------------------------------
(* Properties *)

Places ==
  {"unstarted", "idle", "publish", "offer", "record", "fanout", "enqueue",
   "spawn", "wait", "exited", "sync", "enabled", "coreCheck", "core",
   "clientCheck", "client", "build", "ready", "send", "failed", "retry", "beat",
   "take", "end", "stop", "join", "count", "release", "returned"}

ClientIds == 1 .. built

ThreadTypes ==
  /\ pc \in [Threads -> Places] /\ arg \in [Threads -> Args \cup {NoEvent}]
  /\ hand \in [Threads -> Events \cup {NoEvent}] /\ owed \in [Threads -> Nat]

CoreTypes ==
  /\ closed \in BOOLEAN /\ seq \in Nat
  /\ subscribers \in SUBSET Subs /\ ledger \in [Codes -> Nat]

SubTypes ==
  /\ queue \in [Subs -> Seq(Events)]
  /\ pending \in [Subs -> Nat] /\ lifetime \in [Subs -> Nat]
  /\ protectedDrops \in [Subs -> Nat] /\ subClosed \in [Subs -> BOOLEAN]
  /\ consumer \in [Subs -> {"absent", "open", "gone"}]
  /\ offered \in [Subs -> Nat] /\ got \in [Subs -> Nat]
  /\ told \in [Subs -> Nat] /\ lastGot \in [Subs -> Nat]

BrokerTypes ==
  /\ brokerDisabled \in BOOLEAN /\ core \in BOOLEAN
  /\ client \in ClientIds \cup {NoClient}
  /\ lockHolder \in Tickers \cup {Worker, NoOne}
  /\ built \in Nat /\ released \in SUBSET ClientIds
  /\ report \in [taken : SUBSET Subs, joined : BOOLEAN, unsent : Seq(Events),
                 client : ClientIds \cup {NoClient}]

FanoutTypes ==
  /\ brokerQueue \in Seq(Events) /\ sent \in Seq(Events)
  /\ brokerDropped \in Nat /\ stop \in BOOLEAN
  /\ calls \in Nat /\ retries \in Nat

\* Every variable holds a value of its type.
TypeOK == ThreadTypes /\ CoreTypes /\ SubTypes /\ BrokerTypes /\ FanoutTypes

\* A thread inside publish, and a busy worker, holds what it is working on.
Publishing == {"record", "fanout", "enqueue", "spawn"}
Sending    == {"sync", "enabled", "coreCheck", "core", "clientCheck", "client",
               "build", "ready", "send", "failed"}
Held ==
  /\ \A t \in Threads : pc[t] \in {"publish", "offer"} => arg[t] \in Args
  /\ \A t \in Threads \ {Worker} : pc[t] \in Publishing => hand[t] \in Events
  /\ pc[Worker] \in Sending => hand[Worker] \in Events

\* No queue outgrows its maxsize, whatever is published and however slowly it
\* is drained (Subscription, "Never grows unbounded"; broker_queue_size).
QueuesBounded ==
  /\ \A s \in Subs : Len(queue[s]) <= SubCapacity
  /\ Len(brokerQueue) <= BrokerCapacity

\* A subscriber never sees an event out of seq order, though publishers race:
\* what waits is ordered, newer than what was read, and already numbered.
DeliveryInOrder ==
  \A s \in Subs :
    /\ Increasing(queue[s])
    /\ \A i \in 1 .. Len(queue[s]) : queue[s][i].seq \in (lastGot[s] + 1) .. seq

\* Every event offered to a subscription was read, waits, or was counted as a
\* drop, and every drop was told to the reader or is pending on its next event.
GapAccounting ==
  \A s \in Subs :
    /\ offered[s] = got[s] + Len(queue[s]) + lifetime[s]
    /\ lifetime[s] = told[s] + pending[s]

\* A protected event is never shed silently: the ledger holds one record per
\* sacrifice of any subscription, but for those a publisher is about to write.
ProtectedDropsRecorded ==
  MapThenSumSet(LAMBDA s : protectedDrops[s], Subs)
    = ledger["protected-drop"] + MapThenSumSet(LAMBDA t : owed[t], Threads)

\* Each down-period of the broker is recorded once, however many events fail in
\* it and whichever of worker and ticker notices; a recovery follows a retry.
DownPeriodsCounted ==
  /\ ledger["broker-unavailable"] = retries + (IF brokerDisabled THEN 1 ELSE 0)
  /\ ledger["broker-recovered"] <= retries

\* The broker gets no event twice, and one publisher's events in the order it
\* published them.
SentOncePerPublisherInOrder ==
  \A i, j \in 1 .. Len(sent) :
    i < j /\ sent[i].by = sent[j].by => sent[i].seq < sent[j].seq

\* What close() reports holds for good, however late a publisher appends or how long
\* the worker is stuck in a send: no event counted as unsent is ever in a send or sent,
\* and a worker reported as stopped sends nothing more.
ReportKept ==
  /\ \A i \in DOMAIN report.unsent :
       /\ \A j \in DOMAIN sent' : report.unsent[i] # sent'[j]
       /\ pc'[Worker] \in Sending => report.unsent[i] # hand'[Worker]
  /\ report.joined => sent' = sent

ReportStands == [][ReportKept]_vars

\* Each subscription implements the lossy ordered stream.
Stream(s) == INSTANCE LossyStream WITH
  Capacity <- SubCapacity, newest <- seq,
  waiting <- {queue[s][i].seq : i \in 1 .. Len(queue[s])},
  last <- lastGot[s], offered <- offered[s], got <- got[s],
  untold <- pending[s], told <- told[s], ended <- subClosed[s]

SubscriptionsAreLossyStreams ==
  /\ \A s \in Subs : Stream(s)!Init
  /\ [][\A s \in Subs : [Stream(s)!Next]_(Stream(s)!vars)]_vars

\* While the network answers, every event of a backlog is sent -- unless the queue
\* overflows meanwhile, the broker is found unreachable, or the bus is closed.
Queued(n) == \E i \in DOMAIN brokerQueue : brokerQueue[i].seq = n
Sent(n)   == \E i \in DOMAIN sent : sent[i].seq = n

BacklogSent ==
  NetworkAnswers => \A n \in 1 .. MaxCalls, d \in 0 .. MaxCalls :
    (Queued(n) /\ brokerDropped = d) ~> (Sent(n) \/ brokerDropped # d \/ brokerDisabled \/ closed)

\* A subscription close() took reaches its end: its consumer is let go.
CloseEndsSubscriptions ==
  \A s \in Subs : s \in report.taken ~> consumer[s] = "gone"
=============================================================================

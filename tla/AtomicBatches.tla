--------------------------- MODULE AtomicBatches ---------------------------
(***************************************************************************)
(* What the drain promises whoever enqueues batches: they are applied one  *)
(* at a time, in the order of arrival, each once and whole, or are set     *)
(* aside; besides, the store loses what has expired, item by item.  No     *)
(* passes, jobs, retries, faults or deaths are part of the promise.        *)
(***************************************************************************)
EXTENDS IngestStore

CONSTANT Shapes     \* the batches that may arrive

VARIABLES
  arrived,          \* every batch, in order
  waiting,          \* the positions of those not yet applied or set aside
  unread,           \* the batch whose file cannot be read now, or 0
  store,            \* what has been applied
  expired           \* the dates that have expired

vars == <<arrived, waiting, unread, store, expired>>

\* A file that is one.
IsBatch(b) == arrived[b].kind # "malformed"

\* The oldest batch that waits; files that are no batch may go in any order.
Oldest(b) == b \in waiting /\ IsBatch(b) /\ \A o \in waiting : IsBatch(o) => b <= o

\* An id the batch does not write is as it was, or as the batch leaves it; one it writes may be
\* as any of its records has written it, live or archived.
HalfApplied(t, s, recs, b) ==
  \A i \in Ids :
    \/ t[i] \in {s[i], Replayed(s, recs, b)[i]}
    \/ \E n \in DOMAIN recs :
         /\ recs[n].op = "ingest" /\ recs[n].id = i
         /\ \E e \in {s[i], Upserted(s, recs[n], b)[i]} :
              t[i] = e \/ (e # Absent /\ t[i] = [e EXCEPT !.life = "archived"])

Init ==
  /\ arrived = <<>> /\ waiting = {} /\ unread = 0 /\ expired = {}
  /\ store = [i \in Ids |-> Absent]

Arrive(s) ==
  /\ arrived' = Append(arrived, s)
  /\ waiting' = waiting \cup {Len(arrived) + 1}
  /\ UNCHANGED <<unread, store, expired>>

\* The file of the oldest batch cannot be read, or can be read again.
Lose(b) ==
  /\ unread = 0 /\ Oldest(b) /\ unread' = b
  /\ UNCHANGED <<arrived, waiting, store, expired>>
Find ==
  /\ unread' = 0
  /\ UNCHANGED <<arrived, waiting, store, expired>>

\* The oldest batch is applied, whole.
Apply(b) ==
  /\ Oldest(b) /\ b # unread
  /\ store' = Replayed(store, arrived[b].records, b)
  /\ waiting' = waiting \ {b}
  /\ UNCHANGED <<arrived, unread, expired>>

\* What is no batch is set aside, and does nothing.
Discard(b) ==
  /\ b \in waiting /\ ~IsBatch(b)
  /\ waiting' = waiting \ {b}
  /\ UNCHANGED <<arrived, unread, store, expired>>

\* A batch that cannot be read is set aside, perhaps half applied.
GiveUp(b) ==
  /\ b = unread /\ Oldest(b) /\ unread' = 0
  /\ HalfApplied(store', store, arrived[b].records, b)
  /\ waiting' = waiting \ {b}
  /\ UNCHANGED <<arrived, expired>>

Expire(d) ==
  /\ expired' = expired \cup {d}
  /\ UNCHANGED <<arrived, waiting, unread, store>>

\* An item whose date has expired is archived.
Retire(i) ==
  /\ i \in Live(store) /\ store[i].date \in expired
  /\ store' = Archived(store, {i})
  /\ UNCHANGED <<arrived, waiting, unread, expired>>

Next ==
  \/ \E s \in Shapes : Arrive(s)
  \/ \E b \in waiting : Lose(b) \/ Apply(b) \/ Discard(b) \/ GiveUp(b)
  \/ Find
  \/ \E d \in Dates : Expire(d)
  \/ \E i \in Ids : Retire(i)

Spec == Init /\ [][Next]_vars
=============================================================================

----------------------------- MODULE EventQueue -----------------------------
(***************************************************************************)
(* The one bounded-queue eviction policy of embodiment.bus, shared by      *)
(* every Subscription and by the broker fan-out queue (_drop_policy).      *)
(*                                                                         *)
(* An event is a record with at least a "kind".  The queue at capacity     *)
(* sheds exactly one event, seen as one position of the queue with the     *)
(* incoming event at its end: the incoming event when it is of a           *)
(* drop-first kind, otherwise the oldest queued drop-first event,          *)
(* otherwise the oldest event of all - which is then a protected one.      *)
(***************************************************************************)
EXTENDS Integers, Sequences, SequencesExt

CONSTANT DropFirst      \* _DROP_FIRST_KINDS: {"features", "stream"}

\* Definitions named Bad... are not the code: each is a bug the properties catch.

BadHasRoom(q, maxsize) == Len(q) <= maxsize

HasRoom(q, maxsize) == Len(q) < maxsize

\* The positions of the queued events that may be sacrificed first.
Droppable(q) == {i \in 1 .. Len(q) : q[i].kind \in DropFirst}

\* Where, in the queue with the incoming event appended, the shed event is.
Victim(q, e) ==
  CASE e.kind \in DropFirst                             -> Len(q) + 1
    [] e.kind \notin DropFirst /\ Droppable(q) # {}     -> Min(Droppable(q))
    [] e.kind \notin DropFirst /\ Droppable(q) = {}     -> 1

\* The queue after the policy and the caller's append.
Offered(q, maxsize, e) ==
  IF HasRoom(q, maxsize) THEN Append(q, e)
                         ELSE RemoveAt(Append(q, e), Victim(q, e))

\* What one offer dropped: nothing, or one event.
Shed(q, maxsize, e) ==
  IF HasRoom(q, maxsize) THEN {} ELSE {Append(q, e)[Victim(q, e)]}

\* The last resort: the shed event was not of a drop-first kind.
ShedProtected(q, maxsize, e) ==
  \E x \in Shed(q, maxsize, e) : x.kind \notin DropFirst

\* The events of a queue in the order their seq gives them.
Increasing(q) == \A i, j \in 1 .. Len(q) : i < j => q[i].seq < q[j].seq

\* The caller appends the incoming event only when the policy accepts it.
Accepts(q, maxsize, e) == HasRoom(q, maxsize) \/ e.kind \notin DropFirst
=============================================================================

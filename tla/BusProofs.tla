------------------------------ MODULE BusProofs ------------------------------
(***************************************************************************)
(* Proofs about the bus, for any number of racing publishers, any          *)
(* subscriptions and capacities and any mix of kinds: types, bounded       *)
(* queues, events in seq order, no event lost without being counted, no    *)
(* protected event shed without a record, one record per down-period of    *)
(* the broker, each publisher's events sent in order, nothing sent after   *)
(* the stop, and every subscription a lossy stream.                        *)
(*                                                                         *)
(* TypeInv is the types and Held, which says what a thread in the middle   *)
(* of a method has in hand; without it, types are not preserved. The other *)
(* invariants build on it: DeliveryInv (no reader is ahead of the          *)
(* counter), SacrificeInv (only a publisher about to record owes records), *)
(* DownInv (a recovery has a retry of its own), SendInv (what the worker   *)
(* and the publishers hold takes its place between what was sent and what  *)
(* waits).                                                                 *)
(***************************************************************************)
EXTENDS Bus, SequenceTheorems, FiniteSetTheorems, TLAPS

(***************************************************************************)
(* What the shared drop policy does to any queue.                          *)
(***************************************************************************)
\* A non-empty set of natural numbers has a least element, and Min is it.
LEMMA MinOfNats ==
  ASSUME NEW S \in SUBSET Nat, S # {}
  PROVE  Min(S) \in S /\ \A y \in S : Min(S) <= y
<1>1. \E x \in S : \A y \in S : ~ (<<y, x>> \in OpToRel(<, Nat))
  BY NatLessThanWellFounded, WFMin
<1>2. \A x, y \in Nat : x < y => <<x, y>> \in OpToRel(<, Nat)
  BY Zenon DEF OpToRel
<1>3. PICK x \in S : \A y \in S : ~ (y < x)
  BY <1>1, <1>2
<1>4. \A y \in S : x <= y
  BY <1>3
<1>. QED
  BY <1>4 DEF Min

\* Removing one element: the length, and what is left where.
LEMMA RemoveAtProps ==
  ASSUME NEW E, NEW q \in Seq(E), NEW n \in 1 .. Len(q)
  PROVE  /\ RemoveAt(q, n) \in Seq(E)
         /\ Len(RemoveAt(q, n)) = Len(q) - 1
         /\ \A i \in 1 .. Len(q) - 1 :
              RemoveAt(q, n)[i] = IF i < n THEN q[i] ELSE q[i + 1]
<1>. DEFINE a == SubSeq(q, 1, n - 1)
            b == SubSeq(q, n + 1, Len(q))
<1>1. /\ a \in Seq(E) /\ Len(a) = n - 1
      /\ \A i \in 1 .. n - 1 : a[i] = q[i]
  BY SubSeqProperties
<1>2. /\ b \in Seq(E) /\ Len(b) = Len(q) - n
      /\ \A i \in 1 .. Len(q) - n : b[i] = q[n + i]
  BY SubSeqProperties
<1>3. /\ a \o b \in Seq(E) /\ Len(a \o b) = Len(a) + Len(b)
      /\ \A i \in 1 .. Len(a) + Len(b) :
           (a \o b)[i] = IF i <= Len(a) THEN a[i] ELSE b[i - Len(a)]
  BY <1>1, <1>2, ConcatProperties
<1>4. RemoveAt(q, n) = a \o b
  BY DEF RemoveAt
<1>. HIDE DEF a, b
<1>0. Len(q) \in Nat /\ n \in Nat
  BY LenProperties
<1>5. Len(a \o b) = Len(q) - 1
  BY <1>0, <1>1, <1>2, <1>3
<1>6. ASSUME NEW i \in 1 .. Len(q) - 1
      PROVE  (a \o b)[i] = IF i < n THEN q[i] ELSE q[i + 1]
  <2>1. CASE i < n
    BY <1>0, <1>1, <1>2, <1>3, <2>1
  <2>2. CASE ~ (i < n)
    <3>1. i - (n - 1) \in 1 .. Len(q) - n
      BY <1>0, <2>2
    <3>2. b[i - (n - 1)] = q[n + (i - (n - 1))]
      BY <1>2, <3>1
    <3>. QED
      BY <1>0, <1>1, <1>2, <1>3, <2>2, <3>2
  <2>. QED
    BY <2>1, <2>2
<1>. QED
  BY <1>3, <1>4, <1>5, <1>6

\* The shed event is one of the queue or the incoming one.
LEMMA VictimInRange ==
  ASSUME NEW E, NEW q \in Seq(E), NEW e \in E
  PROVE  Victim(q, e) \in 1 .. Len(q) + 1
<1>0. Len(q) \in Nat
  BY LenProperties
<1>1. CASE e.kind \in DropFirst
  BY <1>0, <1>1 DEF Victim
<1>2. CASE e.kind \notin DropFirst /\ Droppable(q) = {}
  BY <1>0, <1>2 DEF Victim
<1>3. CASE e.kind \notin DropFirst /\ Droppable(q) # {}
  <2>1. Droppable(q) \in SUBSET Nat /\ Droppable(q) \subseteq 1 .. Len(q)
    BY <1>0 DEF Droppable
  <2>2. Min(Droppable(q)) \in 1 .. Len(q)
    BY <1>3, <2>1, MinOfNats
  <2>3. Victim(q, e) = Min(Droppable(q))
    BY <1>3 DEF Victim
  <2>. QED
    BY <1>0, <2>2, <2>3
<1>. QED
  BY <1>1, <1>2, <1>3

\* One offer: the queue stays within its bound, and nothing but the shed event
\* is missing.
LEMMA OfferedProps ==
  ASSUME NEW E, NEW q \in Seq(E), NEW e \in E, NEW maxsize \in Nat
  PROVE  /\ Offered(q, maxsize, e) \in Seq(E)
         /\ Len(q) <= maxsize => Len(Offered(q, maxsize, e)) <= maxsize
         /\ Cardinality(Shed(q, maxsize, e)) \in Nat
         /\ Len(Offered(q, maxsize, e)) + Cardinality(Shed(q, maxsize, e)) = Len(q) + 1
<1>0. Len(q) \in Nat
  BY LenProperties
<1>1. /\ Append(q, e) \in Seq(E) /\ Len(Append(q, e)) = Len(q) + 1
  BY AppendProperties
<1>2. CASE HasRoom(q, maxsize)
  <2>1. Offered(q, maxsize, e) = Append(q, e) /\ Shed(q, maxsize, e) = {}
    BY <1>2 DEF Offered, Shed
  <2>2. Cardinality(Shed(q, maxsize, e)) = 0
    BY <2>1, FS_EmptySet
  <2>. QED
    BY <1>0, <1>1, <1>2, <2>1, <2>2 DEF HasRoom
<1>3. CASE ~HasRoom(q, maxsize)
  <2>. DEFINE n == Victim(q, e)
  <2>1. n \in 1 .. Len(Append(q, e))
    BY <1>1, VictimInRange
  <2>2. /\ Offered(q, maxsize, e) = RemoveAt(Append(q, e), n)
        /\ Shed(q, maxsize, e) = {Append(q, e)[n]}
    BY <1>3 DEF Offered, Shed
  <2>. HIDE DEF n
  <2>3. /\ RemoveAt(Append(q, e), n) \in Seq(E)
        /\ Len(RemoveAt(Append(q, e), n)) = Len(Append(q, e)) - 1
    BY <1>1, <2>1, RemoveAtProps
  <2>4. Cardinality(Shed(q, maxsize, e)) = 1
    BY <2>2, FS_Singleton
  <2>5. Len(Offered(q, maxsize, e)) = Len(q)
    BY <1>0, <1>1, <2>2, <2>3
  <2>6. Offered(q, maxsize, e) \in Seq(E)
    BY <2>2, <2>3
  <2>. QED
    BY <1>0, <2>4, <2>5, <2>6
<1>. QED
  BY <1>2, <1>3

\* What the offered queue holds was in the old queue, or is the incoming event.
LEMMA OfferedMembers ==
  ASSUME NEW E, NEW q \in Seq(E), NEW e \in E, NEW maxsize \in Nat,
         NEW i \in 1 .. Len(Offered(q, maxsize, e))
  PROVE  \/ Offered(q, maxsize, e)[i] = e
         \/ \E m \in 1 .. Len(q) : Offered(q, maxsize, e)[i] = q[m]
<1>. DEFINE p == Append(q, e)
<1>0. Len(q) \in Nat
  BY LenProperties
<1>1. /\ p \in Seq(E) /\ Len(p) = Len(q) + 1
      /\ \A m \in 1 .. Len(q) : p[m] = q[m]
      /\ p[Len(q) + 1] = e
  BY AppendProperties
<1>. HIDE DEF p
<1>2. ASSUME NEW m \in 1 .. Len(p)
      PROVE  p[m] = e \/ \E k \in 1 .. Len(q) : p[m] = q[k]
  <2>1. m = Len(q) + 1 \/ m \in 1 .. Len(q)
    BY <1>0, <1>1
  <2>. QED
    BY <1>1, <2>1
<1>3. CASE HasRoom(q, maxsize)
  <2>1. Offered(q, maxsize, e) = p
    BY <1>3 DEF Offered, p
  <2>. QED
    BY <1>2, <2>1
<1>4. CASE ~HasRoom(q, maxsize)
  <2>. DEFINE n == Victim(q, e)
  <2>1. Offered(q, maxsize, e) = RemoveAt(p, n)
    BY <1>4 DEF Offered, p
  <2>2. n \in 1 .. Len(p)
    BY <1>1, VictimInRange
  <2>. HIDE DEF n
  <2>3. /\ Len(RemoveAt(p, n)) = Len(p) - 1
        /\ \A k \in 1 .. Len(p) - 1 :
             RemoveAt(p, n)[k] = IF k < n THEN p[k] ELSE p[k + 1]
    BY <1>1, <2>2, RemoveAtProps
  <2>4. i \in 1 .. Len(p) - 1 /\ i \in 1 .. Len(p) /\ i + 1 \in 1 .. Len(p)
    BY <1>0, <1>1, <2>1, <2>3
  <2>5. Offered(q, maxsize, e)[i] \in {p[i], p[i + 1]}
    BY <2>1, <2>3, <2>4
  <2>. QED
    BY <1>2, <2>4, <2>5
<1>. QED
  BY <1>3, <1>4

\* Taking one event out leaves the others in order.
LEMMA RemoveIncreasing ==
  ASSUME NEW E, NEW p \in Seq(E), Increasing(p), NEW n \in 1 .. Len(p)
  PROVE  Increasing(RemoveAt(p, n))
<1>. DEFINE r == RemoveAt(p, n)
<1>0. Len(p) \in Nat
  BY LenProperties
<1>1. /\ Len(r) = Len(p) - 1
      /\ \A i \in 1 .. Len(p) - 1 : r[i] = IF i < n THEN p[i] ELSE p[i + 1]
  BY RemoveAtProps
<1>. HIDE DEF r
<1>2. ASSUME NEW i \in 1 .. Len(r), NEW j \in 1 .. Len(r), i < j
      PROVE  r[i].seq < r[j].seq
  <2>. DEFINE k(m) == IF m < n THEN m ELSE m + 1
  <2>1. /\ k(i) \in 1 .. Len(p) /\ k(j) \in 1 .. Len(p) /\ k(i) < k(j)
    BY <1>0, <1>1, <1>2
  <2>2. r[i] = p[k(i)] /\ r[j] = p[k(j)]
    BY <1>0, <1>1
  <2>3. p[k(i)].seq < p[k(j)].seq
    BY <2>1 DEF Increasing
  <2>. QED
    BY <2>2, <2>3
<1>. QED
  BY <1>2 DEF Increasing, r

\* A newer event at the end leaves the queue in order.
LEMMA AppendIncreasing ==
  ASSUME NEW E, NEW q \in Seq(E), NEW e \in E, Increasing(q),
         \A i \in 1 .. Len(q) : q[i].seq < e.seq
  PROVE  Increasing(Append(q, e))
<1>. DEFINE p == Append(q, e)
<1>0. Len(q) \in Nat
  BY LenProperties
<1>1. /\ Len(p) = Len(q) + 1
      /\ \A i \in 1 .. Len(q) : p[i] = q[i]
      /\ p[Len(q) + 1] = e
  BY AppendProperties
<1>. HIDE DEF p
<1>2. ASSUME NEW i \in 1 .. Len(p), NEW j \in 1 .. Len(p), i < j
      PROVE  p[i].seq < p[j].seq
  <2>1. i \in 1 .. Len(q) /\ (j = Len(q) + 1 \/ j \in 1 .. Len(q))
    BY <1>0, <1>1, <1>2
  <2>. QED
    BY <1>1, <1>2, <2>1 DEF Increasing
<1>. QED
  BY <1>2 DEF Increasing, p

\* Offering the newest event keeps a queue in seq order.
LEMMA OfferedIncreasing ==
  ASSUME NEW E, NEW q \in Seq(E), NEW e \in E, NEW maxsize \in Nat, Increasing(q),
         \A i \in 1 .. Len(q) : q[i].seq < e.seq
  PROVE  Increasing(Offered(q, maxsize, e))
<1>1. /\ Append(q, e) \in Seq(E) /\ Len(Append(q, e)) = Len(q) + 1
      /\ Increasing(Append(q, e))
  BY AppendProperties, AppendIncreasing
<1>2. Victim(q, e) \in 1 .. Len(Append(q, e))
  BY <1>1, VictimInRange
<1>3. Increasing(RemoveAt(Append(q, e), Victim(q, e)))
  BY <1>1, <1>2, RemoveIncreasing
<1>. QED
  BY <1>1, <1>3 DEF Offered

(***************************************************************************)
(* Types.                                                                  *)
(***************************************************************************)
\* Types and what threads hold, first by itself: half of the inductive invariant.
TypeInv == TypeOK /\ Held

LEMMA InitType == Init => TypeInv
<1>. SUFFICES ASSUME Init PROVE TypeInv
  OBVIOUS
<1>. USE BusAssumption DEF Init
<1>1. Worker \in Threads
  BY DEF Threads
<1>2. pc \in [Threads -> Places]
  BY DEF Places
<1>3. ledger \in [Codes -> Nat]
  OBVIOUS
<1>4. queue \in [Subs -> Seq(Events)] /\ brokerQueue \in Seq(Events) /\ sent \in Seq(Events)
  OBVIOUS
<1>5. report \in [taken : SUBSET Subs, joined : BOOLEAN, unsent : Seq(Events),
                  client : ClientIds \cup {NoClient}]
  OBVIOUS
<1>6. TypeOK
  BY <1>2, <1>3, <1>4, <1>5
     DEF TypeOK, ThreadTypes, CoreTypes, SubTypes, BrokerTypes, FanoutTypes
<1>7. Held
  BY <1>1 DEF Held, Publishing, Sending
<1>. QED
  BY <1>6, <1>7 DEF TypeInv

\* Who is who.
LEMMA Actors ==
  /\ Worker \in Threads
  /\ \A t \in Publishers \cup Tickers \cup Closers : t \in Threads /\ t # Worker
BY BusAssumption DEF Threads

LEMMA PublishCallType ==
  ASSUME TypeInv, NEW t \in Publishers, NEW k \in Publishes[t], NEW v \in Verdicts,
         PublishCall(t, k, v)
  PROVE  TypeInv'
<1>. USE Actors, BusAssumption DEF AllVerdicts, TypeInv, TypeOK, PublishCall, threadVars, coreVars, subVars,
         brokerVars, fanoutVars, clientVars, boundVars
<1>1. ThreadTypes'
  BY DEF ThreadTypes, Goto, Places, Args
<1>2. CoreTypes'
  BY DEF CoreTypes
<1>3. SubTypes'
  BY DEF SubTypes
<1>4. BrokerTypes'
  BY DEF BrokerTypes, ClientIds
<1>5. FanoutTypes'
  BY DEF FanoutTypes
<1>6. Held'
  BY DEF Held, ThreadTypes, Publishing, Sending, Goto, Args
<1>. QED
  BY <1>1, <1>2, <1>3, <1>4, <1>5, <1>6

LEMMA PublishCheckType ==
  ASSUME TypeInv, NEW t \in Publishers \cup Tickers, PublishCheck(t)
  PROVE  TypeInv'
<1>. USE Actors DEF TypeInv, TypeOK, PublishCheck, threadVars, coreVars, subVars,
         brokerVars, fanoutVars, clientVars, boundVars
<1>1. ThreadTypes'
  BY DEF ThreadTypes, Goto, Places, Refuse
<1>2. CoreTypes'
  BY DEF CoreTypes, Record, Codes
<1>3. SubTypes'
  BY DEF SubTypes
<1>4. BrokerTypes'
  BY DEF BrokerTypes, ClientIds
<1>5. FanoutTypes'
  BY DEF FanoutTypes
<1>6. Held'
  BY DEF Held, ThreadTypes, Publishing, Sending, Goto, Refuse
<1>. QED
  BY <1>1, <1>2, <1>3, <1>4, <1>5, <1>6

LEMMA PublishRecordType ==
  ASSUME TypeInv, NEW t \in Publishers \cup Tickers, PublishRecord(t)
  PROVE  TypeInv'
<1>. USE Actors DEF TypeInv, TypeOK, PublishRecord, threadVars, coreVars, subVars,
         brokerVars, fanoutVars, clientVars, boundVars
<1>1. ThreadTypes'
  BY DEF ThreadTypes, Goto, Places
<1>2. CoreTypes'
  BY DEF CoreTypes, Record, Codes, ThreadTypes
<1>3. SubTypes'
  BY DEF SubTypes
<1>4. BrokerTypes'
  BY DEF BrokerTypes, ClientIds
<1>5. FanoutTypes'
  BY DEF FanoutTypes
<1>6. Held'
  BY DEF Held, ThreadTypes, Publishing, Sending, Goto
<1>. QED
  BY <1>1, <1>2, <1>3, <1>4, <1>5, <1>6

LEMMA FanoutCheckType ==
  ASSUME TypeInv, NEW t \in Publishers \cup Tickers, FanoutCheck(t)
  PROVE  TypeInv'
<1>. USE Actors DEF TypeInv, TypeOK, FanoutCheck, threadVars, coreVars, subVars,
         brokerVars, fanoutVars, clientVars, boundVars
<1>1. ThreadTypes'
  BY DEF ThreadTypes, Goto, Places, Return
<1>2. CoreTypes'
  BY DEF CoreTypes
<1>3. SubTypes'
  BY DEF SubTypes
<1>4. BrokerTypes'
  BY DEF BrokerTypes, ClientIds
<1>5. FanoutTypes'
  BY DEF FanoutTypes
<1>6. Held'
  BY DEF Held, ThreadTypes, Publishing, Sending, Goto, Return
<1>. QED
  BY <1>1, <1>2, <1>3, <1>4, <1>5, <1>6

LEMMA SpawnType ==
  ASSUME TypeInv, NEW t \in Publishers \cup Tickers, Spawn(t)
  PROVE  TypeInv'
<1>. USE Actors DEF TypeInv, TypeOK, Spawn, threadVars, coreVars, subVars,
         brokerVars, fanoutVars, clientVars, boundVars
<1>1. ThreadTypes'
  BY DEF ThreadTypes, Places
<1>2. CoreTypes'
  BY DEF CoreTypes
<1>3. SubTypes'
  BY DEF SubTypes
<1>4. BrokerTypes'
  BY DEF BrokerTypes, ClientIds
<1>5. FanoutTypes'
  BY DEF FanoutTypes
<1>6. Held'
  BY DEF Held, ThreadTypes, Publishing, Sending
<1>. QED
  BY <1>1, <1>2, <1>3, <1>4, <1>5, <1>6

LEMMA EnqueueType ==
  ASSUME TypeInv, NEW t \in Publishers \cup Tickers, Enqueue(t)
  PROVE  TypeInv'
<1>. USE Actors DEF TypeInv, TypeOK, Enqueue, threadVars, coreVars, subVars,
         brokerVars, fanoutVars, clientVars, boundVars
<1>h. hand[t] \in Events
  BY DEF Held, Publishing
<1>a. /\ Offered(brokerQueue, BrokerCapacity, hand[t]) \in Seq(Events)
      /\ Cardinality(Shed(brokerQueue, BrokerCapacity, hand[t])) \in Nat
  BY <1>h, BusAssumption, OfferedProps DEF FanoutTypes
<1>1. ThreadTypes'
  BY DEF ThreadTypes, Goto, Places, Return
<1>2. CoreTypes'
  BY DEF CoreTypes
<1>3. SubTypes'
  BY DEF SubTypes
<1>4. BrokerTypes'
  BY DEF BrokerTypes, ClientIds
<1>5. FanoutTypes'
  BY <1>a DEF FanoutTypes
<1>6. Held'
  BY DEF Held, ThreadTypes, Publishing, Sending, Goto, Return
<1>. QED
  BY <1>1, <1>2, <1>3, <1>4, <1>5, <1>6

\* One offer to every subscription keeps their types.
LEMMA OfferType ==
  ASSUME SubTypes, NEW e \in Events, Offer(e)
  PROVE  SubTypes'
<1>1. ASSUME NEW s \in Subs
      PROVE  /\ Offered(queue[s], SubCapacity, e) \in Seq(Events)
             /\ Cardinality(Shed(queue[s], SubCapacity, e)) \in Nat
  BY BusAssumption, OfferedProps DEF SubTypes
<1>2. queue' \in [Subs -> Seq(Events)]
  BY <1>1 DEF Offer, SubTypes
<1>. DEFINE more == [s \in Subs |-> Cardinality(Shed(queue[s], SubCapacity, e))]
<1>m. more \in [Subs -> Nat]
  BY <1>1
<1>a. /\ pending' = [s \in Subs |-> IF s \in Takers(e)
                      THEN pending[s] + more[s] ELSE pending[s]]
      /\ lifetime' = [s \in Subs |-> IF s \in Takers(e)
                      THEN lifetime[s] + more[s] ELSE lifetime[s]]
  BY Zenon DEF Offer
<1>. HIDE DEF more
<1>3. pending' \in [Subs -> Nat] /\ lifetime' \in [Subs -> Nat]
  <2>1. pending \in [Subs -> Nat] /\ lifetime \in [Subs -> Nat]
    BY DEF SubTypes
  <2>2. pending' \in [Subs -> Nat]
    BY <2>1, <1>m, <1>a
  <2>3. lifetime' \in [Subs -> Nat]
    BY <2>1, <1>m, <1>a
  <2>. QED
    BY <2>2, <2>3
<1>4. protectedDrops' \in [Subs -> Nat]
  <2>1. protectedDrops' = [s \in Subs |-> IF s \in Takers(e)
          THEN protectedDrops[s] + (IF ShedProtected(queue[s], SubCapacity, e) THEN 1 ELSE 0)
          ELSE protectedDrops[s]]
    BY Zenon DEF Offer
  <2>. QED
    BY <2>1 DEF SubTypes
<1>5. offered' \in [Subs -> Nat]
  <2>1. offered' = [s \in Subs |-> IF s \in Takers(e) THEN offered[s] + 1 ELSE offered[s]]
    BY Zenon DEF Offer
  <2>. QED
    BY <2>1 DEF SubTypes
<1>6. UNCHANGED <<subClosed, consumer, got, told, lastGot>>
  BY Zenon DEF Offer
<1>. QED
  BY <1>2, <1>3, <1>4, <1>5, <1>6 DEF SubTypes

LEMMA PublishOfferType ==
  ASSUME TypeInv, NEW t \in Publishers \cup Tickers, PublishOffer(t)
  PROVE  TypeInv'
<1>. USE Actors DEF TypeInv, TypeOK, PublishOffer, threadVars, coreVars, subVars,
         brokerVars, fanoutVars, clientVars, boundVars
<1>. DEFINE e == [seq |-> seq + 1, kind |-> arg[t].kind, by |-> t]
<1>e. e \in Events
  BY DEF Held, CoreTypes, Events, Args
<1>n. Cardinality(Sacrificing(e)) \in Nat
  <2>1. Sacrificing(e) \in SUBSET Subs
    BY DEF Sacrificing, Takers, CoreTypes
  <2>. QED
    BY <2>1, BusAssumption, FS_Subset, FS_CardinalityType
<1>o. \/ arg[t].verdict = "screened" /\ Refuse(t) /\ UNCHANGED <<hand, owed, subVars>>
      \/ /\ Offer(e) /\ hand' = [hand EXCEPT ![t] = e]
         /\ arg' = [arg EXCEPT ![t] = NoEvent]
         /\ owed' = [owed EXCEPT ![t] = Cardinality(Sacrificing(e))]
         /\ Goto(t, IF Cardinality(Sacrificing(e)) > 0 THEN "record" ELSE "fanout")
  BY DEF PublishOffer
<1>2. CoreTypes'
  BY DEF CoreTypes, Record, Codes
<1>. HIDE DEF e, PublishOffer
<1>1. ThreadTypes'
  BY <1>o, <1>e, <1>n DEF ThreadTypes, Goto, Places, Refuse
<1>3. SubTypes'
  <2>1. CASE UNCHANGED <<hand, owed, subVars>>
    BY <2>1 DEF SubTypes, subVars
  <2>2. CASE Offer(e)
    BY <2>2, <1>e, OfferType
  <2>. QED
    BY <1>o, <2>1, <2>2
<1>. USE DEF PublishOffer
<1>4. BrokerTypes'
  BY DEF BrokerTypes, ClientIds
<1>5. FanoutTypes'
  BY DEF FanoutTypes
<1>. HIDE DEF PublishOffer
<1>6. Held'
  BY <1>o, <1>e DEF Held, ThreadTypes, Publishing, Sending, Goto, Refuse
<1>. QED
  BY <1>1, <1>2, <1>3, <1>4, <1>5, <1>6

LEMMA SubscribeType ==
  ASSUME TypeInv, NEW s \in Subs, Subscribe(s)
  PROVE  TypeInv'
<1>. USE Actors DEF TypeInv, TypeOK, Subscribe, threadVars, coreVars, subVars,
         brokerVars, fanoutVars, clientVars, boundVars
<1>1. ThreadTypes'
  BY DEF ThreadTypes
<1>2. CoreTypes'
  BY DEF CoreTypes
<1>3. SubTypes'
  BY DEF SubTypes
<1>4. BrokerTypes'
  BY DEF BrokerTypes, ClientIds
<1>5. FanoutTypes'
  BY DEF FanoutTypes
<1>6. Held'
  BY DEF Held, ThreadTypes, Publishing, Sending
<1>. QED
  BY <1>1, <1>2, <1>3, <1>4, <1>5, <1>6

LEMMA GetType ==
  ASSUME TypeInv, NEW s \in Subs, Get(s)
  PROVE  TypeInv'
<1>. USE Actors DEF TypeInv, TypeOK, Get, threadVars, coreVars, subVars,
         brokerVars, fanoutVars, clientVars, boundVars
<1>q. queue[s] \in Seq(Events) /\ queue[s] # <<>>
  BY DEF SubTypes
<1>h. Head(queue[s]) \in Events /\ Tail(queue[s]) \in Seq(Events)
  BY <1>q, HeadTailProperties
<1>a. Head(queue[s]).seq \in Nat
  BY <1>h DEF Events
<1>1. ThreadTypes'
  BY DEF ThreadTypes
<1>2. CoreTypes'
  BY DEF CoreTypes
<1>3. SubTypes'
  <2>1. queue' \in [Subs -> Seq(Events)] /\ pending' \in [Subs -> Nat]
    BY <1>h DEF SubTypes
  <2>2. got' \in [Subs -> Nat] /\ told' \in [Subs -> Nat]
    BY DEF SubTypes
  <2>3. lastGot' \in [Subs -> Nat]
    BY <1>a DEF SubTypes
  <2>. QED
    BY <2>1, <2>2, <2>3 DEF SubTypes
<1>4. BrokerTypes'
  BY DEF BrokerTypes, ClientIds
<1>5. FanoutTypes'
  BY DEF FanoutTypes
<1>6. Held'
  BY DEF Held, ThreadTypes, Publishing, Sending
<1>. QED
  BY <1>1, <1>2, <1>3, <1>4, <1>5, <1>6

LEMMA UnsubscribeType ==
  ASSUME TypeInv, NEW s \in Subs, Unsubscribe(s)
  PROVE  TypeInv'
<1>. USE Actors DEF TypeInv, TypeOK, Unsubscribe, threadVars, coreVars, subVars,
         brokerVars, fanoutVars, clientVars, boundVars
<1>1. ThreadTypes'
  BY DEF ThreadTypes
<1>2. CoreTypes'
  BY DEF CoreTypes
<1>3. SubTypes'
  BY DEF SubTypes
<1>4. BrokerTypes'
  BY DEF BrokerTypes, ClientIds
<1>5. FanoutTypes'
  BY DEF FanoutTypes
<1>6. Held'
  BY DEF Held, ThreadTypes, Publishing, Sending
<1>. QED
  BY <1>1, <1>2, <1>3, <1>4, <1>5, <1>6

LEMMA EnsureCheckType ==
  ASSUME TypeInv, NEW t \in Tickers \cup {Worker}, EnsureCheck(t)
  PROVE  TypeInv'
<1>. USE Actors DEF TypeInv, TypeOK, EnsureCheck, threadVars, coreVars, subVars,
         brokerVars, fanoutVars, clientVars, boundVars
<1>1. ThreadTypes'
  BY DEF ThreadTypes, Goto, Places, GiveUp
<1>2. CoreTypes'
  BY DEF CoreTypes
<1>3. SubTypes'
  BY DEF SubTypes
<1>4. BrokerTypes'
  BY DEF BrokerTypes, ClientIds
<1>5. FanoutTypes'
  BY DEF FanoutTypes
<1>6. Held'
  BY DEF Held, ThreadTypes, Publishing, Sending, Goto, GiveUp
<1>. QED
  BY <1>1, <1>2, <1>3, <1>4, <1>5, <1>6

LEMMA EnsureCoreType ==
  ASSUME TypeInv, NEW t \in Tickers \cup {Worker}, EnsureCore(t)
  PROVE  TypeInv'
<1>. USE Actors DEF TypeInv, TypeOK, EnsureCore, threadVars, coreVars, subVars,
         brokerVars, fanoutVars, clientVars, boundVars
<1>1. ThreadTypes'
  BY DEF ThreadTypes, Goto, Places, GiveUp
<1>2. CoreTypes'
  BY DEF CoreTypes, Disable, Record, Codes
<1>3. SubTypes'
  BY DEF SubTypes
<1>4. BrokerTypes'
  BY DEF BrokerTypes, ClientIds, Disable
<1>5. FanoutTypes'
  BY DEF FanoutTypes
<1>6. Held'
  BY DEF Held, ThreadTypes, Publishing, Sending, Goto, GiveUp
<1>. QED
  BY <1>1, <1>2, <1>3, <1>4, <1>5, <1>6

LEMMA EnsureClientType ==
  ASSUME TypeInv, NEW t \in Tickers \cup {Worker}, EnsureClient(t)
  PROVE  TypeInv'
<1>. USE Actors DEF TypeInv, TypeOK, EnsureClient, threadVars, coreVars, subVars,
         brokerVars, fanoutVars, clientVars, boundVars
<1>1. ThreadTypes'
  BY DEF ThreadTypes, Goto, Places, GiveUp
<1>2. CoreTypes'
  BY DEF CoreTypes
<1>3. SubTypes'
  BY DEF SubTypes
<1>4. BrokerTypes'
  BY DEF BrokerTypes, ClientIds
<1>5. FanoutTypes'
  BY DEF FanoutTypes
<1>6. Held'
  BY DEF Held, ThreadTypes, Publishing, Sending, Goto, GiveUp
<1>. QED
  BY <1>1, <1>2, <1>3, <1>4, <1>5, <1>6

LEMMA BuildClientType ==
  ASSUME TypeInv, NEW t \in Tickers \cup {Worker}, BuildClient(t)
  PROVE  TypeInv'
<1>. USE Actors DEF TypeInv, TypeOK, BuildClient, threadVars, coreVars, subVars,
         brokerVars, fanoutVars, clientVars, boundVars
<1>1. ThreadTypes'
  BY DEF ThreadTypes, Goto, Places, GiveUp
<1>2. CoreTypes'
  BY DEF CoreTypes, Disable, Record, Codes
<1>3. SubTypes'
  BY DEF SubTypes
<1>4. BrokerTypes'
  <2>b. /\ brokerDisabled \in BOOLEAN /\ core \in BOOLEAN /\ built \in Nat
        /\ client \in 1 .. built \cup {NoClient} /\ released \subseteq 1 .. built
        /\ report.taken \in SUBSET Subs /\ report.joined \in BOOLEAN
        /\ report.unsent \in Seq(Events) /\ report.client \in 1 .. built \cup {NoClient}
        /\ report = [taken |-> report.taken, joined |-> report.joined,
                     unsent |-> report.unsent, client |-> report.client]
    BY DEF BrokerTypes, ClientIds
  <2>1. CASE built' = built + 1 /\ client' = built + 1 /\ UNCHANGED brokerDisabled
    <3>1. 1 .. built \subseteq 1 .. built' /\ client' \in 1 .. built'
      BY <2>1, <2>b
    <3>. QED
      BY <2>1, <2>b, <3>1 DEF BrokerTypes, ClientIds
  <2>2. CASE UNCHANGED <<built, client>> /\ brokerDisabled' \in BOOLEAN
    BY <2>2, <2>b DEF BrokerTypes, ClientIds
  <2>. QED
    BY <2>1, <2>2, <2>b DEF Disable
<1>5. FanoutTypes'
  BY DEF FanoutTypes
<1>6. Held'
  BY DEF Held, ThreadTypes, Publishing, Sending, Goto, GiveUp
<1>. QED
  BY <1>1, <1>2, <1>3, <1>4, <1>5, <1>6

LEMMA WorkerExitType ==
  ASSUME TypeInv, WorkerExit
  PROVE  TypeInv'
<1>. USE Actors DEF TypeInv, TypeOK, WorkerExit, threadVars, coreVars, subVars,
         brokerVars, fanoutVars, clientVars, boundVars
<1>1. ThreadTypes'
  BY DEF ThreadTypes, Goto, Places
<1>2. CoreTypes'
  BY DEF CoreTypes
<1>3. SubTypes'
  BY DEF SubTypes
<1>4. BrokerTypes'
  BY DEF BrokerTypes, ClientIds
<1>5. FanoutTypes'
  BY DEF FanoutTypes
<1>6. Held'
  BY DEF Held, ThreadTypes, Publishing, Sending, Goto
<1>. QED
  BY <1>1, <1>2, <1>3, <1>4, <1>5, <1>6

LEMMA WorkerPopType ==
  ASSUME TypeInv, WorkerPop
  PROVE  TypeInv'
<1>. USE Actors DEF TypeInv, TypeOK, WorkerPop, threadVars, coreVars, subVars,
         brokerVars, fanoutVars, clientVars, boundVars
<1>a. Head(brokerQueue) \in Events /\ Tail(brokerQueue) \in Seq(Events)
  BY HeadTailProperties DEF FanoutTypes
<1>1. ThreadTypes'
  BY <1>a DEF ThreadTypes, Goto, Places
<1>2. CoreTypes'
  BY DEF CoreTypes
<1>3. SubTypes'
  BY DEF SubTypes
<1>4. BrokerTypes'
  BY DEF BrokerTypes, ClientIds
<1>5. FanoutTypes'
  BY <1>a DEF FanoutTypes
<1>6. Held'
  BY <1>a DEF Held, ThreadTypes, Publishing, Sending, Goto
<1>. QED
  BY <1>1, <1>2, <1>3, <1>4, <1>5, <1>6

LEMMA WorkerCheckType ==
  ASSUME TypeInv, WorkerCheck
  PROVE  TypeInv'
<1>. USE Actors DEF TypeInv, TypeOK, WorkerCheck, threadVars, coreVars, subVars,
         brokerVars, fanoutVars, clientVars, boundVars
<1>1. ThreadTypes'
  BY DEF ThreadTypes, Goto, Places, GiveUp
<1>2. CoreTypes'
  BY DEF CoreTypes
<1>3. SubTypes'
  BY DEF SubTypes
<1>4. BrokerTypes'
  BY DEF BrokerTypes, ClientIds
<1>5. FanoutTypes'
  BY DEF FanoutTypes
<1>6. Held'
  BY DEF Held, ThreadTypes, Publishing, Sending, Goto, GiveUp
<1>. QED
  BY <1>1, <1>2, <1>3, <1>4, <1>5, <1>6

LEMMA WorkerEnvelopeType ==
  ASSUME TypeInv, WorkerEnvelope
  PROVE  TypeInv'
<1>. USE Actors DEF TypeInv, TypeOK, WorkerEnvelope, threadVars, coreVars, subVars,
         brokerVars, fanoutVars, clientVars, boundVars
<1>1. ThreadTypes'
  BY DEF ThreadTypes, Goto, Places, GiveUp
<1>2. CoreTypes'
  BY DEF CoreTypes
<1>3. SubTypes'
  BY DEF SubTypes
<1>4. BrokerTypes'
  BY DEF BrokerTypes, ClientIds
<1>5. FanoutTypes'
  BY DEF FanoutTypes
<1>6. Held'
  BY DEF Held, ThreadTypes, Publishing, Sending, Goto, GiveUp
<1>. QED
  BY <1>1, <1>2, <1>3, <1>4, <1>5, <1>6

LEMMA WorkerSendType ==
  ASSUME TypeInv, WorkerSend
  PROVE  TypeInv'
<1>. USE Actors DEF TypeInv, TypeOK, WorkerSend, threadVars, coreVars, subVars,
         brokerVars, fanoutVars, clientVars, boundVars
<1>a. Append(sent, hand[Worker]) \in Seq(Events)
  BY AppendProperties DEF Held, Sending, FanoutTypes
<1>1. ThreadTypes'
  BY DEF ThreadTypes, Goto, Places, GiveUp
<1>2. CoreTypes'
  BY DEF CoreTypes
<1>3. SubTypes'
  BY DEF SubTypes
<1>4. BrokerTypes'
  BY DEF BrokerTypes, ClientIds
<1>5. FanoutTypes'
  BY <1>a DEF FanoutTypes
<1>6. Held'
  BY DEF Held, ThreadTypes, Publishing, Sending, Goto, GiveUp
<1>. QED
  BY <1>1, <1>2, <1>3, <1>4, <1>5, <1>6

LEMMA WorkerFailedType ==
  ASSUME TypeInv, WorkerFailed
  PROVE  TypeInv'
<1>. USE Actors DEF TypeInv, TypeOK, WorkerFailed, threadVars, coreVars, subVars,
         brokerVars, fanoutVars, clientVars, boundVars
<1>1. ThreadTypes'
  BY DEF ThreadTypes, Goto, Places, GiveUp
<1>2. CoreTypes'
  BY DEF CoreTypes, Disable, Record, Codes
<1>3. SubTypes'
  BY DEF SubTypes
<1>4. BrokerTypes'
  BY DEF BrokerTypes, ClientIds, Disable
<1>5. FanoutTypes'
  BY DEF FanoutTypes
<1>6. Held'
  BY DEF Held, ThreadTypes, Publishing, Sending, Goto, GiveUp
<1>. QED
  BY <1>1, <1>2, <1>3, <1>4, <1>5, <1>6

LEMMA TickCallType ==
  ASSUME TypeInv, NEW t \in Tickers, TickCall(t)
  PROVE  TypeInv'
<1>. USE Actors DEF TypeInv, TypeOK, TickCall, threadVars, coreVars, subVars,
         brokerVars, fanoutVars, clientVars, boundVars
<1>1. ThreadTypes'
  BY DEF ThreadTypes, Goto, Places
<1>2. CoreTypes'
  BY DEF CoreTypes
<1>3. SubTypes'
  BY DEF SubTypes
<1>4. BrokerTypes'
  BY DEF BrokerTypes, ClientIds
<1>5. FanoutTypes'
  BY DEF FanoutTypes
<1>6. Held'
  BY DEF Held, ThreadTypes, Publishing, Sending, Goto
<1>. QED
  BY <1>1, <1>2, <1>3, <1>4, <1>5, <1>6

LEMMA TickRetryType ==
  ASSUME TypeInv, NEW t \in Tickers, TickRetry(t)
  PROVE  TypeInv'
<1>. USE Actors DEF TypeInv, TypeOK, TickRetry, threadVars, coreVars, subVars,
         brokerVars, fanoutVars, clientVars, boundVars
<1>1. ThreadTypes'
  BY DEF ThreadTypes, Goto, Places
<1>2. CoreTypes'
  BY DEF CoreTypes
<1>3. SubTypes'
  BY DEF SubTypes
<1>4. BrokerTypes'
  BY DEF BrokerTypes, ClientIds
<1>5. FanoutTypes'
  BY DEF FanoutTypes
<1>6. Held'
  BY DEF Held, ThreadTypes, Publishing, Sending, Goto
<1>. QED
  BY <1>1, <1>2, <1>3, <1>4, <1>5, <1>6

LEMMA TickRecoveredType ==
  ASSUME TypeInv, NEW t \in Tickers, TickRecovered(t)
  PROVE  TypeInv'
<1>. USE Actors DEF TypeInv, TypeOK, TickRecovered, threadVars, coreVars, subVars,
         brokerVars, fanoutVars, clientVars, boundVars
<1>1. ThreadTypes'
  BY DEF ThreadTypes, Goto, Places
<1>2. CoreTypes'
  BY DEF CoreTypes, Record, Codes
<1>3. SubTypes'
  BY DEF SubTypes
<1>4. BrokerTypes'
  BY DEF BrokerTypes, ClientIds
<1>5. FanoutTypes'
  BY DEF FanoutTypes
<1>6. Held'
  BY DEF Held, ThreadTypes, Publishing, Sending, Goto
<1>. QED
  BY <1>1, <1>2, <1>3, <1>4, <1>5, <1>6

LEMMA TickBeatType ==
  ASSUME TypeInv, NEW t \in Tickers, TickBeat(t)
  PROVE  TypeInv'
<1>. USE Actors DEF TypeInv, TypeOK, TickBeat, threadVars, coreVars, subVars,
         brokerVars, fanoutVars, clientVars, boundVars
<1>1. ThreadTypes'
  BY BusAssumption DEF ThreadTypes, Goto, Places, Args, AllVerdicts
<1>2. CoreTypes'
  BY DEF CoreTypes
<1>3. SubTypes'
  BY DEF SubTypes
<1>4. BrokerTypes'
  BY DEF BrokerTypes, ClientIds
<1>5. FanoutTypes'
  BY DEF FanoutTypes
<1>6. Held'
  BY BusAssumption DEF Held, ThreadTypes, Publishing, Sending, Goto, Args, AllVerdicts
<1>. QED
  BY <1>1, <1>2, <1>3, <1>4, <1>5, <1>6

LEMMA CloseCallType ==
  ASSUME TypeInv, NEW c \in Closers, CloseCall(c)
  PROVE  TypeInv'
<1>. USE Actors DEF TypeInv, TypeOK, CloseCall, threadVars, coreVars, subVars,
         brokerVars, fanoutVars, clientVars, boundVars
<1>1. ThreadTypes'
  BY DEF ThreadTypes, Goto, Places, CloseStep
<1>2. CoreTypes'
  BY DEF CoreTypes
<1>3. SubTypes'
  BY DEF SubTypes
<1>4. BrokerTypes'
  BY DEF BrokerTypes, ClientIds
<1>5. FanoutTypes'
  BY DEF FanoutTypes
<1>6. Held'
  BY DEF Held, ThreadTypes, Publishing, Sending, Goto, CloseStep
<1>. QED
  BY <1>1, <1>2, <1>3, <1>4, <1>5, <1>6

LEMMA CloseTakeType ==
  ASSUME TypeInv, NEW c \in Closers, CloseTake(c)
  PROVE  TypeInv'
<1>. USE Actors DEF TypeInv, TypeOK, CloseTake, threadVars, coreVars, subVars,
         brokerVars, fanoutVars, clientVars, boundVars
<1>1. ThreadTypes'
  BY DEF ThreadTypes, Goto, Places, CloseStep
<1>2. CoreTypes'
  BY DEF CoreTypes
<1>3. SubTypes'
  BY DEF SubTypes
<1>4. BrokerTypes'
  BY DEF BrokerTypes, ClientIds, CoreTypes
<1>5. FanoutTypes'
  BY DEF FanoutTypes
<1>6. Held'
  BY DEF Held, ThreadTypes, Publishing, Sending, Goto, CloseStep
<1>. QED
  BY <1>1, <1>2, <1>3, <1>4, <1>5, <1>6

LEMMA CloseSubsType ==
  ASSUME TypeInv, NEW c \in Closers, CloseSubs(c)
  PROVE  TypeInv'
<1>. USE Actors DEF TypeInv, TypeOK, CloseSubs, threadVars, coreVars, subVars,
         brokerVars, fanoutVars, clientVars, boundVars
<1>1. ThreadTypes'
  BY DEF ThreadTypes, Goto, Places, CloseStep
<1>2. CoreTypes'
  BY DEF CoreTypes
<1>3. SubTypes'
  BY DEF SubTypes
<1>4. BrokerTypes'
  BY DEF BrokerTypes, ClientIds
<1>5. FanoutTypes'
  BY DEF FanoutTypes
<1>6. Held'
  BY DEF Held, ThreadTypes, Publishing, Sending, Goto, CloseStep
<1>. QED
  BY <1>1, <1>2, <1>3, <1>4, <1>5, <1>6

LEMMA CloseStopType ==
  ASSUME TypeInv, NEW c \in Closers, CloseStop(c)
  PROVE  TypeInv'
<1>. USE Actors DEF TypeInv, TypeOK, CloseStop, threadVars, coreVars, subVars,
         brokerVars, fanoutVars, clientVars, boundVars
<1>1. ThreadTypes'
  BY DEF ThreadTypes, Goto, Places, CloseStep
<1>2. CoreTypes'
  BY DEF CoreTypes
<1>3. SubTypes'
  BY DEF SubTypes
<1>4. BrokerTypes'
  BY DEF BrokerTypes, ClientIds
<1>5. FanoutTypes'
  BY DEF FanoutTypes
<1>6. Held'
  BY DEF Held, ThreadTypes, Publishing, Sending, Goto, CloseStep
<1>. QED
  BY <1>1, <1>2, <1>3, <1>4, <1>5, <1>6

LEMMA CloseJoinType ==
  ASSUME TypeInv, NEW c \in Closers, CloseJoin(c)
  PROVE  TypeInv'
<1>. USE Actors DEF TypeInv, TypeOK, CloseJoin, threadVars, coreVars, subVars,
         brokerVars, fanoutVars, clientVars, boundVars
<1>1. ThreadTypes'
  BY DEF ThreadTypes, Goto, Places, CloseStep
<1>2. CoreTypes'
  BY DEF CoreTypes
<1>3. SubTypes'
  BY DEF SubTypes
<1>4. BrokerTypes'
  <2>. DEFINE gone == pc[Worker] \in {"unstarted", "exited"}
  <2>1. gone \in BOOLEAN
    OBVIOUS
  <2>2. report' = [report EXCEPT !.joined = gone]
    BY Zenon
  <2>. HIDE DEF gone
  <2>. QED
    BY <2>1, <2>2 DEF BrokerTypes, ClientIds
<1>5. FanoutTypes'
  BY DEF FanoutTypes
<1>6. Held'
  BY DEF Held, ThreadTypes, Publishing, Sending, Goto, CloseStep
<1>. QED
  BY <1>1, <1>2, <1>3, <1>4, <1>5, <1>6

LEMMA CloseCountType ==
  ASSUME TypeInv, NEW c \in Closers, CloseCount(c)
  PROVE  TypeInv'
<1>. USE Actors DEF TypeInv, TypeOK, CloseCount, threadVars, coreVars, subVars,
         brokerVars, fanoutVars, clientVars, boundVars
<1>1. ThreadTypes'
  BY DEF ThreadTypes, Goto, Places, CloseStep
<1>2. CoreTypes'
  BY DEF CoreTypes
<1>3. SubTypes'
  BY DEF SubTypes
<1>4. BrokerTypes'
  BY LenProperties DEF BrokerTypes, ClientIds, FanoutTypes
<1>5. FanoutTypes'
  BY DEF FanoutTypes
<1>6. Held'
  BY DEF Held, ThreadTypes, Publishing, Sending, Goto, CloseStep
<1>. QED
  BY <1>1, <1>2, <1>3, <1>4, <1>5, <1>6

LEMMA CloseClientType ==
  ASSUME TypeInv, NEW c \in Closers, CloseClient(c)
  PROVE  TypeInv'
<1>. USE Actors DEF TypeInv, TypeOK, CloseClient, threadVars, coreVars, subVars,
         brokerVars, fanoutVars, clientVars, boundVars
<1>1. ThreadTypes'
  BY DEF ThreadTypes, Goto, Places, CloseStep
<1>2. CoreTypes'
  BY DEF CoreTypes
<1>3. SubTypes'
  BY DEF SubTypes
<1>4. BrokerTypes'
  BY DEF BrokerTypes, ClientIds
<1>5. FanoutTypes'
  BY DEF FanoutTypes
<1>6. Held'
  BY DEF Held, ThreadTypes, Publishing, Sending, Goto, CloseStep
<1>. QED
  BY <1>1, <1>2, <1>3, <1>4, <1>5, <1>6

LEMMA CloseReleaseType ==
  ASSUME TypeInv, NEW c \in Closers, CloseRelease(c)
  PROVE  TypeInv'
<1>. USE Actors DEF TypeInv, TypeOK, CloseRelease, threadVars, coreVars, subVars,
         brokerVars, fanoutVars, clientVars, boundVars
<1>1. ThreadTypes'
  BY DEF ThreadTypes, Goto, Places, CloseStep
<1>2. CoreTypes'
  BY DEF CoreTypes
<1>3. SubTypes'
  BY DEF SubTypes
<1>4. BrokerTypes'
  <2>1. report.client \in ClientIds \cup {NoClient}
    BY DEF BrokerTypes
  <2>2. released' \in SUBSET ClientIds
    BY <2>1 DEF BrokerTypes
  <2>. QED
    BY <2>2 DEF BrokerTypes, ClientIds
<1>5. FanoutTypes'
  BY DEF FanoutTypes
<1>6. Held'
  BY DEF Held, ThreadTypes, Publishing, Sending, Goto, CloseStep
<1>. QED
  BY <1>1, <1>2, <1>3, <1>4, <1>5, <1>6

LEMMA StepType == TypeInv /\ [Next]_vars => TypeInv'
<1>. SUFFICES ASSUME TypeInv, [Next]_vars PROVE TypeInv'
  OBVIOUS
<1>p. ASSUME NEW t \in Publishers \cup Tickers, Publish(t) PROVE TypeInv'
  BY <1>p, PublishCheckType, PublishOfferType, PublishRecordType, FanoutCheckType,
     EnqueueType, SpawnType DEF Publish
<1>n. ASSUME NEW t \in Tickers \cup {Worker}, Ensure(t) PROVE TypeInv'
  BY <1>n, EnsureCheckType, EnsureCoreType, EnsureClientType, BuildClientType
     DEF Ensure
<1>1. ASSUME NEW t \in Publishers, NEW k \in Publishes[t], NEW v \in Verdicts,
             PublishCall(t, k, v)
      PROVE  TypeInv'
  BY <1>1, PublishCallType
<1>2. ASSUME NEW s \in Subs, Subscribe(s) \/ Consume(s) \/ Disconnect(s)
      PROVE  TypeInv'
  BY <1>2, SubscribeType, GetType, UnsubscribeType DEF Consume, EndOfStream, Disconnect
<1>3. CASE WorkerStep
  BY <1>3, <1>n, WorkerExitType, WorkerPopType, WorkerCheckType, WorkerEnvelopeType,
     WorkerSendType, WorkerFailedType DEF WorkerStep
<1>4. ASSUME NEW t \in Tickers, TickCall(t) \/ Tick(t) PROVE TypeInv'
  BY <1>4, <1>p, <1>n, TickCallType, TickRetryType, TickRecoveredType, TickBeatType
     DEF Tick
<1>5. ASSUME NEW c \in Closers, CloseCall(c) \/ Close(c) PROVE TypeInv'
  BY <1>5, CloseCallType, CloseTakeType, CloseSubsType, CloseStopType, CloseJoinType,
     CloseCountType, CloseClientType, CloseReleaseType DEF Close
<1>6. CASE UNCHANGED vars
  BY <1>6 DEF vars, threadVars, coreVars, subVars, brokerVars, fanoutVars, clientVars,
     boundVars, TypeInv, TypeOK, Held, ThreadTypes, CoreTypes, SubTypes, BrokerTypes,
     FanoutTypes, ClientIds
<1>. QED
  BY <1>p, <1>1, <1>2, <1>3, <1>4, <1>5, <1>6 DEF Next

\* Every variable of the bus always holds a value of its type.
THEOREM TypeCorrect == Spec => []TypeOK
<1>1. TypeInv => TypeOK
  BY DEF TypeInv
<1>. QED
  BY InitType, StepType, <1>1, PTL DEF Spec

(***************************************************************************)
(* What a subscription promises.                                           *)
(***************************************************************************)
ReadersBehind == \A s \in Subs : lastGot[s] <= seq

DeliveryInv ==
  /\ TypeInv
  /\ QueuesBounded /\ DeliveryInOrder /\ GapAccounting /\ ReadersBehind

\* All that the three properties look at.
mailVars == <<seq, queue, pending, lifetime, offered, got, told, lastGot>>

\* What is newer than an event, in a range, is in the range after that event.
LEMMA LaterInRange ==
  ASSUME NEW a \in Nat, NEW n \in Nat, NEW x \in (a + 1) .. n, NEW y \in (a + 1) .. n,
         x < y
  PROVE  y \in (x + 1) .. n
OBVIOUS

LEMMA InitDelivery == Init => DeliveryInv
<1>. SUFFICES ASSUME Init PROVE DeliveryInv
  OBVIOUS
<1>1. TypeInv
  BY InitType
<1>2. \A s \in Subs : queue[s] = <<>> /\ Len(queue[s]) = 0
  BY DEF Init
<1>3. QueuesBounded
  BY <1>2, BusAssumption DEF Init, QueuesBounded
<1>4. DeliveryInOrder
  BY <1>2 DEF DeliveryInOrder, Increasing
<1>5. GapAccounting /\ ReadersBehind
  BY <1>2 DEF Init, GapAccounting, ReadersBehind
<1>. QED
  BY <1>1, <1>3, <1>4, <1>5 DEF DeliveryInv

\* Steps that leave the subscriptions alone.
LEMMA QuietStep ==
  ASSUME DeliveryInv, TypeInv', UNCHANGED mailVars, Len(brokerQueue') <= BrokerCapacity
  PROVE  DeliveryInv'
<1>1. QueuesBounded'
  BY DEF DeliveryInv, QueuesBounded, mailVars
<1>2. DeliveryInOrder'
  BY DEF DeliveryInv, DeliveryInOrder, mailVars
<1>3. GapAccounting' /\ ReadersBehind'
  BY DEF DeliveryInv, GapAccounting, ReadersBehind, mailVars
<1>. QED
  BY <1>1, <1>2, <1>3 DEF DeliveryInv

\* What one offer does to one subscription that takes it.
LEMMA TakeDelivery ==
  ASSUME NEW q \in Seq(Events), NEW e \in Events, NEW last \in Nat, NEW n \in Nat,
         Len(q) <= SubCapacity, Increasing(q), last <= n, e.seq = n + 1,
         \A i \in 1 .. Len(q) : q[i].seq \in (last + 1) .. n
  PROVE  /\ Increasing(Offered(q, SubCapacity, e))
         /\ \A i \in 1 .. Len(Offered(q, SubCapacity, e)) :
              Offered(q, SubCapacity, e)[i].seq \in (last + 1) .. (n + 1)
         /\ Len(Offered(q, SubCapacity, e)) <= SubCapacity
         /\ Len(q) + 1 = Len(Offered(q, SubCapacity, e))
                           + Cardinality(Shed(q, SubCapacity, e))
<1>c. SubCapacity \in Nat
  BY BusAssumption
<1>1. \A i \in 1 .. Len(q) : q[i].seq < e.seq
  OBVIOUS
<1>2. Increasing(Offered(q, SubCapacity, e))
  BY <1>c, <1>1, OfferedIncreasing
<1>3. ASSUME NEW i \in 1 .. Len(Offered(q, SubCapacity, e))
      PROVE  Offered(q, SubCapacity, e)[i].seq \in (last + 1) .. (n + 1)
  <2>1. CASE Offered(q, SubCapacity, e)[i] = e
    BY <2>1
  <2>2. CASE \E m \in 1 .. Len(q) : Offered(q, SubCapacity, e)[i] = q[m]
    BY <2>2
  <2>. QED
    BY <2>1, <2>2, <1>c, OfferedMembers
<1>4. /\ Len(Offered(q, SubCapacity, e)) <= SubCapacity
      /\ Len(q) + 1 = Len(Offered(q, SubCapacity, e))
                        + Cardinality(Shed(q, SubCapacity, e))
  BY <1>c, OfferedProps
<1>. QED
  BY <1>2, <1>3, <1>4

\* A publish that goes through: one event more for every subscription taking it.
LEMMA OfferDelivery ==
  ASSUME DeliveryInv, TypeInv', NEW e \in Events, e.seq = seq + 1, seq' = seq + 1,
         Offer(e), UNCHANGED brokerQueue
  PROVE  DeliveryInv'
<1>. DEFINE drops == [s \in Subs |-> Cardinality(Shed(queue[s], SubCapacity, e))]
<1>t. /\ seq \in Nat /\ queue \in [Subs -> Seq(Events)] /\ lastGot \in [Subs -> Nat]
      /\ offered \in [Subs -> Nat] /\ got \in [Subs -> Nat] /\ told \in [Subs -> Nat]
      /\ pending \in [Subs -> Nat] /\ lifetime \in [Subs -> Nat]
  BY DEF DeliveryInv, TypeInv, TypeOK, CoreTypes, SubTypes
<1>u. lastGot' = lastGot /\ got' = got /\ told' = told
  BY DEF Offer
<1>1. ASSUME NEW s \in Subs
      PROVE  /\ Len(queue'[s]) <= SubCapacity
             /\ Increasing(queue'[s])
             /\ \A i \in 1 .. Len(queue'[s]) : queue'[s][i].seq \in (lastGot[s] + 1) .. seq'
             /\ offered'[s] = got[s] + Len(queue'[s]) + lifetime'[s]
             /\ lifetime'[s] = told[s] + pending'[s]
             /\ lastGot[s] <= seq'
  <2>i. /\ Len(queue[s]) <= SubCapacity /\ Increasing(queue[s]) /\ lastGot[s] <= seq
        /\ \A i \in 1 .. Len(queue[s]) : queue[s][i].seq \in (lastGot[s] + 1) .. seq
        /\ offered[s] = got[s] + Len(queue[s]) + lifetime[s]
        /\ lifetime[s] = told[s] + pending[s]
    BY DEF DeliveryInv, QueuesBounded, DeliveryInOrder, GapAccounting, ReadersBehind
  <2>t. /\ lastGot[s] \in Nat /\ offered[s] \in Nat /\ got[s] \in Nat /\ told[s] \in Nat
        /\ pending[s] \in Nat /\ lifetime[s] \in Nat /\ Len(queue[s]) \in Nat
    BY <1>t, LenProperties
  <2>1. CASE s \in Takers(e)
    <3>1. /\ queue'[s] = Offered(queue[s], SubCapacity, e)
          /\ pending'[s] = pending[s] + drops[s] /\ lifetime'[s] = lifetime[s] + drops[s]
          /\ offered'[s] = offered[s] + 1
      BY <2>1 DEF Offer
    <3>2. drops[s] \in Nat /\ Len(queue'[s]) \in Nat
      BY <1>t, <3>1, BusAssumption, OfferedProps, LenProperties
    <3>3. /\ Len(queue[s]) + 1 = Len(queue'[s]) + drops[s]
          /\ Len(queue'[s]) <= SubCapacity /\ Increasing(queue'[s])
          /\ \A i \in 1 .. Len(queue'[s]) : queue'[s][i].seq \in (lastGot[s] + 1) .. seq'
      BY <1>t, <2>i, <3>1, TakeDelivery
    <3>. HIDE DEF drops
    <3>4. /\ offered'[s] = got[s] + Len(queue'[s]) + lifetime'[s]
          /\ lifetime'[s] = told[s] + pending'[s]
      <4>1. /\ offered'[s] = offered[s] + 1 /\ offered[s] = got[s] + Len(queue[s]) + lifetime[s]
            /\ lifetime'[s] = lifetime[s] + drops[s] /\ Len(queue[s]) + 1 = Len(queue'[s]) + drops[s]
            /\ lifetime[s] = told[s] + pending[s] /\ pending'[s] = pending[s] + drops[s]
        BY <2>i, <3>1, <3>3
      <4>2. /\ offered[s] + 1 = got[s] + Len(queue'[s]) + (lifetime[s] + drops[s])
            /\ lifetime[s] + drops[s] = told[s] + (pending[s] + drops[s])
        <5>. DEFINE o == offered[s]
                    g == got[s]
                    w == Len(queue[s])
                    x == Len(queue'[s])
                    f == lifetime[s]
                    c == told[s]
                    p == pending[s]
                    d == drops[s]
        <5>1. /\ o \in Nat /\ g \in Nat /\ w \in Nat /\ x \in Nat
              /\ f \in Nat /\ c \in Nat /\ p \in Nat /\ d \in Nat
          BY <2>t, <3>2
        <5>2. o = g + w + f /\ f = c + p /\ w + 1 = x + d
          BY <4>1
        <5>. HIDE DEF o, g, w, x, f, c, p, d
        <5>3. o + 1 = g + x + (f + d) /\ f + d = c + (p + d)
          BY <5>1, <5>2
        <5>. QED
          BY <5>3, Zenon DEF o, g, x, f, c, p, d
      <4>. QED
        BY <4>1, <4>2, Zenon
    <3>5. lastGot[s] <= seq'
      BY <1>t, <2>t, <2>i
    <3>. QED
      BY <3>3, <3>4, <3>5, Zenon
  <2>2. CASE s \notin Takers(e)
    <3>1. /\ queue'[s] = queue[s] /\ pending'[s] = pending[s]
          /\ lifetime'[s] = lifetime[s] /\ offered'[s] = offered[s]
      BY <2>2 DEF Offer
    <3>2. \A i \in 1 .. Len(queue[s]) : queue[s][i].seq \in (lastGot[s] + 1) .. seq'
      <4>1. (lastGot[s] + 1) .. seq \subseteq (lastGot[s] + 1) .. seq'
        BY <1>t, <2>t
      <4>. QED
        BY <2>i, <4>1
    <3>. QED
      BY <1>t, <2>t, <2>i, <3>1, <3>2
  <2>. QED
    BY <2>1, <2>2
<1>. QED
  BY <1>1, <1>u DEF DeliveryInv, QueuesBounded, DeliveryInOrder, GapAccounting, ReadersBehind

\* A read: the oldest event leaves, and the pending drops are told with it.
LEMMA GetDelivery ==
  ASSUME DeliveryInv, TypeInv', NEW r \in Subs, Get(r)
  PROVE  DeliveryInv'
<1>t. /\ seq \in Nat /\ queue \in [Subs -> Seq(Events)] /\ lastGot \in [Subs -> Nat]
      /\ offered \in [Subs -> Nat] /\ got \in [Subs -> Nat] /\ told \in [Subs -> Nat]
      /\ pending \in [Subs -> Nat] /\ lifetime \in [Subs -> Nat]
  BY DEF DeliveryInv, TypeInv, TypeOK, CoreTypes, SubTypes
<1>u. UNCHANGED <<seq, lifetime, offered, brokerQueue>>
  BY DEF Get, coreVars, fanoutVars
<1>1. ASSUME NEW s \in Subs
      PROVE  /\ Len(queue'[s]) <= SubCapacity
             /\ Increasing(queue'[s])
             /\ \A i \in 1 .. Len(queue'[s]) : queue'[s][i].seq \in (lastGot'[s] + 1) .. seq
             /\ offered[s] = got'[s] + Len(queue'[s]) + lifetime[s]
             /\ lifetime[s] = told'[s] + pending'[s]
             /\ lastGot'[s] <= seq
  <2>i. /\ Len(queue[s]) <= SubCapacity /\ Increasing(queue[s]) /\ lastGot[s] <= seq
        /\ \A i \in 1 .. Len(queue[s]) : queue[s][i].seq \in (lastGot[s] + 1) .. seq
        /\ offered[s] = got[s] + Len(queue[s]) + lifetime[s]
        /\ lifetime[s] = told[s] + pending[s]
    BY DEF DeliveryInv, QueuesBounded, DeliveryInOrder, GapAccounting, ReadersBehind
  <2>t. /\ lastGot[s] \in Nat /\ offered[s] \in Nat /\ got[s] \in Nat /\ told[s] \in Nat
        /\ pending[s] \in Nat /\ lifetime[s] \in Nat /\ Len(queue[s]) \in Nat
    BY <1>t, LenProperties
  <2>1. CASE s = r
    <3>1. /\ queue[s] # <<>> /\ queue'[s] = Tail(queue[s]) /\ pending'[s] = 0
          /\ got'[s] = got[s] + 1 /\ told'[s] = told[s] + pending[s]
          /\ lastGot'[s] = Head(queue[s]).seq
      BY <1>t, <2>1 DEF Get
    <3>2. /\ Len(queue[s]) \in Nat /\ Len(queue[s]) >= 1
          /\ Len(queue'[s]) = Len(queue[s]) - 1 /\ Head(queue[s]) = queue[s][1]
          /\ \A i \in 1 .. Len(queue'[s]) : queue'[s][i] = queue[s][i + 1]
      BY <1>t, <3>1, HeadTailProperties, LenProperties, EmptySeq
    <3>3. \A i \in 1 .. Len(queue'[s]) :
            i + 1 \in 1 .. Len(queue[s]) /\ queue[s][1].seq < queue[s][i + 1].seq
      BY <2>i, <3>2 DEF Increasing
    <3>0. lastGot'[s] \in (lastGot[s] + 1) .. seq
      <4>1. queue[s][1].seq \in (lastGot[s] + 1) .. seq
        BY <2>i, <2>t, <3>2
      <4>. QED
        BY <3>1, <3>2, <4>1
    <3>4. Increasing(queue'[s])
      <4>1. ASSUME NEW i \in 1 .. Len(queue'[s]), NEW j \in 1 .. Len(queue'[s]), i < j
            PROVE  queue'[s][i].seq < queue'[s][j].seq
        <5>1. i + 1 \in 1 .. Len(queue[s]) /\ j + 1 \in 1 .. Len(queue[s]) /\ i + 1 < j + 1
          BY <2>t, <3>2, <4>1
        <5>2. queue[s][i + 1].seq < queue[s][j + 1].seq
          BY <2>i, <5>1 DEF Increasing
        <5>. QED
          BY <3>2, <5>2
      <4>. QED
        BY <4>1 DEF Increasing
    <3>5. ASSUME NEW i \in 1 .. Len(queue'[s])
          PROVE  queue'[s][i].seq \in (lastGot'[s] + 1) .. seq
      <4>1. queue[s][i + 1].seq \in (lastGot[s] + 1) .. seq
        BY <2>i, <3>3
      <4>2. lastGot'[s] < queue[s][i + 1].seq /\ queue'[s][i] = queue[s][i + 1]
        BY <3>1, <3>2, <3>3
      <4>4. queue[s][i + 1].seq \in (lastGot'[s] + 1) .. seq
        BY <1>t, <2>t, <3>0, <4>1, <4>2, LaterInRange
      <4>. QED
        BY <4>2, <4>4
    <3>6. lastGot'[s] <= seq
      BY <1>t, <2>t, <3>0
    <3>7. /\ Len(queue'[s]) <= SubCapacity
          /\ offered[s] = got'[s] + Len(queue'[s]) + lifetime[s]
          /\ lifetime[s] = told'[s] + pending'[s]
      <4>. DEFINE o == offered[s]
                  g == got[s]
                  w == Len(queue[s])
                  x == Len(queue'[s])
                  f == lifetime[s]
                  c == told[s]
                  p == pending[s]
      <4>1. /\ o \in Nat /\ g \in Nat /\ w \in Nat /\ f \in Nat /\ c \in Nat /\ p \in Nat
            /\ SubCapacity \in Nat
        BY <2>t, BusAssumption
      <4>2. /\ o = g + w + f /\ f = c + p /\ w >= 1 /\ x = w - 1 /\ w <= SubCapacity
            /\ got'[s] = g + 1 /\ told'[s] = c + p /\ pending'[s] = 0
        BY <2>i, <3>1, <3>2
      <4>. HIDE DEF o, g, w, x, f, c, p
      <4>3. x <= SubCapacity /\ o = (g + 1) + x + f /\ f = (c + p) + 0
        BY <4>1, <4>2
      <4>. QED
        BY <4>2, <4>3, Zenon DEF o, x, f
    <3>. QED
      BY <3>4, <3>5, <3>6, <3>7
  <2>2. CASE s # r
    <3>1. /\ queue'[s] = queue[s] /\ pending'[s] = pending[s] /\ got'[s] = got[s]
          /\ told'[s] = told[s] /\ lastGot'[s] = lastGot[s]
      BY <1>t, <2>2 DEF Get
    <3>. QED
      BY <2>i, <3>1
  <2>. QED
    BY <2>1, <2>2
<1>2. Len(brokerQueue') <= BrokerCapacity
  BY <1>u DEF DeliveryInv, QueuesBounded
<1>. QED
  BY <1>1, <1>2, <1>u
     DEF DeliveryInv, QueuesBounded, DeliveryInOrder, GapAccounting, ReadersBehind

\* Publishing: only the critical section and the enqueue touch a queue.
LEMMA PublishDelivery ==
  ASSUME DeliveryInv, TypeInv', NEW t \in Publishers \cup Tickers, Publish(t)
  PROVE  DeliveryInv'
<1>b. Len(brokerQueue) <= BrokerCapacity
  BY DEF DeliveryInv, QueuesBounded
<1>. USE DEF coreVars, subVars, fanoutVars, mailVars
<1>1. CASE PublishCheck(t)
  BY <1>1, <1>b, QuietStep DEF PublishCheck
<1>2. CASE PublishOffer(t)
  <2>. DEFINE e == [seq |-> seq + 1, kind |-> arg[t].kind, by |-> t]
  <2>1. seq \in Nat /\ arg[t] \in Args /\ t \in Threads
    BY <1>2, Actors DEF PublishOffer, DeliveryInv, TypeInv, TypeOK, CoreTypes, Held
  <2>2. e \in Events /\ e.seq = seq + 1
    BY <2>1 DEF Events, Args
  <2>3. seq' = seq + 1 /\ UNCHANGED brokerQueue
    BY <1>2 DEF PublishOffer
  <2>4. UNCHANGED subVars \/ Offer(e)
    BY <1>2 DEF PublishOffer
  <2>. HIDE DEF e
  <2>5. CASE Offer(e)
    BY <2>2, <2>3, <2>5, OfferDelivery
  <2>6. CASE UNCHANGED subVars
    <3>1. \A s \in Subs : lastGot[s] \in Nat
      BY DEF DeliveryInv, TypeInv, TypeOK, SubTypes
    <3>2. QueuesBounded' /\ GapAccounting'
      BY <2>3, <2>6 DEF DeliveryInv, QueuesBounded, GapAccounting
    <3>3. DeliveryInOrder' /\ ReadersBehind'
      BY <2>1, <2>3, <2>6, <3>1 DEF DeliveryInv, DeliveryInOrder, ReadersBehind
    <3>. QED
      BY <3>2, <3>3 DEF DeliveryInv
  <2>. QED
    BY <2>4, <2>5, <2>6
<1>3. CASE PublishRecord(t)
  BY <1>3, <1>b, QuietStep DEF PublishRecord
<1>4. CASE FanoutCheck(t)
  BY <1>4, <1>b, QuietStep DEF FanoutCheck
<1>5. CASE Enqueue(t)
  <2>1. hand[t] \in Events /\ brokerQueue \in Seq(Events)
    BY <1>5, Actors DEF Enqueue, DeliveryInv, TypeInv, TypeOK, FanoutTypes, Held, Publishing
  <2>2. brokerQueue' = Offered(brokerQueue, BrokerCapacity, hand[t])
    BY <1>5 DEF Enqueue
  <2>3. Len(brokerQueue') <= BrokerCapacity
    BY <1>b, <2>1, <2>2, BusAssumption, OfferedProps
  <2>4. UNCHANGED mailVars
    BY <1>5 DEF Enqueue
  <2>. QED
    BY <2>3, <2>4, QuietStep
<1>6. CASE Spawn(t)
  BY <1>6, <1>b, QuietStep DEF Spawn
<1>. QED
  BY <1>1, <1>2, <1>3, <1>4, <1>5, <1>6 DEF Publish

LEMMA WorkerDelivery ==
  ASSUME DeliveryInv, TypeInv', WorkerStep
  PROVE  DeliveryInv'
<1>b. Len(brokerQueue) <= BrokerCapacity
  BY DEF DeliveryInv, QueuesBounded
<1>. USE DEF coreVars, subVars, fanoutVars, mailVars
<1>1. CASE WorkerExit \/ WorkerCheck \/ WorkerEnvelope \/ WorkerSend \/ WorkerFailed
  BY <1>1, <1>b, QuietStep
     DEF WorkerExit, WorkerCheck, WorkerEnvelope, WorkerSend, WorkerFailed
<1>2. CASE WorkerPop
  <2>1. /\ brokerQueue \in Seq(Events) /\ brokerQueue # <<>>
        /\ brokerQueue' = Tail(brokerQueue) /\ UNCHANGED mailVars
    BY <1>2 DEF WorkerPop, DeliveryInv, TypeInv, TypeOK, FanoutTypes
  <2>2. Len(brokerQueue') = Len(brokerQueue) - 1 /\ Len(brokerQueue) \in Nat
    BY <2>1, HeadTailProperties, LenProperties
  <2>3. Len(brokerQueue') <= BrokerCapacity
    BY <1>b, <2>2, BusAssumption
  <2>. QED
    BY <2>1, <2>3, QuietStep
<1>3. CASE Ensure(Worker)
  BY <1>3, <1>b, QuietStep DEF Ensure, EnsureCheck, EnsureCore, EnsureClient, BuildClient
<1>. QED
  BY <1>1, <1>2, <1>3 DEF WorkerStep

LEMMA TickDelivery ==
  ASSUME DeliveryInv, TypeInv', NEW t \in Tickers, TickCall(t) \/ Tick(t)
  PROVE  DeliveryInv'
<1>b. Len(brokerQueue) <= BrokerCapacity
  BY DEF DeliveryInv, QueuesBounded
<1>. USE DEF coreVars, subVars, fanoutVars, mailVars
<1>1. CASE TickCall(t) \/ TickRetry(t) \/ TickRecovered(t) \/ TickBeat(t)
  BY <1>1, <1>b, QuietStep DEF TickCall, TickRetry, TickRecovered, TickBeat
<1>2. CASE Ensure(t)
  BY <1>2, <1>b, QuietStep DEF Ensure, EnsureCheck, EnsureCore, EnsureClient, BuildClient
<1>. QED
  BY <1>1, <1>2, PublishDelivery DEF Tick

LEMMA CloseDelivery ==
  ASSUME DeliveryInv, TypeInv', NEW c \in Closers, CloseCall(c) \/ Close(c)
  PROVE  DeliveryInv'
<1>1. UNCHANGED mailVars /\ UNCHANGED brokerQueue
  BY DEF Close, CloseCall, CloseTake, CloseSubs, CloseStop, CloseJoin, CloseCount,
     CloseClient, CloseRelease, coreVars, subVars, fanoutVars, mailVars
<1>. QED
  BY <1>1, QuietStep DEF DeliveryInv, QueuesBounded

LEMMA ConsumerDelivery ==
  ASSUME DeliveryInv, TypeInv', NEW s \in Subs, Subscribe(s) \/ Consume(s) \/ Disconnect(s)
  PROVE  DeliveryInv'
<1>1. CASE Get(s)
  BY <1>1, GetDelivery
<1>2. CASE Subscribe(s) \/ EndOfStream(s) \/ Disconnect(s)
  <2>1. UNCHANGED mailVars /\ UNCHANGED brokerQueue
    BY <1>2 DEF Subscribe, EndOfStream, Disconnect, Unsubscribe, fanoutVars, mailVars
  <2>. QED
    BY <2>1, QuietStep DEF DeliveryInv, QueuesBounded
<1>. QED
  BY <1>1, <1>2 DEF Consume

LEMMA DeliveryStep == DeliveryInv /\ [Next]_vars => DeliveryInv'
<1>. SUFFICES ASSUME DeliveryInv, [Next]_vars PROVE DeliveryInv'
  OBVIOUS
<1>t. TypeInv'
  BY StepType DEF DeliveryInv
<1>1. ASSUME NEW t \in Publishers, NEW k \in Publishes[t], NEW v \in Verdicts,
             PublishCall(t, k, v)
      PROVE  DeliveryInv'
  <2>1. UNCHANGED mailVars /\ UNCHANGED brokerQueue
    BY <1>1 DEF PublishCall, coreVars, subVars, fanoutVars, mailVars
  <2>. QED
    BY <1>t, <2>1, QuietStep DEF DeliveryInv, QueuesBounded
<1>2. ASSUME UNCHANGED vars PROVE DeliveryInv'
  <2>1. UNCHANGED mailVars /\ UNCHANGED brokerQueue
    BY <1>2 DEF vars, coreVars, subVars, fanoutVars, mailVars
  <2>. QED
    BY <1>t, <2>1, QuietStep DEF DeliveryInv, QueuesBounded
<1>. QED
  BY <1>t, <1>1, <1>2, PublishDelivery, WorkerDelivery, TickDelivery, CloseDelivery,
     ConsumerDelivery DEF Next

\* Neither a slow reader nor a slow broker ever makes a queue grow past its
\* maxsize, for any interleaving of any number of publishers.
THEOREM BoundedQueues == Spec => []QueuesBounded
<1>1. DeliveryInv => QueuesBounded
  BY DEF DeliveryInv
<1>. QED
  BY InitDelivery, DeliveryStep, <1>1, PTL DEF Spec

\* A subscriber reads events in seq order, however publishers race and whatever
\* the drop policy takes out of the middle of its queue.
THEOREM OrderedDelivery == Spec => []DeliveryInOrder
<1>1. DeliveryInv => DeliveryInOrder
  BY DEF DeliveryInv
<1>. QED
  BY InitDelivery, DeliveryStep, <1>1, PTL DEF Spec

\* What was offered was read, waits, or was counted; what was counted was told
\* or is pending on the next read.
THEOREM GapsAccounted == Spec => []GapAccounting
<1>1. DeliveryInv => GapAccounting
  BY DEF DeliveryInv
<1>. QED
  BY InitDelivery, DeliveryStep, <1>1, PTL DEF Spec

(***************************************************************************)
(* Sums over a finite set, as MapThenSumSet computes them.                 *)
(***************************************************************************)
\* The element a sum takes first.
Pick(T) == CHOOSE x \in T : TRUE
\* h adds the numbers of f over each subset of S, as the fold of the community modules
\* does.
Adds(h, f, S) == h = [T \in SUBSET S |-> IF T = {} THEN 0 ELSE f[Pick(T)] + h[T \ {Pick(T)}]]
\* The same, subset by subset.
SumsUp(h, f, S) == \A T \in SUBSET S : h[T] = IF T = {} THEN 0 ELSE f[Pick(T)] + h[T \ {Pick(T)}]
\* The sum of the numbers of f over S.
Total(f, S) == MapThenSumSet(LAMBDA s : f[s], S)

\* Induction for natural numbers, by the least number that is missing.
LEMMA NatSets ==
  ASSUME NEW N \in SUBSET Nat, 0 \in N, \A n \in N : n + 1 \in N
  PROVE  N = Nat
<1>. SUFFICES ASSUME Nat \ N # {} PROVE FALSE
  OBVIOUS
<1>. DEFINE m == Min(Nat \ N)
<1>1. m \in Nat \ N /\ \A y \in Nat \ N : m <= y
  BY MinOfNats
<1>. HIDE DEF m
<1>2. m # 0 /\ m - 1 \in Nat
  BY <1>1
<1>3. m - 1 \in N
  BY <1>1, <1>2
<1>4. (m - 1) + 1 \in N
  BY <1>3
<1>. QED
  BY <1>1, <1>2, <1>4

\* A subset without its first element has one element less.
LEMMA Picked ==
  ASSUME NEW S, IsFiniteSet(S), NEW T \in SUBSET S
  PROVE  /\ IsFiniteSet(T) /\ Cardinality(T) \in Nat
         /\ T # {} => /\ Pick(T) \in T /\ T \ {Pick(T)} \in SUBSET S /\ Cardinality(T) # 0
                      /\ Cardinality(T \ {Pick(T)}) = Cardinality(T) - 1
<1>1. IsFiniteSet(T) /\ Cardinality(T) \in Nat
  BY FS_Subset, FS_CardinalityType
<1>2. T # {} => Pick(T) \in T
  BY DEF Pick
<1>3. T # {} => Cardinality(T) # 0
  BY <1>1, FS_EmptySet
<1>. QED
  BY <1>1, <1>2, <1>3, FS_RemoveElement

\* Induction for the subsets of a finite set.
LEMMA SubsetSets ==
  ASSUME NEW S, IsFiniteSet(S), NEW G, {} \in G,
         \A T \in SUBSET S : T # {} /\ T \ {Pick(T)} \in G => T \in G
  PROVE  \A T \in SUBSET S : T \in G
<1>. DEFINE N == {n \in Nat : \A T \in SUBSET S : Cardinality(T) = n => T \in G}
<1>1. 0 \in N
  BY Picked
<1>2. ASSUME NEW n \in N PROVE n + 1 \in N
  <2>1. ASSUME NEW T \in SUBSET S, Cardinality(T) = n + 1 PROVE T \in G
    <3>1. T # {}
      BY <2>1, FS_EmptySet
    <3>2. T \ {Pick(T)} \in SUBSET S /\ Cardinality(T \ {Pick(T)}) = n
      BY <2>1, <3>1, Picked
    <3>. QED
      BY <3>1, <3>2
  <2>. QED
    BY <2>1
<1>. HIDE DEF N
<1>3. N = Nat
  BY <1>1, <1>2, NatSets DEF N
<1>. QED
  BY <1>3, Picked DEF N

\* There is such a function for a finite set: the fold is well defined.
LEMMA AddsExists ==
  ASSUME NEW S, IsFiniteSet(S), NEW f
  PROVE  \E h : Adds(h, f, S)
<1>. DEFINE Small(n) == {T \in SUBSET S : Cardinality(T) <= n}
            Sums(h, n) == h = [T \in Small(n) |-> IF T = {} THEN 0 ELSE f[Pick(T)] + h[T \ {Pick(T)}]]
            N == {n \in Nat : \E h : Sums(h, n)}
<1>1. 0 \in N
  <2>. DEFINE z == [T \in Small(0) |-> 0]
  <2>1. ASSUME NEW T \in Small(0) PROVE T = {}
    <3>1. Cardinality(T) \in Nat /\ Cardinality(T) <= 0 /\ (T # {} => Cardinality(T) # 0)
      BY Picked
    <3>. QED
      BY <3>1
  <2>2. Sums(z, 0)
    BY <2>1
  <2>. QED
    BY <2>2
<1>2. ASSUME NEW n \in N PROVE n + 1 \in N
  <2>1. PICK h : Sums(h, n)
    BY <1>2
  <2>. DEFINE k == [T \in Small(n + 1) |-> IF T = {} THEN 0 ELSE f[Pick(T)] + h[T \ {Pick(T)}]]
  <2>2. \A T \in Small(n + 1) : T # {} => T \ {Pick(T)} \in Small(n)
    BY Picked
  <2>3. ASSUME NEW T \in Small(n) PROVE T \in Small(n + 1)
    <3>1. Cardinality(T) \in Nat /\ Cardinality(T) <= n
      BY Picked
    <3>. QED
      BY <3>1
  <2>4. \A T \in Small(n) : k[T] = h[T]
    BY <2>1, <2>3
  <2>5. Sums(k, n + 1)
    BY <2>2, <2>4
  <2>. HIDE DEF Sums, k
  <2>. QED
    BY <2>5
<1>3. N = Nat
  <2>. HIDE DEF N
  <2>1. N \in SUBSET Nat
    BY DEF N
  <2>. QED
    BY <1>1, <1>2, <2>1, NatSets
<1>4. Cardinality(S) \in N
  BY <1>3, FS_CardinalityType
<1>5. Small(Cardinality(S)) = SUBSET S
  BY FS_Subset
<1>. QED
  BY <1>4, <1>5 DEF Adds

\* So a total is computed element by element.
LEMMA TotalAdds ==
  ASSUME NEW S, IsFiniteSet(S), NEW f
  PROVE  \E h : Total(f, S) = h[S] /\ SumsUp(h, f, S)
<1>1. Total(f, S) = (CHOOSE h : Adds(h, f, S))[S]
  BY DEF Total, MapThenSumSet, MapThenFoldSet, Adds, Pick
<1>2. Adds(CHOOSE h : Adds(h, f, S), f, S)
  BY AddsExists
<1>3. SumsUp(CHOOSE h : Adds(h, f, S), f, S)
  BY <1>2 DEF Adds, SumsUp
<1>. QED
  BY <1>1, <1>3

\* Adding number by number adds the totals.
LEMMA TotalPlus ==
  ASSUME NEW S, IsFiniteSet(S), NEW f \in [S -> Nat], NEW d \in [S -> Nat], NEW g \in [S -> Nat],
         \A s \in S : g[s] = f[s] + d[s]
  PROVE  /\ Total(f, S) \in Nat /\ Total(d, S) \in Nat
         /\ Total(g, S) = Total(f, S) + Total(d, S)
<1>1. PICK a : Total(f, S) = a[S] /\ SumsUp(a, f, S)
  BY TotalAdds
<1>2. PICK b : Total(d, S) = b[S] /\ SumsUp(b, d, S)
  BY TotalAdds
<1>3. PICK c : Total(g, S) = c[S] /\ SumsUp(c, g, S)
  BY TotalAdds
<1>. DEFINE G == {T \in SUBSET S : a[T] \in Nat /\ b[T] \in Nat /\ c[T] = a[T] + b[T]}
<1>4. {} \in G
  <2>1. a[{}] = 0 /\ b[{}] = 0 /\ c[{}] = 0
    BY <1>1, <1>2, <1>3 DEF SumsUp
  <2>. QED
    BY <2>1
<1>5. ASSUME NEW T \in SUBSET S, T # {}, T \ {Pick(T)} \in G PROVE T \in G
  <2>1. Pick(T) \in S
    BY <1>5, Picked
  <2>2. /\ f[Pick(T)] \in Nat /\ d[Pick(T)] \in Nat /\ g[Pick(T)] = f[Pick(T)] + d[Pick(T)]
    BY <2>1
  <2>3. /\ a[T] = f[Pick(T)] + a[T \ {Pick(T)}] /\ b[T] = d[Pick(T)] + b[T \ {Pick(T)}]
        /\ c[T] = g[Pick(T)] + c[T \ {Pick(T)}]
    BY <1>1, <1>2, <1>3, <1>5 DEF SumsUp
  <2>. QED
    BY <1>5, <2>2, <2>3
<1>6. S \in G
  <2>. HIDE DEF G
  <2>. QED
    BY <1>4, <1>5, SubsetSets
<1>. QED
  BY <1>1, <1>2, <1>3, <1>6

\* One number, and zero elsewhere.
LEMMA TotalOfOne ==
  ASSUME NEW S, IsFiniteSet(S), NEW t \in S, NEW n \in Nat
  PROVE  Total([s \in S |-> IF s = t THEN n ELSE 0], S) = n
<1>. DEFINE d == [s \in S |-> IF s = t THEN n ELSE 0]
<1>1. PICK b : Total(d, S) = b[S] /\ SumsUp(b, d, S)
  BY TotalAdds
<1>. DEFINE G == {T \in SUBSET S : b[T] = IF t \in T THEN n ELSE 0}
<1>2. {} \in G
  BY <1>1 DEF SumsUp
<1>3. ASSUME NEW T \in SUBSET S, T # {}, T \ {Pick(T)} \in G PROVE T \in G
  <2>1. Pick(T) \in S /\ Pick(T) \in T
    BY <1>3, Picked
  <2>2. b[T] = d[Pick(T)] + b[T \ {Pick(T)}]
    BY <1>1, <1>3 DEF SumsUp
  <2>3. CASE Pick(T) = t
    BY <1>3, <2>1, <2>2, <2>3
  <2>4. CASE Pick(T) # t
    BY <1>3, <2>1, <2>2, <2>4
  <2>. QED
    BY <2>3, <2>4
<1>4. S \in G
  <2>. HIDE DEF G
  <2>. QED
    BY <1>2, <1>3, SubsetSets
<1>. QED
  BY <1>1, <1>4

\* One for each member of A: the total is how many there are.
LEMMA TotalOfSet ==
  ASSUME NEW S, IsFiniteSet(S), NEW A \in SUBSET S
  PROVE  Total([s \in S |-> IF s \in A THEN 1 ELSE 0], S) = Cardinality(A)
<1>. DEFINE d == [s \in S |-> IF s \in A THEN 1 ELSE 0]
<1>1. PICK b : Total(d, S) = b[S] /\ SumsUp(b, d, S)
  BY TotalAdds
<1>. DEFINE G == {T \in SUBSET S : b[T] = Cardinality(A \cap T)}
<1>2. {} \in G
  BY <1>1, FS_EmptySet DEF SumsUp
<1>3. ASSUME NEW T \in SUBSET S, T # {}, T \ {Pick(T)} \in G PROVE T \in G
  <2>1. Pick(T) \in S /\ Pick(T) \in T
    BY <1>3, Picked
  <2>2. b[T] = d[Pick(T)] + b[T \ {Pick(T)}]
    BY <1>1, <1>3 DEF SumsUp
  <2>3. A \cap (T \ {Pick(T)}) = (A \cap T) \ {Pick(T)}
    OBVIOUS
  <2>4. IsFiniteSet(A \cap T) /\ Cardinality(A \cap T) \in Nat
    BY FS_Subset, FS_CardinalityType
  <2>5. Cardinality((A \cap T) \ {Pick(T)})
          = IF Pick(T) \in A \cap T THEN Cardinality(A \cap T) - 1 ELSE Cardinality(A \cap T)
    BY <2>4, FS_RemoveElement
  <2>6. b[T \ {Pick(T)}] = Cardinality((A \cap T) \ {Pick(T)})
    BY <1>3, <2>3
  <2>7. d[Pick(T)] = IF Pick(T) \in A THEN 1 ELSE 0
    BY <2>1
  <2>. HIDE DEF d
  <2>. QED
    BY <2>1, <2>2, <2>4, <2>5, <2>6, <2>7
<1>4. S \in G
  <2>. HIDE DEF G
  <2>. QED
    BY <1>2, <1>3, SubsetSets
<1>5. A \cap S = A
  OBVIOUS
<1>. QED
  BY <1>1, <1>4, <1>5

\* Zero everywhere.
LEMMA TotalOfNone ==
  ASSUME NEW S, IsFiniteSet(S)
  PROVE  Total([s \in S |-> 0], S) = 0
<1>1. [s \in S |-> IF s \in {} THEN 1 ELSE 0] = [s \in S |-> 0]
  OBVIOUS
<1>. QED
  BY <1>1, TotalOfSet, FS_EmptySet

(***************************************************************************)
(* Protected drops are recorded.                                           *)
(***************************************************************************)
\* ProtectedDropsRecorded, with a name for its sums.
Sacrifices ==
  Total(protectedDrops, Subs) = ledger["protected-drop"] + Total(owed, Threads)
\* A publisher owes records only between the critical section and the records.
SacrificeInv ==
  /\ TypeInv /\ Sacrifices
  /\ \A t \in Threads : owed[t] # 0 => pc[t] = "record"
\* No sacrifice is made or recorded, and who was about to record one still is.
AccountsStay ==
  /\ UNCHANGED <<protectedDrops, owed>> /\ ledger'["protected-drop"] = ledger["protected-drop"]
  /\ \A t \in Threads : pc[t] = "record" => pc'[t] = "record"

\* Only the critical section and the records touch the account.
LEMMA AccountMoves ==
  ASSUME TypeInv, [Next]_vars
  PROVE  AccountsStay \/ \E t \in Publishers \cup Tickers : PublishOffer(t) \/ PublishRecord(t)
<1>. USE DEF AccountsStay, coreVars, subVars, brokerVars, fanoutVars, threadVars, clientVars, boundVars
<1>t. pc \in [Threads -> Places] /\ ledger \in [Codes -> Nat]
  BY DEF TypeInv, TypeOK, ThreadTypes, CoreTypes
<1>l. \A c \in Codes, n \in Nat : Record(c, n) /\ c # "protected-drop" => ledger'["protected-drop"] = ledger["protected-drop"]
  BY <1>t DEF Record
<1>c. {"publish-after-close", "schema-invalid", "screened", "broker-unavailable", "broker-recovered"} \subseteq Codes
      /\ 1 \in Nat
  BY DEF Codes
<1>d. Disable => ledger'["protected-drop"] = ledger["protected-drop"]
  BY <1>l, <1>c DEF Disable
<1>g. \A t, to : Goto(t, to) /\ pc[t] # "record" => \A u \in Threads : pc[u] = "record" => pc'[u] = "record"
  BY <1>t DEF Goto
<1>e. ASSUME NEW t \in Threads, Ensure(t) PROVE AccountsStay
  <2>1. CASE EnsureCheck(t)
    BY <2>1, <1>g DEF EnsureCheck, GiveUp
  <2>2. CASE EnsureCore(t)
    BY <2>2, <1>g, <1>d DEF EnsureCore, GiveUp
  <2>3. CASE EnsureClient(t)
    BY <2>3, <1>g DEF EnsureClient, GiveUp
  <2>4. CASE BuildClient(t)
    BY <2>4, <1>g, <1>d DEF BuildClient, GiveUp
  <2>. QED
    BY <1>e, <2>1, <2>2, <2>3, <2>4 DEF Ensure
<1>p. ASSUME NEW t \in Publishers \cup Tickers, Publish(t), ~PublishOffer(t), ~PublishRecord(t)
      PROVE  AccountsStay
  <2>1. CASE PublishCheck(t)
    BY <2>1, <1>g, <1>l, <1>c DEF PublishCheck, Refuse
  <2>2. CASE FanoutCheck(t)
    BY <2>2, <1>g DEF FanoutCheck, Return
  <2>3. CASE Enqueue(t)
    BY <2>3, <1>g DEF Enqueue, Return
  <2>4. CASE Spawn(t)
    BY <2>4, <1>t DEF Spawn
  <2>. QED
    BY <1>p, <2>1, <2>2, <2>3, <2>4 DEF Publish
<1>1. ASSUME NEW t \in Publishers, NEW k \in Publishes[t], NEW v \in Verdicts, PublishCall(t, k, v)
      PROVE  AccountsStay
  BY <1>1, <1>g DEF PublishCall
<1>2. ASSUME NEW s \in Subs, Subscribe(s) \/ Consume(s) \/ Disconnect(s)
      PROVE  AccountsStay
  BY <1>2 DEF Subscribe, Consume, Get, EndOfStream, Disconnect, Unsubscribe
<1>3. CASE WorkerStep
  <2>1. CASE WorkerExit \/ WorkerPop \/ WorkerCheck \/ WorkerEnvelope \/ WorkerSend
    BY <2>1, <1>g DEF WorkerExit, WorkerPop, WorkerCheck, WorkerEnvelope, WorkerSend, GiveUp
  <2>2. CASE WorkerFailed
    BY <2>2, <1>g, <1>d DEF WorkerFailed, GiveUp
  <2>. QED
    BY <1>3, <1>e, <2>1, <2>2, Actors DEF WorkerStep
<1>4. ASSUME NEW t \in Tickers, TickCall(t) \/ Tick(t), ~Publish(t) PROVE AccountsStay
  <2>1. CASE TickCall(t) \/ TickRetry(t) \/ TickBeat(t)
    BY <2>1, <1>g DEF TickCall, TickRetry, TickBeat
  <2>2. CASE TickRecovered(t)
    BY <2>2, <1>g, <1>l, <1>c DEF TickRecovered
  <2>. QED
    BY <1>4, <1>e, <2>1, <2>2, Actors DEF Tick
<1>5. ASSUME NEW c \in Closers, CloseCall(c) \/ Close(c) PROVE AccountsStay
  BY <1>5, <1>g DEF Close, CloseCall, CloseTake, CloseSubs, CloseStop, CloseJoin, CloseCount,
     CloseClient, CloseRelease, CloseStep
<1>6. CASE UNCHANGED vars
  BY <1>6 DEF vars
<1>. QED
  BY <1>p, <1>1, <1>2, <1>3, <1>4, <1>5, <1>6 DEF Next, Tick

\* What one critical section adds to the drops of all subscriptions, it adds to what its
\* publisher owes; the records move that to the ledger.
LEMMA SacrificeStep == SacrificeInv /\ [Next]_vars => SacrificeInv'
<1>. SUFFICES ASSUME SacrificeInv, [Next]_vars PROVE SacrificeInv'
  OBVIOUS
<1>t. TypeInv /\ TypeInv'
  BY StepType DEF SacrificeInv
<1>u. /\ protectedDrops \in [Subs -> Nat] /\ protectedDrops' \in [Subs -> Nat]
      /\ owed \in [Threads -> Nat] /\ owed' \in [Threads -> Nat] /\ pc \in [Threads -> Places]
      /\ ledger \in [Codes -> Nat] /\ "protected-drop" \in Codes
      /\ IsFiniteSet(Subs) /\ IsFiniteSet(Threads)
  BY <1>t, BusAssumption DEF TypeInv, TypeOK, SubTypes, ThreadTypes, CoreTypes, Codes
<1>n. Total(owed, Threads) \in Nat
  <2>. DEFINE z == [t \in Threads |-> 0]
  <2>1. z \in [Threads -> Nat] /\ \A t \in Threads : owed[t] = owed[t] + z[t]
    BY <1>u
  <2>. HIDE DEF z
  <2>. QED
    BY <1>u, <2>1, TotalPlus
<1>1. CASE AccountsStay
  <2>1. Total(protectedDrops', Subs) = Total(protectedDrops, Subs)
    BY <1>1 DEF AccountsStay
  <2>2. Total(owed', Threads) = Total(owed, Threads)
    BY <1>1 DEF AccountsStay
  <2>. QED
    BY <1>1, <1>t, <2>1, <2>2 DEF AccountsStay, SacrificeInv, Sacrifices
<1>2. ASSUME NEW t \in Publishers \cup Tickers, PublishOffer(t) PROVE SacrificeInv'
  <2>. DEFINE e == [seq |-> seq + 1, kind |-> arg[t].kind, by |-> t]
              n == Cardinality(Sacrificing(e))
  <2>0. t \in Threads /\ pc[t] = "offer" /\ owed[t] = 0
    BY <1>2, Actors DEF PublishOffer, SacrificeInv
  <2>1. CASE UNCHANGED <<hand, owed, subVars>> /\ Refuse(t) /\ Record("screened", 1)
    <3>1. ledger'["protected-drop"] = ledger["protected-drop"]
      BY <1>u, <2>1 DEF Record
    <3>2. \A u \in Threads : pc[u] = "record" => pc'[u] = "record"
      BY <1>u, <2>0, <2>1 DEF Refuse, Goto
    <3>3. AccountsStay
      BY <2>1, <3>1, <3>2 DEF AccountsStay, subVars
    <3>. QED
      BY <1>1, <3>3
  <2>2. CASE /\ Offer(e) /\ owed' = [owed EXCEPT ![t] = n] /\ UNCHANGED ledger
             /\ Goto(t, IF n > 0 THEN "record" ELSE "fanout")
    <3>. DEFINE A == Sacrificing(e)
                d == [s \in Subs |-> IF s \in A THEN 1 ELSE 0]
                o == [u \in Threads |-> IF u = t THEN n ELSE 0]
    <3>1. A \in SUBSET Subs /\ A \subseteq Takers(e)
      BY <1>t DEF Sacrificing, Takers, TypeInv, TypeOK, CoreTypes
    <3>2. n \in Nat
      BY <1>u, <3>1, FS_Subset, FS_CardinalityType
    <3>3. \A s \in Subs : protectedDrops'[s] = protectedDrops[s] + d[s]
      <4>1. ASSUME NEW s \in Subs PROVE protectedDrops'[s] = protectedDrops[s] + d[s]
        <5>1. protectedDrops'[s] = IF s \in Takers(e)
                THEN protectedDrops[s] + (IF ShedProtected(queue[s], SubCapacity, e) THEN 1 ELSE 0)
                ELSE protectedDrops[s]
          BY <2>2 DEF Offer
        <5>2. s \in A <=> s \in Takers(e) /\ ShedProtected(queue[s], SubCapacity, e)
          BY DEF Sacrificing
        <5>3. protectedDrops[s] \in Nat /\ d[s] = IF s \in A THEN 1 ELSE 0
          BY <1>u
        <5>. HIDE DEF A, d
        <5>. QED
          BY <3>1, <5>1, <5>2, <5>3
      <4>. QED
        BY <4>1
    <3>4. \A u \in Threads : owed'[u] = owed[u] + o[u]
      BY <1>u, <2>0, <2>2, <3>2
    <3>5. d \in [Subs -> Nat] /\ o \in [Threads -> Nat]
      BY <3>2
    <3>6. Total(d, Subs) = n /\ Total(o, Threads) = n
      BY <1>u, <2>0, <3>1, <3>2, TotalOfSet, TotalOfOne
    <3>. HIDE DEF d, o, n
    <3>7. Total(protectedDrops', Subs) = Total(protectedDrops, Subs) + n
      BY <1>u, <3>3, <3>5, <3>6, TotalPlus
    <3>8. Total(owed', Threads) = Total(owed, Threads) + n
      BY <1>u, <3>4, <3>5, <3>6, TotalPlus
    <3>9. Sacrifices'
      BY <1>n, <1>u, <2>2, <3>2, <3>7, <3>8 DEF Sacrifices, SacrificeInv
    <3>10. ASSUME NEW u \in Threads, owed'[u] # 0 PROVE pc'[u] = "record"
      <4>1. CASE u = t
        BY <1>u, <2>2, <3>2, <3>10, <4>1 DEF Goto
      <4>2. CASE u # t
        BY <1>u, <2>2, <3>10, <4>2 DEF Goto, SacrificeInv
      <4>. QED
        BY <4>1, <4>2
    <3>. QED
      BY <1>t, <3>9, <3>10 DEF SacrificeInv
  <2>. QED
    BY <1>2, <2>1, <2>2 DEF PublishOffer
<1>3. ASSUME NEW t \in Publishers \cup Tickers, PublishRecord(t) PROVE SacrificeInv'
  <2>. DEFINE n == owed[t]
              o == [u \in Threads |-> IF u = t THEN n ELSE 0]
  <2>0. t \in Threads /\ n \in Nat
    BY <1>u, Actors
  <2>1. /\ ledger'["protected-drop"] = ledger["protected-drop"] + n
        /\ UNCHANGED protectedDrops /\ owed' = [owed EXCEPT ![t] = 0] /\ Goto(t, "fanout")
    BY <1>3, <1>u DEF PublishRecord, Record, subVars
  <2>2. \A u \in Threads : owed[u] = owed'[u] + o[u]
    BY <1>u, <2>0, <2>1
  <2>3. o \in [Threads -> Nat]
    BY <2>0
  <2>4. Total(o, Threads) = n
    BY <1>u, <2>0, TotalOfOne
  <2>. HIDE DEF o, n
  <2>5. Total(owed, Threads) = Total(owed', Threads) + n /\ Total(owed', Threads) \in Nat
    BY <1>u, <2>2, <2>3, <2>4, TotalPlus
  <2>6. Total(protectedDrops', Subs) = Total(protectedDrops, Subs)
    BY <2>1
  <2>7. Sacrifices'
    BY <1>u, <2>0, <2>1, <2>5, <2>6 DEF Sacrifices, SacrificeInv
  <2>8. \A u \in Threads : owed'[u] # 0 => pc'[u] = "record"
    BY <1>u, <2>0, <2>1 DEF Goto, SacrificeInv
  <2>. QED
    BY <1>t, <2>7, <2>8 DEF SacrificeInv
<1>. QED
  BY <1>t, <1>1, <1>2, <1>3, AccountMoves

\* Nothing was shed, nothing is owed.
LEMMA SacrificeBegin == Init => SacrificeInv
<1>. SUFFICES ASSUME Init PROVE SacrificeInv
  OBVIOUS
<1>1. /\ protectedDrops = [s \in Subs |-> 0] /\ owed = [t \in Threads |-> 0]
      /\ ledger["protected-drop"] = 0
  BY DEF Init, Codes
<1>2. Total(protectedDrops, Subs) = 0 /\ Total(owed, Threads) = 0
  BY <1>1, BusAssumption, TotalOfNone
<1>3. \A t \in Threads : owed[t] = 0
  BY <1>1
<1>. QED
  BY <1>1, <1>2, <1>3, InitType DEF SacrificeInv, Sacrifices

\* A protected event is never shed silently, for any number of subscriptions and racing
\* publishers: each sacrifice is in the ledger, or is owed by the publisher that is about
\* to write it.
THEOREM SacrificesRecorded == Spec => []ProtectedDropsRecorded
<1>1. SacrificeInv => ProtectedDropsRecorded
  BY DEF SacrificeInv, Sacrifices, Total, ProtectedDropsRecorded
<1>. QED
  BY SacrificeBegin, SacrificeStep, <1>1, PTL DEF Spec

(***************************************************************************)
(* Down-periods of the broker, and the stop.                               *)
(***************************************************************************)
\* The tickers between a retry of the broker and what came of it.
Recovering == {t \in Tickers : pc[t] \in Sending}
\* A down-period begins with a record and ends with a retry; each recovery has a retry of
\* its own.
DownInv ==
  /\ TypeInv
  /\ ledger["broker-unavailable"] = retries + (IF brokerDisabled THEN 1 ELSE 0)
  /\ ledger["broker-recovered"] + Cardinality(Recovering) <= retries

\* No retry, no recovery.
SameRecoveries ==
  retries' = retries /\ ledger'["broker-recovered"] = ledger["broker-recovered"] /\ Recovering' \subseteq Recovering
\* The broker stays as it is.
SameDown == brokerDisabled' = brokerDisabled /\ ledger'["broker-unavailable"] = ledger["broker-unavailable"]
\* The broker is marked as disabled, with one record.
GoesDown ==
  ~brokerDisabled /\ brokerDisabled' /\ ledger'["broker-unavailable"] = ledger["broker-unavailable"] + 1

\* Steps other than a retry and a recovery leave the broker as it is or disable it.
LEMMA DownMoves ==
  ASSUME TypeInv, [Next]_vars
  PROVE  \/ SameRecoveries /\ (SameDown \/ GoesDown)
         \/ \E t \in Tickers : TickRetry(t) \/ TickRecovered(t)
<1>. USE DEF coreVars, subVars, brokerVars, fanoutVars, threadVars, clientVars, boundVars
<1>. DEFINE Quiet == SameRecoveries /\ SameDown
            Moves == SameRecoveries /\ (SameDown \/ GoesDown)
<1>t. pc \in [Threads -> Places] /\ ledger \in [Codes -> Nat] /\ Tickers \subseteq Threads
  BY DEF TypeInv, TypeOK, ThreadTypes, CoreTypes, Threads
<1>g. \A t, to : Goto(t, to) /\ (t \in Tickers /\ to \in Sending => pc[t] \in Sending) => Recovering' \subseteq Recovering
  BY <1>t DEF Goto, Recovering
<1>l. \A c \in {"publish-after-close", "schema-invalid", "screened", "protected-drop"}, n \in Nat :
        Record(c, n) => /\ ledger'["broker-unavailable"] = ledger["broker-unavailable"]
                        /\ ledger'["broker-recovered"] = ledger["broker-recovered"]
  BY <1>t DEF Record, Codes
<1>d. Disable => (SameDown \/ GoesDown) /\ ledger'["broker-recovered"] = ledger["broker-recovered"]
  BY <1>t DEF Disable, Record, Codes, SameDown, GoesDown
<1>o. 1 \in Nat /\ \A t \in Threads : owed[t] \in Nat
  BY DEF TypeInv, TypeOK, ThreadTypes
<1>b. \A t \in Threads : Worker \notin Tickers /\ \A c \in Closers : c \notin Tickers
  BY BusAssumption DEF Threads
<1>e. ASSUME NEW t \in Threads, Ensure(t) PROVE Moves
  <2>1. CASE EnsureCheck(t)
    <3>1. SameDown /\ retries' = retries /\ ledger' = ledger /\ Recovering' \subseteq Recovering
      BY <2>1, <1>g DEF EnsureCheck, GiveUp, SameDown, Sending
    <3>. QED
      BY <3>1 DEF SameRecoveries
  <2>2. CASE EnsureCore(t)
    <3>1. retries' = retries /\ Recovering' \subseteq Recovering
      BY <2>2, <1>g DEF EnsureCore, GiveUp, Sending
    <3>2. Disable \/ UNCHANGED <<brokerDisabled, ledger>>
      BY <2>2 DEF EnsureCore
    <3>. QED
      BY <3>1, <3>2, <1>d DEF SameRecoveries, SameDown
  <2>3. CASE EnsureClient(t)
    <3>1. SameDown /\ retries' = retries /\ ledger' = ledger /\ Recovering' \subseteq Recovering
      BY <2>3, <1>g DEF EnsureClient, GiveUp, SameDown, Sending
    <3>. QED
      BY <3>1 DEF SameRecoveries
  <2>4. CASE BuildClient(t)
    <3>1. retries' = retries /\ Recovering' \subseteq Recovering
      BY <2>4, <1>g DEF BuildClient, GiveUp, Sending
    <3>2. Disable \/ UNCHANGED <<brokerDisabled, ledger>>
      BY <2>4 DEF BuildClient
    <3>. QED
      BY <3>1, <3>2, <1>d DEF SameRecoveries, SameDown
  <2>. QED
    BY <1>e, <2>1, <2>2, <2>3, <2>4 DEF Ensure
<1>p. ASSUME NEW t \in Publishers \cup Tickers, Publish(t) PROVE Quiet
  <2>1. CASE PublishCheck(t) \/ PublishOffer(t) \/ PublishRecord(t)
    <3>1. Recovering' \subseteq Recovering
      BY <2>1, <1>g DEF PublishCheck, PublishOffer, PublishRecord, Refuse, Sending
    <3>2. /\ ledger'["broker-unavailable"] = ledger["broker-unavailable"]
          /\ ledger'["broker-recovered"] = ledger["broker-recovered"]
      BY <2>1, <1>l, <1>o, Actors DEF PublishCheck, PublishOffer, PublishRecord
    <3>3. retries' = retries /\ brokerDisabled' = brokerDisabled
      BY <2>1 DEF PublishCheck, PublishOffer, PublishRecord
    <3>. QED
      BY <3>1, <3>2, <3>3 DEF SameRecoveries, SameDown
  <2>2. CASE FanoutCheck(t) \/ Enqueue(t)
    <3>1. Recovering' \subseteq Recovering
      BY <2>2, <1>g DEF FanoutCheck, Enqueue, Return, Sending
    <3>. QED
      BY <2>2, <3>1 DEF FanoutCheck, Enqueue, SameRecoveries, SameDown
  <2>3. CASE Spawn(t)
    <3>1. Recovering' \subseteq Recovering
      BY <2>3, <1>t, <1>b, Actors DEF Spawn, Sending, Recovering
    <3>. QED
      BY <2>3, <3>1 DEF Spawn, SameRecoveries, SameDown
  <2>. QED
    BY <1>p, <2>1, <2>2, <2>3 DEF Publish
<1>1. ASSUME NEW t \in Publishers, NEW k \in Publishes[t], NEW v \in Verdicts, PublishCall(t, k, v)
      PROVE  Quiet
  <2>1. Recovering' \subseteq Recovering
    BY <1>1, <1>g DEF PublishCall, Sending
  <2>. QED
    BY <1>1, <2>1 DEF PublishCall, SameRecoveries, SameDown
<1>2. ASSUME NEW s \in Subs, Subscribe(s) \/ Consume(s) \/ Disconnect(s)
      PROVE  Quiet
  BY <1>2 DEF Subscribe, Consume, Get, EndOfStream, Disconnect, Unsubscribe, SameRecoveries,
     SameDown, Recovering
<1>3. ASSUME WorkerStep PROVE Moves
  <2>1. CASE WorkerExit \/ WorkerPop \/ WorkerCheck \/ WorkerEnvelope \/ WorkerSend
    <3>1. Recovering' \subseteq Recovering
      BY <2>1, <1>g, <1>b, Actors DEF WorkerExit, WorkerPop, WorkerCheck, WorkerEnvelope, WorkerSend,
         GiveUp
    <3>. QED
      BY <2>1, <3>1 DEF WorkerExit, WorkerPop, WorkerCheck, WorkerEnvelope, WorkerSend,
         SameRecoveries, SameDown
  <2>2. CASE WorkerFailed
    <3>1. Recovering' \subseteq Recovering
      BY <2>2, <1>g, <1>b, Actors DEF WorkerFailed, GiveUp
    <3>. QED
      BY <2>2, <3>1, <1>d DEF WorkerFailed, SameRecoveries
  <2>. QED
    BY <1>3, <1>e, <2>1, <2>2, Actors DEF WorkerStep
<1>4. ASSUME NEW t \in Tickers, TickCall(t) \/ TickBeat(t) PROVE Quiet
  <2>1. Recovering' \subseteq Recovering
    BY <1>4, <1>g DEF TickCall, TickBeat, Sending
  <2>. QED
    BY <1>4, <2>1 DEF TickCall, TickBeat, SameRecoveries, SameDown
<1>5. ASSUME NEW c \in Closers, CloseCall(c) \/ Close(c) PROVE Quiet
  <2>1. Recovering' \subseteq Recovering
    BY <1>5, <1>g, <1>b, Actors DEF Close, CloseCall, CloseTake, CloseSubs, CloseStop, CloseJoin,
       CloseCount,
       CloseClient, CloseRelease, CloseStep
  <2>. QED
    BY <1>5, <2>1 DEF Close, CloseCall, CloseTake, CloseSubs, CloseStop, CloseJoin, CloseCount,
       CloseClient, CloseRelease, SameRecoveries, SameDown
<1>6. ASSUME UNCHANGED vars PROVE Moves
  BY <1>6 DEF vars, SameRecoveries, SameDown, Recovering
<1>. HIDE DEF Quiet
<1>7. Quiet => Moves
  BY DEF Quiet
<1>. HIDE DEF Moves
<1>8. ASSUME NEW t \in Tickers, TickCall(t) \/ Tick(t), ~TickRetry(t), ~TickRecovered(t) PROVE Moves
  BY <1>8, <1>e, <1>p, <1>4, <1>7, <1>t DEF Tick
<1>9. Moves \/ \E t \in Tickers : TickRetry(t) \/ TickRecovered(t)
  BY <1>p, <1>1, <1>2, <1>3, <1>5, <1>6, <1>7, <1>8 DEF Next
<1>. QED
  BY <1>9 DEF Moves

\* No step disturbs DownInv.
LEMMA DownStep == DownInv /\ [Next]_vars => DownInv'
<1>. SUFFICES ASSUME DownInv, [Next]_vars PROVE DownInv'
  OBVIOUS
<1>t. TypeInv /\ TypeInv'
  BY StepType DEF DownInv
<1>u. /\ pc \in [Threads -> Places] /\ ledger \in [Codes -> Nat] /\ retries \in Nat
      /\ ledger["broker-recovered"] \in Nat /\ ledger["broker-unavailable"] \in Nat /\ ledger'["broker-recovered"] \in Nat
      /\ Tickers \subseteq Threads /\ IsFiniteSet(Threads)
  BY <1>t, BusAssumption DEF TypeInv, TypeOK, ThreadTypes, CoreTypes, FanoutTypes, Threads, Codes
<1>f. IsFiniteSet(Recovering) /\ IsFiniteSet(Recovering')
  BY <1>u, FS_Subset DEF Recovering
<1>c. Cardinality(Recovering) \in Nat /\ Cardinality(Recovering') \in Nat
  BY <1>f, FS_CardinalityType
<1>1. CASE SameRecoveries /\ (SameDown \/ GoesDown)
  <2>1. Cardinality(Recovering') <= Cardinality(Recovering)
    BY <1>1, <1>f, FS_Subset DEF SameRecoveries
  <2>2. ledger'["broker-recovered"] + Cardinality(Recovering') <= retries'
    BY <1>1, <1>u, <1>c, <2>1 DEF SameRecoveries, DownInv
  <2>3. ledger'["broker-unavailable"] = retries' + (IF brokerDisabled' THEN 1 ELSE 0)
    BY <1>1, <1>u DEF SameRecoveries, SameDown, GoesDown, DownInv
  <2>. QED
    BY <1>t, <2>2, <2>3 DEF DownInv
<1>2. ASSUME NEW t \in Tickers, TickRetry(t) PROVE DownInv'
  <2>1. CASE Goto(t, "beat") /\ UNCHANGED <<brokerDisabled, client, core, retries>>
    <3>1. Recovering' \subseteq Recovering
      BY <1>u, <2>1 DEF Recovering, Goto, Sending
    <3>. QED
      BY <1>1, <1>2, <2>1, <3>1 DEF TickRetry, SameRecoveries, SameDown, coreVars
  <2>2. CASE /\ brokerDisabled /\ ~brokerDisabled' /\ retries' = retries + 1 /\ Goto(t, "coreCheck")
             /\ UNCHANGED ledger
    <3>1. Recovering' \subseteq Recovering \cup {t}
      BY <1>u, <2>2 DEF Recovering, Goto
    <3>2. IsFiniteSet(Recovering \cup {t}) /\ Cardinality(Recovering \cup {t}) \in Nat
          /\ Cardinality(Recovering \cup {t}) <= Cardinality(Recovering) + 1
      <4>1. /\ IsFiniteSet(Recovering \cup {t})
            /\ Cardinality(Recovering \cup {t}) = IF t \in Recovering THEN Cardinality(Recovering)
                                                 ELSE Cardinality(Recovering) + 1
        BY <1>f, FS_AddElement
      <4>. QED
        BY <1>c, <4>1
    <3>3. Cardinality(Recovering') <= Cardinality(Recovering \cup {t})
      BY <3>1, <3>2, FS_Subset
    <3>4. ledger'["broker-recovered"] + Cardinality(Recovering') <= retries'
      BY <1>u, <1>c, <2>2, <3>2, <3>3 DEF DownInv
    <3>5. ledger'["broker-unavailable"] = retries' + (IF brokerDisabled' THEN 1 ELSE 0)
      BY <1>u, <2>2 DEF DownInv
    <3>. QED
      BY <1>t, <3>4, <3>5 DEF DownInv
  <2>. QED
    BY <1>2, <2>1, <2>2 DEF TickRetry, coreVars
<1>3. ASSUME NEW t \in Tickers, TickRecovered(t) PROVE DownInv'
  <2>1. /\ pc[t] = "ready" /\ Goto(t, "beat") /\ UNCHANGED <<retries, brokerDisabled>>
        /\ ledger'["broker-recovered"] = ledger["broker-recovered"] + 1
        /\ ledger'["broker-unavailable"] = ledger["broker-unavailable"]
    BY <1>3, <1>u DEF TickRecovered, Record, Codes, brokerVars, boundVars
  <2>2. t \in Recovering /\ Recovering' = Recovering \ {t}
    BY <1>u, <2>1 DEF Recovering, Goto, Sending
  <2>3. Cardinality(Recovering') = Cardinality(Recovering) - 1
    BY <1>f, <2>2, FS_RemoveElement
  <2>4. ledger'["broker-recovered"] + Cardinality(Recovering') <= retries'
    BY <1>u, <1>c, <2>1, <2>3 DEF DownInv
  <2>5. ledger'["broker-unavailable"] = retries' + (IF brokerDisabled' THEN 1 ELSE 0)
    BY <2>1 DEF DownInv
  <2>. QED
    BY <1>t, <2>4, <2>5 DEF DownInv
<1>. QED
  BY <1>t, <1>1, <1>2, <1>3, DownMoves

\* No retry was made, and the broker is not disabled.
LEMMA DownBegin == Init => DownInv
<1>. SUFFICES ASSUME Init PROVE DownInv
  OBVIOUS
<1>1. Recovering = {}
  BY BusAssumption DEF Init, Recovering, Sending, Threads
<1>2. Cardinality(Recovering) = 0
  BY <1>1, FS_EmptySet
<1>3. /\ ledger["broker-unavailable"] = 0 /\ ledger["broker-recovered"] = 0 /\ retries = 0 /\ ~brokerDisabled
  BY DEF Init, Codes
<1>. QED
  BY <1>2, <1>3, InitType DEF DownInv

\* Each down-period is recorded once, whoever notices it first and however many notice, and
\* there are no more recoveries than retries.
THEOREM DownPeriodsRecordedOnce == Spec => []DownPeriodsCounted
<1>1. DownInv => DownPeriodsCounted
  <2>. SUFFICES ASSUME DownInv PROVE DownPeriodsCounted
    OBVIOUS
  <2>1. IsFiniteSet(Recovering)
    BY BusAssumption, FS_Subset DEF Recovering, Threads
  <2>2. Cardinality(Recovering) \in Nat
    BY <2>1, FS_CardinalityType
  <2>3. ledger["broker-recovered"] \in Nat /\ retries \in Nat
    BY DEF DownInv, TypeInv, TypeOK, CoreTypes, FanoutTypes, Codes
  <2>. QED
    BY <2>2, <2>3 DEF DownInv, DownPeriodsCounted
<1>. QED
  BY DownBegin, DownStep, <1>1, PTL DEF Spec

(***************************************************************************)
(* The order in which the broker gets events.                              *)
(***************************************************************************)
\* If one publisher published both, a was first.
Before(a, b) == a.by = b.by => a.seq < b.seq
\* All of a queue was published before e, or by others.
AllBefore(q, e) == \A i \in 1 .. Len(q) : Before(q[i], e)
\* A queue holds each publisher's events in the order they were published.
InTurn(q) == \A i, j \in 1 .. Len(q) : i < j => Before(q[i], q[j])
\* A publisher with an event that has a number and has not reached the broker's queue.
Numbered == {"record", "fanout", "enqueue"}

\* That event is the publisher's own, and younger than all of its events that went ahead.
HandInv(t) ==
  pc[t] \in Numbered =>
    /\ hand[t].by = t /\ hand[t].seq <= seq /\ AllBefore(sent, hand[t]) /\ AllBefore(brokerQueue, hand[t])
    /\ pc[Worker] \in Sending => Before(hand[Worker], hand[t])
\* From what was sent over the worker's hand and the backlog to what publishers hold, each
\* publisher's events are in order, and none is there twice.
SendInv ==
  /\ TypeInv
  /\ InTurn(sent) /\ InTurn(brokerQueue)
  /\ \A j \in 1 .. Len(brokerQueue) : AllBefore(sent, brokerQueue[j]) /\ brokerQueue[j].seq <= seq
  /\ \A i \in 1 .. Len(sent) : sent[i].seq <= seq
  /\ pc[Worker] \in Sending =>
       /\ hand[Worker].seq <= seq /\ AllBefore(sent, hand[Worker])
       /\ \A j \in 1 .. Len(brokerQueue) : Before(hand[Worker], brokerQueue[j])
  /\ \A t \in Publishers \cup Tickers : HandInv(t)

\* Nobody takes an event in hand.
HandsStay ==
  /\ \A t \in Publishers \cup Tickers : pc'[t] \in Numbered => pc[t] \in Numbered /\ hand'[t] = hand[t]
  /\ pc'[Worker] \in Sending => pc[Worker] \in Sending /\ hand'[Worker] = hand[Worker]
\* Nothing moves towards the broker.
SendStays == UNCHANGED <<sent, brokerQueue>> /\ seq <= seq' /\ HandsStay

\* Taking one event out leaves the others in order.
LEMMA RemoveInTurn ==
  ASSUME NEW E, NEW p \in Seq(E), InTurn(p), NEW n \in 1 .. Len(p)
  PROVE  InTurn(RemoveAt(p, n))
<1>. DEFINE r == RemoveAt(p, n)
<1>0. Len(p) \in Nat
  BY LenProperties
<1>1. /\ Len(r) = Len(p) - 1
      /\ \A i \in 1 .. Len(p) - 1 : r[i] = IF i < n THEN p[i] ELSE p[i + 1]
  BY RemoveAtProps
<1>. HIDE DEF r
<1>2. ASSUME NEW i \in 1 .. Len(r), NEW j \in 1 .. Len(r), i < j
      PROVE  Before(r[i], r[j])
  <2>. DEFINE k(m) == IF m < n THEN m ELSE m + 1
  <2>1. /\ k(i) \in 1 .. Len(p) /\ k(j) \in 1 .. Len(p) /\ k(i) < k(j)
    BY <1>0, <1>1, <1>2
  <2>2. r[i] = p[k(i)] /\ r[j] = p[k(j)]
    BY <1>0, <1>1
  <2>3. Before(p[k(i)], p[k(j)])
    BY <2>1 DEF InTurn
  <2>. QED
    BY <2>2, <2>3
<1>. QED
  BY <1>2 DEF InTurn, r

\* A younger event of its publisher at the end leaves the order.
LEMMA AppendInTurn ==
  ASSUME NEW E, NEW q \in Seq(E), NEW e \in E, InTurn(q), AllBefore(q, e)
  PROVE  InTurn(Append(q, e))
<1>. DEFINE p == Append(q, e)
<1>0. Len(q) \in Nat
  BY LenProperties
<1>1. /\ Len(p) = Len(q) + 1
      /\ \A i \in 1 .. Len(q) : p[i] = q[i]
      /\ p[Len(q) + 1] = e
  BY AppendProperties
<1>. HIDE DEF p
<1>2. ASSUME NEW i \in 1 .. Len(p), NEW j \in 1 .. Len(p), i < j
      PROVE  Before(p[i], p[j])
  <2>1. i \in 1 .. Len(q) /\ (j = Len(q) + 1 \/ j \in 1 .. Len(q))
    BY <1>0, <1>1, <1>2
  <2>. QED
    BY <1>1, <1>2, <2>1 DEF InTurn, AllBefore
<1>. QED
  BY <1>2 DEF InTurn, p

\* So does an offer, whatever it sheds.
LEMMA OfferedInTurn ==
  ASSUME NEW E, NEW q \in Seq(E), NEW e \in E, NEW maxsize \in Nat, InTurn(q), AllBefore(q, e)
  PROVE  InTurn(Offered(q, maxsize, e))
<1>1. /\ Append(q, e) \in Seq(E) /\ Len(Append(q, e)) = Len(q) + 1
      /\ InTurn(Append(q, e))
  BY AppendProperties, AppendInTurn
<1>2. Victim(q, e) \in 1 .. Len(Append(q, e))
  BY <1>1, VictimInRange
<1>3. InTurn(RemoveAt(Append(q, e), Victim(q, e)))
  BY <1>1, <1>2, RemoveInTurn
<1>. QED
  BY <1>1, <1>3 DEF Offered

\* Events move by the critical section, the enqueue, the worker's pop and its send.
LEMMA SendMoves ==
  ASSUME TypeInv, [Next]_vars
  PROVE  \/ SendStays \/ WorkerPop \/ WorkerSend
         \/ \E t \in Publishers \cup Tickers : PublishOffer(t) \/ Enqueue(t)
<1>. USE DEF coreVars, subVars, brokerVars, fanoutVars, threadVars, clientVars, boundVars
<1>t. pc \in [Threads -> Places] /\ hand \in [Threads -> Events \cup {NoEvent}] /\ seq \in Nat
  BY DEF TypeInv, TypeOK, ThreadTypes, CoreTypes
<1>. DEFINE From(t, to) ==
              /\ t \in Publishers \cup Tickers /\ to \in Numbered => pc[t] \in Numbered /\ hand' = hand
              /\ t = Worker /\ to \in Sending => pc[Worker] \in Sending /\ hand' = hand
            Keeps(t) == hand' = hand \/ hand' = [hand EXCEPT ![t] = NoEvent]
<1>g. ASSUME NEW t \in Threads, NEW to, Goto(t, to), From(t, to), Keeps(t) PROVE HandsStay
  <2>1. ASSUME NEW u \in Publishers \cup Tickers, pc'[u] \in Numbered
        PROVE  pc[u] \in Numbered /\ hand'[u] = hand[u]
    BY <1>g, <1>t, <2>1, Actors DEF Goto
  <2>2. ASSUME pc'[Worker] \in Sending PROVE pc[Worker] \in Sending /\ hand'[Worker] = hand[Worker]
    BY <1>g, <1>t, <2>2, Actors DEF Goto
  <2>. QED
    BY <2>1, <2>2 DEF HandsStay
<1>q. pc' = pc /\ hand' = hand => HandsStay
  BY DEF HandsStay
<1>s. UNCHANGED <<sent, brokerQueue, seq>> /\ HandsStay => SendStays
  BY <1>t DEF SendStays
<1>e. ASSUME NEW t \in Tickers \cup {Worker}, Ensure(t) PROVE SendStays
  <2>0. t \in Threads /\ UNCHANGED <<sent, brokerQueue, seq>>
    BY <1>e, Actors DEF Ensure, EnsureCheck, EnsureCore, EnsureClient, BuildClient
  <2>1. \E to \in {"wait", "beat", "core", "client", "clientCheck", "ready", "build"} :
           Goto(t, to) /\ Keeps(t) /\ (to \in {"wait", "beat"} \/ hand' = hand) /\ pc[t] \in Sending
    BY <1>e DEF Ensure, EnsureCheck, EnsureCore, EnsureClient, BuildClient, GiveUp, Sending
  <2>2. PICK to \in {"wait", "beat", "core", "client", "clientCheck", "ready", "build"} :
           Goto(t, to) /\ Keeps(t) /\ (to \in {"wait", "beat"} \/ hand' = hand) /\ pc[t] \in Sending
    BY <2>1
  <2>3. From(t, to)
    BY <2>2 DEF Numbered, Sending
  <2>. QED
    BY <1>g, <1>s, <2>0, <2>2, <2>3
<1>p. ASSUME NEW t \in Publishers \cup Tickers, PublishCheck(t) \/ PublishRecord(t) \/ FanoutCheck(t)
      PROVE  SendStays
  <2>0. t \in Threads /\ t # Worker /\ UNCHANGED <<sent, brokerQueue, seq>>
    BY <1>p, Actors DEF PublishCheck, PublishRecord, FanoutCheck
  <2>1. \E to \in {"idle", "offer", "fanout", "enqueue"} :
           Goto(t, to) /\ Keeps(t) /\ (to \in {"idle", "offer"} \/ (hand' = hand /\ pc[t] \in Numbered))
    BY <1>p DEF PublishCheck, PublishRecord, FanoutCheck, Refuse, Return, Numbered
  <2>2. PICK to \in {"idle", "offer", "fanout", "enqueue"} :
           Goto(t, to) /\ Keeps(t) /\ (to \in {"idle", "offer"} \/ (hand' = hand /\ pc[t] \in Numbered))
    BY <2>1
  <2>3. From(t, to)
    BY <2>0, <2>2 DEF Numbered
  <2>. QED
    BY <1>g, <1>s, <2>0, <2>2, <2>3
<1>n. ASSUME NEW t \in Publishers \cup Tickers, Spawn(t) PROVE SendStays
  <2>0. t \in Threads /\ t # Worker /\ UNCHANGED <<sent, brokerQueue, seq>>
    BY <1>n, Actors DEF Spawn
  <2>1. \A u \in Threads : pc'[u] = pc[u] \/ pc'[u] \in {"idle", "wait"}
    BY <1>n, <1>t DEF Spawn
  <2>2. \A u \in Threads : u # t => hand'[u] = hand[u]
    BY <1>n, <1>t DEF Spawn
  <2>3. pc'[t] = "idle"
    BY <1>n, <1>t, <2>0 DEF Spawn
  <2>4. HandsStay
    BY <2>0, <2>1, <2>2, <2>3, Actors DEF HandsStay, Numbered, Sending
  <2>. QED
    BY <1>s, <2>0, <2>4
<1>1. ASSUME NEW t \in Publishers, NEW k \in Publishes[t], NEW v \in Verdicts, PublishCall(t, k, v)
      PROVE  SendStays
  <2>1. /\ Goto(t, "publish") /\ Keeps(t) /\ From(t, "publish") /\ t \in Threads
        /\ UNCHANGED <<sent, brokerQueue, seq>>
    BY <1>1, Actors DEF PublishCall, Numbered, Sending
  <2>. QED
    BY <1>g, <1>s, <2>1
<1>2. ASSUME NEW s \in Subs, Subscribe(s) \/ Consume(s) \/ Disconnect(s)
      PROVE  SendStays
  <2>1. UNCHANGED <<sent, brokerQueue, seq, pc, hand>>
    BY <1>2 DEF Subscribe, Consume, Get, EndOfStream, Disconnect, Unsubscribe
  <2>. QED
    BY <1>q, <1>s, <2>1
<1>3. ASSUME WorkerStep, ~WorkerPop, ~WorkerSend PROVE SendStays
  <2>1. CASE WorkerExit \/ WorkerCheck \/ WorkerEnvelope \/ WorkerFailed
    <3>0. UNCHANGED <<sent, brokerQueue, seq>>
      BY <2>1 DEF WorkerExit, WorkerCheck, WorkerEnvelope, WorkerFailed
    <3>1. \E to \in {"exited", "wait", "enabled", "coreCheck", "send"} :
             Goto(Worker, to) /\ Keeps(Worker)
             /\ (to \in {"exited", "wait"} \/ (hand' = hand /\ pc[Worker] \in Sending))
      BY <2>1 DEF WorkerExit, WorkerCheck, WorkerEnvelope, WorkerFailed, GiveUp, Sending
    <3>2. PICK to \in {"exited", "wait", "enabled", "coreCheck", "send"} :
             Goto(Worker, to) /\ Keeps(Worker)
             /\ (to \in {"exited", "wait"} \/ (hand' = hand /\ pc[Worker] \in Sending))
      BY <3>1
    <3>3. From(Worker, to)
      BY <3>2, Actors DEF Numbered, Sending
    <3>. QED
      BY <1>g, <1>s, <3>0, <3>2, <3>3, Actors
  <2>. QED
    BY <1>3, <1>e, <2>1 DEF WorkerStep
<1>4. ASSUME NEW t \in Tickers, TickCall(t) \/ TickRetry(t) \/ TickRecovered(t) \/ TickBeat(t)
      PROVE  SendStays
  <2>0. t \in Threads /\ t # Worker /\ UNCHANGED <<sent, brokerQueue, seq>>
    BY <1>4, Actors DEF TickCall, TickRetry, TickRecovered, TickBeat
  <2>1. \E to \in {"retry", "beat", "coreCheck", "idle", "publish"} : Goto(t, to) /\ Keeps(t)
    BY <1>4 DEF TickCall, TickRetry, TickRecovered, TickBeat
  <2>2. PICK to \in {"retry", "beat", "coreCheck", "idle", "publish"} : Goto(t, to) /\ Keeps(t)
    BY <2>1
  <2>3. From(t, to)
    BY <2>0, <2>2 DEF Numbered
  <2>. QED
    BY <1>g, <1>s, <2>0, <2>2, <2>3
<1>5. ASSUME NEW c \in Closers, CloseCall(c) \/ Close(c) PROVE SendStays
  <2>0. c \in Threads /\ c # Worker /\ c \notin Publishers \cup Tickers /\ UNCHANGED <<sent, brokerQueue, seq>>
    BY <1>5, BusAssumption, Actors DEF Close, CloseCall, CloseTake, CloseSubs, CloseStop, CloseJoin,
       CloseCount,
       CloseClient, CloseRelease
  <2>1. \E to : Goto(c, to) /\ Keeps(c)
    BY <1>5 DEF Close, CloseCall, CloseTake, CloseSubs, CloseStop, CloseJoin, CloseCount,
       CloseClient, CloseRelease, CloseStep
  <2>2. PICK to : Goto(c, to) /\ Keeps(c)
    BY <2>1
  <2>3. From(c, to)
    BY <2>0
  <2>. QED
    BY <1>g, <1>s, <2>0, <2>2, <2>3
<1>6. CASE UNCHANGED vars
  BY <1>6, <1>q, <1>s DEF vars
<1>7. ASSUME NEW t \in Tickers, TickCall(t) \/ Tick(t), ~PublishOffer(t), ~Enqueue(t) PROVE SendStays
  BY <1>7, <1>4, <1>e, <1>p, <1>n DEF Tick, Publish
<1>8. ASSUME NEW t \in Publishers, Publish(t), ~PublishOffer(t), ~Enqueue(t) PROVE SendStays
  BY <1>8, <1>p, <1>n DEF Publish
<1>. QED
  BY <1>1, <1>2, <1>3, <1>5, <1>6, <1>7, <1>8 DEF Next

\* No step disturbs SendInv.
LEMMA SendStep == SendInv /\ [Next]_vars => SendInv'
<1>. SUFFICES ASSUME SendInv, [Next]_vars PROVE SendInv'
  OBVIOUS
<1>t. TypeInv /\ TypeInv'
  BY StepType DEF SendInv
<1>u. /\ pc \in [Threads -> Places] /\ hand \in [Threads -> Events \cup {NoEvent}] /\ seq \in Nat /\ seq' \in Nat
      /\ brokerQueue \in Seq(Events) /\ sent \in Seq(Events)
      /\ Len(brokerQueue) \in Nat /\ Len(sent) \in Nat
      /\ \A i \in 1 .. Len(sent) : sent[i].seq \in Nat
      /\ \A i \in 1 .. Len(brokerQueue) : brokerQueue[i].seq \in Nat
  <2>1. \A e \in Events : e.seq \in Nat
    BY DEF Events
  <2>. QED
    BY <1>t, <2>1, LenProperties, ElementOfSeq DEF TypeInv, TypeOK, ThreadTypes, CoreTypes, FanoutTypes
<1>w. pc[Worker] \in Sending => hand[Worker] \in Events /\ hand[Worker].seq \in Nat
  BY <1>t DEF TypeInv, Held, Events
<1>p. \A t \in Publishers \cup Tickers :
        pc[t] \in Numbered => hand[t] \in Events /\ hand[t].seq \in Nat
  BY <1>t, Actors DEF TypeInv, Held, Events, Numbered, Publishing
<1>i. /\ InTurn(sent) /\ InTurn(brokerQueue)
      /\ \A j \in 1 .. Len(brokerQueue) : AllBefore(sent, brokerQueue[j]) /\ brokerQueue[j].seq <= seq
      /\ \A i \in 1 .. Len(sent) : sent[i].seq <= seq
      /\ \A t \in Publishers \cup Tickers : HandInv(t)
  BY DEF SendInv
<1>k. pc[Worker] \in Sending =>
        /\ hand[Worker].seq <= seq /\ AllBefore(sent, hand[Worker])
        /\ \A j \in 1 .. Len(brokerQueue) : Before(hand[Worker], brokerQueue[j])
  BY DEF SendInv
<1>1. CASE SendStays
  <2>0. /\ sent' = sent /\ brokerQueue' = brokerQueue /\ seq <= seq' /\ HandsStay
    BY <1>1 DEF SendStays
  <2>1. ASSUME NEW t \in Publishers \cup Tickers PROVE HandInv(t)'
    <3>1. SUFFICES ASSUME pc'[t] \in Numbered
                   PROVE  /\ hand'[t].by = t /\ hand'[t].seq <= seq' /\ AllBefore(sent', hand'[t])
                          /\ AllBefore(brokerQueue', hand'[t])
                          /\ pc'[Worker] \in Sending => Before(hand'[Worker], hand'[t])
      BY DEF HandInv
    <3>2. pc[t] \in Numbered /\ hand'[t] = hand[t]
      BY <2>0, <3>1 DEF HandsStay
    <3>3. hand[t].by = t /\ hand[t].seq <= seq /\ AllBefore(sent, hand[t]) /\ AllBefore(brokerQueue, hand[t])
          /\ (pc[Worker] \in Sending => Before(hand[Worker], hand[t]))
      BY <1>i, <3>2 DEF HandInv
    <3>4. hand[t].seq <= seq'
      BY <1>u, <1>p, <2>0, <3>2, <3>3
    <3>. QED
      BY <2>0, <3>2, <3>3, <3>4 DEF HandsStay
  <2>2. pc'[Worker] \in Sending =>
          /\ hand'[Worker].seq <= seq' /\ AllBefore(sent', hand'[Worker])
          /\ \A j \in 1 .. Len(brokerQueue') : Before(hand'[Worker], brokerQueue'[j])
    <3>1. SUFFICES ASSUME pc'[Worker] \in Sending
                   PROVE  /\ hand'[Worker].seq <= seq' /\ AllBefore(sent', hand'[Worker])
                          /\ \A j \in 1 .. Len(brokerQueue') : Before(hand'[Worker], brokerQueue'[j])
      OBVIOUS
    <3>2. pc[Worker] \in Sending /\ hand'[Worker] = hand[Worker]
      BY <2>0, <3>1 DEF HandsStay
    <3>3. hand[Worker].seq <= seq'
      BY <1>u, <1>w, <1>k, <2>0, <3>2
    <3>. QED
      BY <1>k, <2>0, <3>2, <3>3
  <2>3. /\ \A j \in 1 .. Len(brokerQueue) : brokerQueue[j].seq <= seq'
        /\ \A i \in 1 .. Len(sent) : sent[i].seq <= seq'
    BY <1>u, <1>i, <2>0
  <2>. QED
    BY <1>t, <1>i, <2>0, <2>1, <2>2, <2>3 DEF SendInv
<1>2. CASE WorkerPop
  <2>0. /\ brokerQueue # <<>> /\ brokerQueue' = Tail(brokerQueue) /\ sent' = sent /\ seq' = seq
        /\ hand'[Worker] = Head(brokerQueue) /\ \A t \in Threads : t # Worker => hand'[t] = hand[t]
        /\ \A t \in Threads : t # Worker => pc'[t] = pc[t]
    BY <1>2, <1>u, Actors DEF WorkerPop, Goto, coreVars
  <2>1. /\ Len(brokerQueue') = Len(brokerQueue) - 1 /\ Len(brokerQueue) >= 1 /\ Len(brokerQueue') \in Nat
        /\ Head(brokerQueue) = brokerQueue[1]
        /\ \A i \in 1 .. Len(brokerQueue') : brokerQueue'[i] = brokerQueue[i + 1]
    BY <1>u, <2>0, HeadTailProperties, EmptySeq
  <2>2. 1 \in 1 .. Len(brokerQueue) /\ \A i \in 1 .. Len(brokerQueue') : i + 1 \in 1 .. Len(brokerQueue) /\ 1 < i + 1
    BY <1>u, <2>1
  <2>3. InTurn(brokerQueue')
    <3>1. ASSUME NEW i \in 1 .. Len(brokerQueue'), NEW j \in 1 .. Len(brokerQueue'), i < j
          PROVE  Before(brokerQueue'[i], brokerQueue'[j])
      <4>1. i + 1 < j + 1
        BY <1>u, <2>1, <3>1
      <4>. QED
        BY <1>i, <2>1, <2>2, <4>1 DEF InTurn
    <3>. QED
      BY <3>1 DEF InTurn
  <2>4. \A j \in 1 .. Len(brokerQueue') :
          /\ AllBefore(sent', brokerQueue'[j]) /\ brokerQueue'[j].seq <= seq'
          /\ Before(hand'[Worker], brokerQueue'[j])
    BY <1>i, <2>0, <2>1, <2>2 DEF InTurn
  <2>5. hand'[Worker].seq <= seq' /\ AllBefore(sent', hand'[Worker])
    BY <1>i, <2>0, <2>1, <2>2
  <2>6. ASSUME NEW t \in Publishers \cup Tickers PROVE HandInv(t)'
    <3>0. hand'[t] = hand[t] /\ pc'[t] = pc[t]
      BY <2>0, Actors
    <3>1. SUFFICES ASSUME pc[t] \in Numbered
                   PROVE  /\ hand[t].by = t /\ hand[t].seq <= seq' /\ AllBefore(sent', hand[t])
                          /\ AllBefore(brokerQueue', hand[t])
                          /\ Before(hand'[Worker], hand[t])
      BY <3>0 DEF HandInv
    <3>2. /\ hand[t].by = t /\ hand[t].seq <= seq /\ AllBefore(sent, hand[t])
          /\ \A i \in 1 .. Len(brokerQueue) : Before(brokerQueue[i], hand[t])
      BY <1>i, <3>1 DEF HandInv, AllBefore
    <3>3. AllBefore(brokerQueue', hand[t])
      BY <2>1, <2>2, <3>2 DEF AllBefore
    <3>4. Before(hand'[Worker], hand[t])
      BY <2>0, <2>1, <2>2, <3>2
    <3>. QED
      BY <2>0, <3>2, <3>3, <3>4
  <2>. QED
    BY <1>t, <1>i, <2>0, <2>3, <2>4, <2>5, <2>6 DEF SendInv
<1>3. CASE WorkerSend
  <2>1. CASE Goto(Worker, "failed") /\ UNCHANGED <<sent, hand>>
    <3>1. HandsStay
      BY <1>3, <1>u, <2>1, Actors DEF WorkerSend, Goto, HandsStay, Sending
    <3>. QED
      BY <1>1, <1>3, <1>u, <2>1, <3>1 DEF WorkerSend, SendStays, coreVars, fanoutVars
  <2>2. CASE sent' = Append(sent, hand[Worker]) /\ GiveUp(Worker)
    <3>0. /\ pc[Worker] \in Sending /\ pc'[Worker] = "wait" /\ brokerQueue' = brokerQueue /\ seq' = seq
          /\ \A t \in Threads : t # Worker => hand'[t] = hand[t] /\ pc'[t] = pc[t]
      BY <1>3, <1>u, <2>2, Actors DEF WorkerSend, GiveUp, Goto, Sending, coreVars, fanoutVars
    <3>1. hand[Worker] \in Events /\ AllBefore(sent, hand[Worker]) /\ hand[Worker].seq <= seq
      BY <1>w, <1>k, <3>0
    <3>2. InTurn(sent')
      BY <1>u, <1>i, <2>2, <3>1, AppendInTurn
    <3>3. /\ Len(sent') = Len(sent) + 1 /\ sent'[Len(sent) + 1] = hand[Worker]
          /\ \A i \in 1 .. Len(sent) : sent'[i] = sent[i]
      BY <1>u, <2>2, <3>1, AppendProperties
    <3>4. \A i \in 1 .. Len(sent') : sent'[i] = hand[Worker] \/ (i \in 1 .. Len(sent) /\ sent'[i] = sent[i])
      BY <1>u, <3>3
    <3>5. \A e : AllBefore(sent, e) /\ Before(hand[Worker], e) => AllBefore(sent', e)
      BY <3>4 DEF AllBefore
    <3>6. \A i \in 1 .. Len(sent') : sent'[i].seq <= seq'
      BY <1>i, <3>0, <3>1, <3>4
    <3>7. \A j \in 1 .. Len(brokerQueue') : AllBefore(sent', brokerQueue'[j]) /\ brokerQueue'[j].seq <= seq'
      BY <1>i, <1>k, <3>0, <3>5
    <3>8. pc'[Worker] \notin Sending
      BY <3>0 DEF Sending
    <3>9. ASSUME NEW t \in Publishers \cup Tickers PROVE HandInv(t)'
      <4>0. hand'[t] = hand[t] /\ pc'[t] = pc[t]
        BY <3>0, Actors
      <4>1. pc[t] \in Numbered => /\ hand[t].by = t /\ hand[t].seq <= seq /\ AllBefore(sent', hand[t])
                                  /\ AllBefore(brokerQueue, hand[t])
        BY <1>i, <3>0, <3>5 DEF HandInv
      <4>. QED
        BY <3>0, <3>8, <4>0, <4>1 DEF HandInv
    <3>. QED
      BY <1>t, <1>i, <3>0, <3>2, <3>6, <3>7, <3>8, <3>9 DEF SendInv
  <2>. QED
    BY <1>3, <2>1, <2>2 DEF WorkerSend
<1>4. ASSUME NEW t \in Publishers \cup Tickers, PublishOffer(t) PROVE SendInv'
  <2>. DEFINE e == [seq |-> seq + 1, kind |-> arg[t].kind, by |-> t]
  <2>0. /\ t \in Threads /\ t # Worker /\ seq' = seq + 1 /\ UNCHANGED <<sent, brokerQueue>>
    BY <1>4, Actors DEF PublishOffer, fanoutVars
  <2>1. CASE Refuse(t) /\ UNCHANGED hand
    <3>1. HandsStay
      BY <1>u, <2>0, <2>1, Actors DEF Refuse, Goto, HandsStay, Numbered
    <3>. QED
      BY <1>1, <1>u, <2>0, <3>1 DEF SendStays
  <2>2. CASE hand' = [hand EXCEPT ![t] = e] /\ \E to : Goto(t, to)
    <3>0. /\ hand'[t] = e /\ \A u \in Threads : u # t => hand'[u] = hand[u] /\ pc'[u] = pc[u]
      BY <1>u, <2>0, <2>2 DEF Goto
    <3>1. e.seq = seq + 1 /\ e.by = t
      OBVIOUS
    <3>. HIDE DEF e
    <3>2. ASSUME NEW x, x.seq \in Nat, x.seq <= seq PROVE Before(x, e)
      BY <1>u, <3>1, <3>2 DEF Before
    <3>3. AllBefore(sent, e) /\ AllBefore(brokerQueue, e)
      BY <1>u, <1>i, <3>2 DEF AllBefore
    <3>4. pc[Worker] \in Sending => Before(hand[Worker], e)
      BY <1>w, <1>k, <3>2
    <3>5. ASSUME NEW u \in Publishers \cup Tickers PROVE HandInv(u)'
      <4>0. hand'[Worker] = hand[Worker] /\ pc'[Worker] = pc[Worker]
        BY <2>0, <3>0, Actors
      <4>1. CASE u = t
        <5>1. e.seq <= seq'
          BY <1>u, <2>0, <3>1
        <5>. QED
          BY <2>0, <3>0, <3>1, <3>3, <3>4, <4>0, <4>1, <5>1 DEF HandInv
      <4>2. CASE u # t
        <5>0. hand'[u] = hand[u] /\ pc'[u] = pc[u]
          BY <3>0, <4>2, Actors
        <5>1. pc[u] \in Numbered => hand[u].seq <= seq'
          BY <1>u, <1>i, <1>p, <2>0 DEF HandInv
        <5>. QED
          BY <1>i, <2>0, <4>0, <5>0, <5>1 DEF HandInv
      <4>. QED
        BY <4>1, <4>2
    <3>6. /\ \A j \in 1 .. Len(brokerQueue) : brokerQueue[j].seq <= seq'
          /\ \A i \in 1 .. Len(sent) : sent[i].seq <= seq'
          /\ pc[Worker] \in Sending => hand[Worker].seq <= seq'
      BY <1>u, <1>w, <1>i, <1>k, <2>0
    <3>7. hand'[Worker] = hand[Worker] /\ pc'[Worker] = pc[Worker]
      BY <2>0, <3>0, Actors
    <3>. QED
      BY <1>t, <1>i, <1>k, <2>0, <3>5, <3>6, <3>7 DEF SendInv
  <2>. QED
    BY <1>4, <2>1, <2>2 DEF PublishOffer
<1>5. ASSUME NEW t \in Publishers \cup Tickers, Enqueue(t) PROVE SendInv'
  <2>0. /\ t \in Threads /\ t # Worker /\ seq' = seq /\ sent' = sent /\ pc[t] \in Numbered
        /\ brokerQueue' = Offered(brokerQueue, BrokerCapacity, hand[t])
    BY <1>5, Actors DEF Enqueue, Numbered, coreVars
  <2>1. /\ \A u \in Threads : u # t => hand'[u] = hand[u] /\ pc'[u] = pc[u]
        /\ pc'[t] \in {"spawn", "idle"}
    BY <1>5, <1>u, <2>0 DEF Enqueue, Return, Goto
  <2>2. /\ hand[t] \in Events /\ hand[t].by = t /\ hand[t].seq <= seq
        /\ AllBefore(sent, hand[t]) /\ AllBefore(brokerQueue, hand[t])
        /\ pc[Worker] \in Sending => Before(hand[Worker], hand[t])
    BY <1>i, <1>p, <2>0 DEF HandInv
  <2>3. InTurn(brokerQueue')
    BY <1>u, <1>i, <2>0, <2>2, BusAssumption, OfferedInTurn
  <2>4. \A i \in 1 .. Len(brokerQueue') :
          brokerQueue'[i] = hand[t] \/ \E m \in 1 .. Len(brokerQueue) : brokerQueue'[i] = brokerQueue[m]
    BY <1>u, <2>0, <2>2, BusAssumption, OfferedMembers
  <2>5. \A j \in 1 .. Len(brokerQueue') :
          /\ AllBefore(sent', brokerQueue'[j]) /\ brokerQueue'[j].seq <= seq'
          /\ pc[Worker] \in Sending => Before(hand[Worker], brokerQueue'[j])
    BY <1>i, <1>k, <2>0, <2>2, <2>4
  <2>6. ASSUME NEW u \in Publishers \cup Tickers PROVE HandInv(u)'
    <3>0. hand'[Worker] = hand[Worker] /\ pc'[Worker] = pc[Worker]
      BY <2>0, <2>1, Actors
    <3>1. CASE u = t
      BY <2>1, <3>1 DEF HandInv, Numbered
    <3>2. CASE u # t
      <4>0. hand'[u] = hand[u] /\ pc'[u] = pc[u]
        BY <2>1, <3>2, Actors
      <4>1. SUFFICES ASSUME pc[u] \in Numbered PROVE AllBefore(brokerQueue', hand[u])
        BY <1>i, <2>0, <3>0, <4>0 DEF HandInv
      <4>2. hand[u].by = u /\ \A m \in 1 .. Len(brokerQueue) : Before(brokerQueue[m], hand[u])
        BY <1>i, <4>1 DEF HandInv, AllBefore
      <4>3. Before(hand[t], hand[u])
        BY <2>2, <3>2, <4>2 DEF Before
      <4>. QED
        BY <2>4, <4>2, <4>3 DEF AllBefore
    <3>. QED
      BY <3>1, <3>2
  <2>7. hand'[Worker] = hand[Worker] /\ pc'[Worker] = pc[Worker]
    BY <2>0, <2>1, Actors
  <2>. QED
    BY <1>t, <1>i, <1>k, <2>0, <2>3, <2>5, <2>6, <2>7 DEF SendInv
<1>. QED
  BY <1>1, <1>2, <1>3, <1>4, <1>5, <1>t, SendMoves

\* Nothing was published.
LEMMA SendBegin == Init => SendInv
<1>. SUFFICES ASSUME Init PROVE SendInv
  OBVIOUS
<1>1. sent = <<>> /\ brokerQueue = <<>> /\ seq = 0
  BY DEF Init
<1>2. \A t \in Threads : pc[t] \in {"unstarted", "idle"}
  BY DEF Init
<1>3. 1 .. Len(sent) = {} /\ 1 .. Len(brokerQueue) = {}
  BY <1>1
<1>4. pc[Worker] \notin Sending /\ \A t \in Publishers \cup Tickers : pc[t] \notin Numbered
  BY <1>2, Actors DEF Sending, Numbered
<1>. QED
  BY <1>3, <1>4, InitType DEF SendInv, HandInv, InTurn

\* The broker gets no event twice, and each publisher's events in the order it published
\* them, although publishers race for the broker's queue after they have left the critical
\* section.
THEOREM PublishersStayInOrder == Spec => []SentOncePerPublisherInOrder
<1>1. SendInv => SentOncePerPublisherInOrder
  BY DEF SendInv, SentOncePerPublisherInOrder, InTurn, Before
<1>. QED
  BY SendBegin, SendStep, <1>1, PTL DEF Spec

(***************************************************************************)
(* What close() reports.                                                   *)
(***************************************************************************)
Stopped == {"unstarted", "exited"}

\* A closer that counts has set the stop; what it counted was neither sent nor is in the
\* worker's hand; a worker that it found stopped stays so.
ReportInv ==
  /\ SendInv
  /\ \A c \in Closers : pc[c] \in {"join", "count"} => stop
  /\ report.unsent # <<>> \/ report.joined => stop
  /\ report.joined => pc[Worker] \in Stopped
  /\ \A i \in DOMAIN report.unsent :
        /\ \A j \in DOMAIN sent : report.unsent[i] # sent[j]
        /\ pc[Worker] \in Sending => report.unsent[i] # hand[Worker]

\* A step that is not the closer's leaves the stop, the report and the closer alone, and
\* starts no worker after the stop.
LEMMA OthersLeaveReport ==
  ASSUME TypeInv, [Next]_vars, \A c \in Closers : ~CloseCall(c) /\ ~Close(c)
  PROVE  /\ UNCHANGED <<stop, report>>
         /\ \A c \in Closers : pc'[c] = pc[c]
         /\ stop /\ pc[Worker] \in Stopped => pc'[Worker] = pc[Worker]
<1>. DEFINE Leaves == /\ UNCHANGED <<stop, report>> /\ \A c \in Closers : pc'[c] = pc[c]
                      /\ stop /\ pc[Worker] \in Stopped => pc'[Worker] = pc[Worker]
<1>. USE DEF coreVars, subVars, brokerVars, fanoutVars, threadVars, clientVars, boundVars
<1>t. pc \in [Threads -> Places] /\ \A c \in Closers : c \in Threads /\ c # Worker
  BY Actors DEF TypeInv, TypeOK, ThreadTypes
<1>q. \A t \in Publishers \cup Tickers : t \in Threads /\ t # Worker /\ t \notin Closers
  BY Actors, BusAssumption
<1>g. ASSUME NEW t \in Publishers \cup Tickers \cup {Worker}, NEW to, Goto(t, to),
             t = Worker => pc[Worker] \notin Stopped, UNCHANGED <<stop, report>>
      PROVE  Leaves
  <2>1. \A u \in Threads : u # t => pc'[u] = pc[u]
    BY <1>g, <1>t DEF Goto
  <2>2. \A c \in Closers : c # t
    BY <1>t, <1>q
  <2>. QED
    BY <1>g, <1>t, <2>1, <2>2, Actors
<1>e. ASSUME NEW t \in Tickers \cup {Worker}, Ensure(t) PROVE Leaves
  <2>1. UNCHANGED <<stop, report>> /\ (\E to : Goto(t, to)) /\ pc[t] \notin Stopped
    BY <1>e DEF Ensure, EnsureCheck, EnsureCore, EnsureClient, BuildClient, GiveUp, Stopped
  <2>2. PICK to : Goto(t, to)
    BY <2>1
  <2>. QED
    BY <1>g, <2>1, <2>2
<1>p. ASSUME NEW t \in Publishers \cup Tickers, Publish(t) PROVE Leaves
  <2>1. CASE Spawn(t)
    <3>1. UNCHANGED <<stop, report>>
      BY <2>1 DEF Spawn
    <3>2. \A c \in Closers : pc'[c] = pc[c]
      BY <1>t, <1>q, <2>1 DEF Spawn
    <3>3. stop /\ pc[Worker] \in Stopped => pc'[Worker] = pc[Worker]
      BY <1>t, <1>q, <2>1, Actors DEF Spawn
    <3>. QED
      BY <3>1, <3>2, <3>3
  <2>2. CASE ~Spawn(t)
    <3>1. UNCHANGED <<stop, report>> /\ \E to : Goto(t, to)
      BY <1>p, <2>2 DEF Publish, PublishCheck, PublishOffer, PublishRecord, FanoutCheck, Enqueue,
         Refuse, Return
    <3>2. PICK to : Goto(t, to)
      BY <3>1
    <3>. QED
      BY <1>g, <1>q, <3>1, <3>2
  <2>. QED
    BY <2>1, <2>2
<1>1. ASSUME NEW t \in Publishers, NEW k \in Publishes[t], NEW v \in Verdicts, PublishCall(t, k, v)
      PROVE  Leaves
  <2>1. UNCHANGED <<stop, report>> /\ Goto(t, "publish")
    BY <1>1 DEF PublishCall
  <2>. QED
    BY <1>g, <1>q, <2>1
<1>2. ASSUME NEW s \in Subs, Subscribe(s) \/ Consume(s) \/ Disconnect(s) PROVE Leaves
  BY <1>2 DEF Subscribe, Consume, Get, EndOfStream, Disconnect, Unsubscribe
<1>3. ASSUME WorkerStep PROVE Leaves
  <2>1. CASE Ensure(Worker)
    BY <1>e, <2>1
  <2>2. CASE ~Ensure(Worker)
    <3>1. UNCHANGED <<stop, report>> /\ (\E to : Goto(Worker, to)) /\ pc[Worker] \notin Stopped
      BY <1>3, <2>2 DEF WorkerStep, WorkerExit, WorkerPop, WorkerCheck, WorkerEnvelope, WorkerSend, WorkerFailed,
         GiveUp, Stopped
    <3>2. PICK to : Goto(Worker, to)
      BY <3>1
    <3>. QED
      BY <1>g, <3>1, <3>2
  <2>. QED
    BY <2>1, <2>2
<1>4. ASSUME NEW t \in Tickers, TickCall(t) \/ Tick(t) PROVE Leaves
  <2>1. CASE TickCall(t) \/ TickRetry(t) \/ TickRecovered(t) \/ TickBeat(t)
    <3>1. UNCHANGED <<stop, report>> /\ \E to : Goto(t, to)
      BY <2>1 DEF TickCall, TickRetry, TickRecovered, TickBeat
    <3>2. PICK to : Goto(t, to)
      BY <3>1
    <3>. QED
      BY <1>g, <1>q, <3>1, <3>2
  <2>. QED
    BY <1>4, <1>e, <1>p, <2>1 DEF Tick
<1>5. CASE UNCHANGED vars
  BY <1>5 DEF vars
<1>. QED
  BY <1>1, <1>2, <1>3, <1>4, <1>5, <1>p DEF Next

\* What a closer's step does: it reports, or sets the stop, and never sends.
LEMMA CloserReports ==
  ASSUME TypeInv, NEW c \in Closers, CloseCall(c) \/ Close(c)
  PROVE  /\ UNCHANGED <<sent, hand, brokerQueue>> /\ pc'[Worker] = pc[Worker]
         /\ stop => stop'
         /\ pc'[c] \in {"join", "count"} => stop' \/ pc[c] = "join"
         /\ \/ report'.joined = report.joined
            \/ pc[c] = "join" /\ (report'.joined => pc[Worker] \in Stopped)
         /\ \/ report'.unsent = report.unsent
            \/ pc[c] = "count" /\ report'.unsent = brokerQueue
<1>. USE DEF coreVars, subVars, brokerVars, fanoutVars, threadVars, clientVars, boundVars
<1>t. /\ pc \in [Threads -> Places] /\ c \in Threads /\ c # Worker
      /\ report \in [taken : SUBSET Subs, joined : BOOLEAN, unsent : Seq(Events), client : ClientIds \cup {NoClient}]
  BY Actors DEF TypeInv, TypeOK, ThreadTypes, BrokerTypes
<1>1. UNCHANGED <<sent, hand, brokerQueue>> /\ \E to : Goto(c, to)
  BY DEF Close, CloseCall, CloseTake, CloseSubs, CloseStop, CloseJoin, CloseCount, CloseClient,
     CloseRelease, CloseStep
<1>2. pc'[Worker] = pc[Worker]
  BY <1>1, <1>t, Actors DEF Goto
<1>3. stop => stop'
  BY DEF Close, CloseCall, CloseTake, CloseSubs, CloseStop, CloseJoin, CloseCount, CloseClient, CloseRelease
<1>4. pc'[c] \in {"join", "count"} => stop' \/ pc[c] = "join"
  BY <1>t DEF Close, CloseCall, CloseTake, CloseSubs, CloseStop, CloseJoin, CloseCount, CloseClient,
     CloseRelease, CloseStep, Goto
<1>5. \/ report'.joined = report.joined
      \/ pc[c] = "join" /\ (report'.joined => pc[Worker] \in Stopped)
  BY <1>t DEF Close, CloseCall, CloseTake, CloseSubs, CloseStop, CloseJoin, CloseCount, CloseClient,
     CloseRelease, CloseStep, Stopped
<1>6. report'.unsent = report.unsent \/ (pc[c] = "count" /\ report'.unsent = brokerQueue)
  BY <1>t DEF Close, CloseCall, CloseTake, CloseSubs, CloseStop, CloseJoin, CloseCount, CloseClient,
     CloseRelease, CloseStep
<1>. QED
  BY <1>1, <1>2, <1>3, <1>4, <1>5, <1>6

\* No event of the backlog was sent, nor is it in the worker's hand.
LEMMA BacklogIsUnsent ==
  ASSUME SendInv
  PROVE  \A i \in DOMAIN brokerQueue :
            /\ \A j \in DOMAIN sent : brokerQueue[i] # sent[j]
            /\ pc[Worker] \in Sending => brokerQueue[i] # hand[Worker]
<1>1. /\ brokerQueue \in Seq(Events) /\ sent \in Seq(Events)
      /\ DOMAIN brokerQueue = 1 .. Len(brokerQueue) /\ DOMAIN sent = 1 .. Len(sent)
  BY LenProperties DEF SendInv, TypeInv, TypeOK, FanoutTypes
<1>2. \A e \in Events : ~Before(e, e)
  BY DEF Before, Events
<1>3. \A i \in DOMAIN brokerQueue : brokerQueue[i] \in Events
  BY <1>1, ElementOfSeq
<1>. QED
  BY <1>1, <1>2, <1>3 DEF SendInv, AllBefore

\* The report stays true at every step.
LEMMA ReportStep == ReportInv /\ [Next]_vars => ReportInv' /\ [ReportKept]_vars
<1>. SUFFICES ASSUME ReportInv, [Next]_vars PROVE ReportInv' /\ ReportKept
  BY DEF ReportInv
<1>s. SendInv /\ SendInv' /\ TypeInv /\ TypeInv'
  BY SendStep, StepType DEF ReportInv, SendInv
<1>t. /\ sent \in Seq(Events) /\ DOMAIN sent = 1 .. Len(sent) /\ Len(sent) \in Nat
      /\ report.unsent = <<>> => DOMAIN report.unsent = {}
  BY <1>s, LenProperties DEF TypeInv, TypeOK, FanoutTypes
<1>1. ASSUME NEW c \in Closers, CloseCall(c) \/ Close(c) PROVE ReportInv' /\ ReportKept
  <2>1. /\ UNCHANGED <<sent, hand, brokerQueue>> /\ pc'[Worker] = pc[Worker]
        /\ stop => stop'
        /\ pc'[c] \in {"join", "count"} => stop' \/ pc[c] = "join"
        /\ \/ report'.joined = report.joined
           \/ pc[c] = "join" /\ (report'.joined => pc[Worker] \in Stopped)
        /\ \/ report'.unsent = report.unsent
           \/ pc[c] = "count" /\ report'.unsent = brokerQueue
    BY <1>1, <1>s, CloserReports
  <2>2. \A d \in Closers : d = c
    BY BusAssumption
  <2>3. \A d \in Closers : pc'[d] \in {"join", "count"} => stop'
    BY <2>1, <2>2 DEF ReportInv
  <2>4. (report'.unsent # <<>> \/ report'.joined) => stop'
    BY <2>1 DEF ReportInv
  <2>5. report'.joined => pc'[Worker] \in Stopped
    BY <2>1 DEF ReportInv
  <2>6. \A i \in DOMAIN report'.unsent :
           /\ \A j \in DOMAIN sent' : report'.unsent[i] # sent'[j]
           /\ pc'[Worker] \in Sending => report'.unsent[i] # hand'[Worker]
    BY <1>s, <2>1, BacklogIsUnsent DEF ReportInv
  <2>7. ReportKept
    BY <2>1 DEF ReportInv, ReportKept
  <2>. QED
    BY <1>s, <2>3, <2>4, <2>5, <2>6, <2>7 DEF ReportInv
<1>2. ASSUME \A c \in Closers : ~CloseCall(c) /\ ~Close(c) PROVE ReportInv' /\ ReportKept
  <2>1. /\ UNCHANGED <<stop, report>> /\ \A c \in Closers : pc'[c] = pc[c]
        /\ stop /\ pc[Worker] \in Stopped => pc'[Worker] = pc[Worker]
    BY <1>2, <1>s, OthersLeaveReport
  <2>2. report.joined => sent' = sent
    <3>1. report.joined => pc[Worker] # "send"
      BY DEF ReportInv, Stopped
    <3>2. SendStays \/ WorkerPop => sent' = sent
      BY DEF SendStays, WorkerPop
    <3>3. \A t : PublishOffer(t) \/ Enqueue(t) => sent' = sent
      BY DEF PublishOffer, Enqueue
    <3>4. WorkerSend => pc[Worker] = "send"
      BY DEF WorkerSend
    <3>. QED
      BY <1>s, <3>1, <3>2, <3>3, <3>4, SendMoves
  <2>3. ASSUME NEW i \in DOMAIN report.unsent
        PROVE  /\ \A j \in DOMAIN sent' : report.unsent[i] # sent'[j]
               /\ pc'[Worker] \in Sending => report.unsent[i] # hand'[Worker]
    <3>0. stop /\ ~WorkerPop
      BY <1>t, <2>3 DEF ReportInv, WorkerPop
    <3>i. /\ \A j \in DOMAIN sent : report.unsent[i] # sent[j]
          /\ pc[Worker] \in Sending => report.unsent[i] # hand[Worker]
      BY <2>3 DEF ReportInv
    <3>1. CASE SendStays
      BY <3>1, <3>i DEF SendStays, HandsStay
    <3>2. CASE WorkerSend
      <4>1. pc[Worker] \in Sending /\ hand[Worker] \in Events
        BY <1>s, <3>2 DEF WorkerSend, Sending, TypeInv, Held
      <4>2. sent' = Append(sent, hand[Worker]) \/ sent' = sent
        BY <3>2 DEF WorkerSend
      <4>3. \A j \in DOMAIN sent' : sent'[j] = hand[Worker] \/ (j \in DOMAIN sent /\ sent'[j] = sent[j])
        BY <1>t, <4>1, <4>2, AppendProperties, LenProperties
      <4>4. pc'[Worker] \in Sending => hand'[Worker] = hand[Worker]
        BY <1>s, <3>2, Actors DEF WorkerSend, GiveUp, Goto, Sending, TypeInv, TypeOK, ThreadTypes
      <4>. QED
        BY <3>i, <4>1, <4>3, <4>4
    <3>3. ASSUME NEW t \in Publishers \cup Tickers, PublishOffer(t) \/ Enqueue(t)
          PROVE  sent' = sent /\ pc'[Worker] = pc[Worker] /\ hand'[Worker] = hand[Worker]
      BY <1>s, <3>3, Actors DEF PublishOffer, Enqueue, Refuse, Return, Goto, TypeInv, TypeOK, ThreadTypes
    <3>. QED
      BY <1>s, <3>0, <3>i, <3>1, <3>2, <3>3, SendMoves
  <2>4. ReportKept
    BY <2>2, <2>3 DEF ReportKept
  <2>5. report'.joined => pc'[Worker] \in Stopped
    BY <2>1 DEF ReportInv
  <2>. QED
    BY <1>s, <2>1, <2>3, <2>4, <2>5 DEF ReportInv
<1>. QED
  BY <1>1, <1>2

\* Nothing is reported before close() runs.
LEMMA ReportBegin == Init => ReportInv
<1>. SUFFICES ASSUME Init PROVE ReportInv
  OBVIOUS
<1>1. \A c \in Closers : pc[c] = "idle"
  BY Actors DEF Init
<1>2. report.unsent = <<>> /\ ~report.joined /\ DOMAIN report.unsent = {}
  BY DEF Init
<1>. QED
  BY <1>1, <1>2, SendBegin DEF ReportInv

\* What close() reports holds for good: an event it counted as unsent is never sent, nor
\* in a send that began before, and a worker it found stopped sends nothing more -- for any
\* number of publishers that are still on their way to the broker's queue.
THEOREM ReportsStand == Spec => ReportStands
BY ReportBegin, ReportStep, PTL DEF Spec, ReportStands

(***************************************************************************)
(* Every subscription is a lossy stream.                                   *)
(***************************************************************************)
\* The numbers of the events in a queue: the backlog of the stream.
Numbers(q) == {q[i].seq : i \in 1 .. Len(q)}

\* The numbers are natural.
LEMMA EventNumbers ==
  ASSUME NEW q \in Seq(Events)
  PROVE  Len(q) \in Nat /\ \A i \in 1 .. Len(q) : q[i].seq \in Nat
<1>1. \A e \in Events : e.seq \in Nat
  BY DEF Events
<1>. QED
  BY <1>1, LenProperties, ElementOfSeq

\* A queue in order has as many numbers as events.
LEMMA NumbersCounted ==
  ASSUME NEW q \in Seq(Events), Increasing(q)
  PROVE  Numbers(q) \in SUBSET Nat /\ Cardinality(Numbers(q)) = Len(q)
<1>0. Len(q) \in Nat /\ \A i \in 1 .. Len(q) : q[i].seq \in Nat
  BY EventNumbers
<1>. DEFINE f == [i \in 1 .. Len(q) |-> q[i].seq]
<1>1. \A i, j \in 1 .. Len(q) : i # j => q[i].seq # q[j].seq
  <2>1. ASSUME NEW i \in 1 .. Len(q), NEW j \in 1 .. Len(q), i # j PROVE q[i].seq # q[j].seq
    <3>1. i < j \/ j < i
      BY <1>0, <2>1
    <3>2. q[i].seq < q[j].seq \/ q[j].seq < q[i].seq
      BY <3>1 DEF Increasing
    <3>. QED
      BY <1>0, <3>2
  <2>. QED
    BY <2>1
<1>2. f \in Bijection(1 .. Len(q), Numbers(q))
  <2>1. f \in [1 .. Len(q) -> Numbers(q)]
    BY DEF Numbers
  <2>2. \A a, b \in 1 .. Len(q) : f[a] = f[b] => a = b
    BY <1>1
  <2>3. \A t \in Numbers(q) : \E i \in 1 .. Len(q) : f[i] = t
    BY DEF Numbers
  <2>. HIDE DEF f
  <2>. QED
    BY <2>1, <2>2, <2>3 DEF Bijection, Injection, Surjection, IsInjective
<1>3. ExistsBijection(1 .. Len(q), Numbers(q))
  BY <1>2 DEF ExistsBijection
<1>. QED
  BY <1>0, <1>3, FS_CountingElements DEF Numbers

\* Taking one event out takes its number out.
LEMMA RemoveNumbers ==
  ASSUME NEW p \in Seq(Events), Increasing(p), NEW n \in 1 .. Len(p)
  PROVE  Numbers(RemoveAt(p, n)) = Numbers(p) \ {p[n].seq}
<1>. DEFINE r == RemoveAt(p, n)
<1>0. Len(p) \in Nat /\ \A i \in 1 .. Len(p) : p[i].seq \in Nat
  BY EventNumbers
<1>1. /\ Len(r) = Len(p) - 1
      /\ \A i \in 1 .. Len(p) - 1 : r[i] = IF i < n THEN p[i] ELSE p[i + 1]
  BY RemoveAtProps
<1>. HIDE DEF r
<1>2. ASSUME NEW i \in 1 .. Len(p), i # n PROVE p[i].seq # p[n].seq
  <2>1. i < n \/ n < i
    BY <1>0, <1>2
  <2>2. p[i].seq < p[n].seq \/ p[n].seq < p[i].seq
    BY <2>1 DEF Increasing
  <2>. QED
    BY <1>0, <2>2
<1>3. ASSUME NEW x \in Numbers(r) PROVE x \in Numbers(p) \ {p[n].seq}
  <2>1. PICK i \in 1 .. Len(r) : x = r[i].seq
    BY DEF Numbers
  <2>. DEFINE k == IF i < n THEN i ELSE i + 1
  <2>2. k \in 1 .. Len(p) /\ k # n /\ r[i] = p[k]
    BY <1>0, <1>1
  <2>. HIDE DEF k
  <2>. QED
    BY <1>2, <2>1, <2>2 DEF Numbers
<1>4. ASSUME NEW x \in Numbers(p) \ {p[n].seq} PROVE x \in Numbers(r)
  <2>1. PICK i \in 1 .. Len(p) : x = p[i].seq
    BY DEF Numbers
  <2>2. i # n
    BY <2>1
  <2>. DEFINE k == IF i < n THEN i ELSE i - 1
  <2>3. k \in 1 .. Len(r) /\ r[k] = p[i]
    BY <1>0, <1>1, <2>2
  <2>. HIDE DEF k
  <2>. QED
    BY <2>1, <2>3 DEF Numbers
<1>. QED
  BY <1>3, <1>4 DEF r

\* An appended event adds its number.
LEMMA AppendNumbers ==
  ASSUME NEW q \in Seq(Events), NEW e \in Events
  PROVE  Numbers(Append(q, e)) = Numbers(q) \cup {e.seq}
<1>. DEFINE p == Append(q, e)
<1>0. Len(q) \in Nat
  BY LenProperties
<1>1. /\ Len(p) = Len(q) + 1
      /\ \A i \in 1 .. Len(q) : p[i] = q[i]
      /\ p[Len(q) + 1] = e
  BY AppendProperties
<1>. HIDE DEF p
<1>2. 1 .. Len(p) = (1 .. Len(q)) \cup {Len(q) + 1}
  BY <1>0, <1>1
<1>3. Numbers(p) = Numbers(q) \cup {e.seq}
  BY <1>1, <1>2 DEF Numbers
<1>. QED
  BY <1>3 DEF p

\* The head has the smallest number, and a read takes it out.
LEMMA HeadNumbers ==
  ASSUME NEW q \in Seq(Events), Increasing(q), q # <<>>
  PROVE  /\ Numbers(q) # {} /\ Min(Numbers(q)) = Head(q).seq
         /\ Numbers(Tail(q)) = Numbers(q) \ {Head(q).seq}
<1>0. /\ Len(q) \in Nat /\ Len(q) >= 1 /\ Head(q) = q[1]
      /\ Len(Tail(q)) = Len(q) - 1 /\ \A i \in 1 .. Len(Tail(q)) : Tail(q)[i] = q[i + 1]
      /\ \A i \in 1 .. Len(q) : q[i].seq \in Nat
  <2>1. Len(q) \in Nat /\ \A i \in 1 .. Len(q) : q[i].seq \in Nat
    BY EventNumbers
  <2>2. /\ Len(q) >= 1 /\ Head(q) = q[1]
        /\ Len(Tail(q)) = Len(q) - 1 /\ \A i \in 1 .. Len(Tail(q)) : Tail(q)[i] = q[i + 1]
    BY <2>1, HeadTailProperties, EmptySeq
  <2>. QED
    BY <2>1, <2>2
<1>1. \A i \in 1 .. Len(q) : i # 1 => q[1].seq < q[i].seq
  <2>1. ASSUME NEW i \in 1 .. Len(q), i # 1 PROVE 1 \in 1 .. Len(q) /\ 1 < i
    BY <1>0, <2>1
  <2>. QED
    BY <2>1 DEF Increasing
<1>2. q[1].seq \in Numbers(q) /\ \A x \in Numbers(q) : q[1].seq <= x
  BY <1>0, <1>1 DEF Numbers
<1>3. Numbers(q) \in SUBSET Nat
  BY <1>0 DEF Numbers
<1>4. Min(Numbers(q)) = q[1].seq
  <2>1. Min(Numbers(q)) \in Numbers(q) /\ \A y \in Numbers(q) : Min(Numbers(q)) <= y
    BY <1>2, <1>3, MinOfNats
  <2>2. Min(Numbers(q)) \in Nat /\ q[1].seq \in Nat
    BY <1>2, <1>3, <2>1
  <2>. QED
    BY <1>2, <2>1, <2>2
<1>5. ASSUME NEW x \in Numbers(Tail(q)) PROVE x \in Numbers(q) \ {q[1].seq}
  <2>1. PICK i \in 1 .. Len(Tail(q)) : x = Tail(q)[i].seq
    BY DEF Numbers
  <2>2. i + 1 \in 1 .. Len(q) /\ i + 1 # 1 /\ x = q[i + 1].seq
    BY <1>0, <2>1
  <2>. QED
    BY <1>0, <1>1, <2>2 DEF Numbers
<1>6. ASSUME NEW x \in Numbers(q) \ {q[1].seq} PROVE x \in Numbers(Tail(q))
  <2>1. PICK i \in 1 .. Len(q) : x = q[i].seq
    BY DEF Numbers
  <2>2. i - 1 \in 1 .. Len(Tail(q)) /\ Tail(q)[i - 1] = q[i]
    BY <1>0, <2>1
  <2>. QED
    BY <2>1, <2>2 DEF Numbers
<1>. QED
  BY <1>0, <1>2, <1>4, <1>5, <1>6

\* A step that does not touch the subscription.
StreamStays(s) ==
  UNCHANGED <<seq, queue[s], lastGot[s], offered[s], got[s], pending[s], told[s], subClosed[s]>>
\* A step of the stream, or a stutter.
StreamStep(s) == [Stream(s)!Next]_(Stream(s)!vars)

\* The smallest number is the same in the stream.
LEMMA SameMin == ASSUME NEW s, NEW S PROVE Stream(s)!Min(S) = Min(S)
BY DEF Stream!Min, Min

\* Sets count the same in the stream.
LEMMA SameCardinality == ASSUME NEW s, NEW S PROVE Stream(s)!Cardinality(S) = Cardinality(S)
BY DEF Stream!Cardinality, Cardinality

\* Accept, in the terms of the bus.
LEMMA StreamTakes ==
  ASSUME NEW s, ~subClosed[s], seq' \in Nat, seq' > seq, offered'[s] = offered[s] + 1,
         \/ /\ Cardinality(Numbers(queue[s])) < SubCapacity
            /\ Numbers(queue'[s]) = Numbers(queue[s]) \cup {seq'} /\ pending'[s] = pending[s]
         \/ /\ Cardinality(Numbers(queue[s])) = SubCapacity
            /\ \E lost \in Numbers(queue[s]) \cup {seq'} :
                  Numbers(queue'[s]) = (Numbers(queue[s]) \cup {seq'}) \ {lost}
            /\ pending'[s] = pending[s] + 1,
         UNCHANGED <<lastGot[s], got[s], told[s], subClosed[s]>>
  PROVE  StreamStep(s)
<1>1. Stream(s)!Accept
  BY SameCardinality DEF Stream!Accept, Numbers
<1>. QED
  BY <1>1 DEF StreamStep, Stream!Next

\* What does not touch the subscription is a stutter of its stream.
LEMMA StreamStutter ==
  ASSUME NEW s, StreamStays(s) PROVE StreamStep(s)
BY DEF StreamStays, StreamStep, Stream!vars

\* A numbered event it does not carry is a Skip.
LEMMA StreamSkip ==
  ASSUME NEW s, seq \in Nat, seq' = seq + 1,
         UNCHANGED <<queue[s], lastGot[s], offered[s], got[s], pending[s], told[s], subClosed[s]>>
  PROVE  StreamStep(s)
<1>1. Stream(s)!Skip
  BY DEF Stream!Skip
<1>. QED
  BY <1>1 DEF StreamStep, Stream!Next

\* Closing it is an End.
LEMMA StreamEnd ==
  ASSUME NEW s, subClosed'[s] = TRUE,
         UNCHANGED <<seq, queue[s], lastGot[s], offered[s], got[s], pending[s], told[s]>>
  PROVE  StreamStep(s)
<1>1. Stream(s)!End
  BY DEF Stream!End
<1>. QED
  BY <1>1 DEF StreamStep, Stream!Next

\* Get is a Read.
LEMMA StreamRead ==
  ASSUME DeliveryInv, NEW s \in Subs, Get(s)
  PROVE  StreamStep(s)
<1>0. queue[s] \in Seq(Events) /\ Increasing(queue[s]) /\ queue[s] # <<>>
  BY DEF Get, DeliveryInv, DeliveryInOrder, TypeInv, TypeOK, SubTypes
<1>1. /\ queue'[s] = Tail(queue[s]) /\ pending'[s] = 0 /\ got'[s] = got[s] + 1
      /\ told'[s] = told[s] + pending[s] /\ lastGot'[s] = Head(queue[s]).seq
      /\ UNCHANGED <<seq, offered, subClosed>>
  BY DEF Get, DeliveryInv, TypeInv, TypeOK, SubTypes, coreVars
<1>2. /\ Numbers(queue[s]) # {} /\ lastGot'[s] = Min(Numbers(queue[s]))
      /\ Numbers(queue'[s]) = Numbers(queue[s]) \ {Min(Numbers(queue[s]))}
  BY <1>0, <1>1, HeadNumbers
<1>3. Stream(s)!Read
  BY <1>1, <1>2, SameMin DEF Stream!Read, Numbers
<1>. QED
  BY <1>3 DEF StreamStep, Stream!Next

\* An offer is an Accept, and sheds one event exactly when the backlog is full.
LEMMA StreamAccept ==
  ASSUME DeliveryInv, NEW e \in Events, e.seq = seq + 1, seq' = seq + 1, Offer(e), NEW s \in Takers(e)
  PROVE  StreamStep(s)
<1>0. /\ s \in Subs /\ seq \in Nat /\ ~subClosed[s] /\ queue[s] \in Seq(Events) /\ Increasing(queue[s])
      /\ Len(queue[s]) \in Nat /\ Len(queue[s]) <= SubCapacity /\ SubCapacity \in Nat
  BY LenProperties, BusAssumption DEF DeliveryInv, DeliveryInOrder, QueuesBounded, TypeInv, TypeOK,
     SubTypes,
     CoreTypes, Takers
<1>. DEFINE q == queue[s]
            p == Append(q, e)
            n == Victim(q, e)
<1>1. /\ queue'[s] = Offered(q, SubCapacity, e) /\ offered'[s] = offered[s] + 1
      /\ pending'[s] = pending[s] + Cardinality(Shed(q, SubCapacity, e))
      /\ UNCHANGED <<lastGot, got, told, subClosed>>
  BY <1>0 DEF Offer
<1>2. Cardinality(Numbers(q)) = Len(q)
  BY <1>0, NumbersCounted
<1>3. Numbers(p) = Numbers(q) \cup {seq'}
  BY <1>0, AppendNumbers
<1>4. CASE HasRoom(q, SubCapacity)
  <2>1. /\ Cardinality(Numbers(q)) < SubCapacity /\ Numbers(queue'[s]) = Numbers(q) \cup {seq'}
        /\ pending'[s] = pending[s]
    <3>1. queue'[s] = p /\ Shed(q, SubCapacity, e) = {}
      BY <1>1, <1>4 DEF Offered, Shed
    <3>2. Cardinality(Shed(q, SubCapacity, e)) = 0
      BY <3>1, FS_EmptySet
    <3>3. pending[s] \in Nat
      BY <1>0 DEF DeliveryInv, TypeInv, TypeOK, SubTypes
    <3>. QED
      BY <1>1, <1>2, <1>3, <1>4, <3>1, <3>2, <3>3 DEF HasRoom
  <2>. HIDE DEF q
  <2>. QED
    BY <1>0, <1>1, <2>1, StreamTakes DEF q
<1>5. CASE ~HasRoom(q, SubCapacity)
  <2>1. p \in Seq(Events) /\ Len(p) = Len(q) + 1 /\ n \in 1 .. Len(p)
    BY <1>0, AppendProperties, VictimInRange
  <2>2. Increasing(p)
    <3>1. \A i \in 1 .. Len(q) : q[i].seq < e.seq
      <4>1. \A i \in 1 .. Len(q) : q[i].seq \in (lastGot[s] + 1) .. seq
        BY <1>0 DEF DeliveryInv, DeliveryInOrder
      <4>2. \A i \in 1 .. Len(q) : q[i].seq \in Nat
        BY <1>0, EventNumbers
      <4>. QED
        BY <1>0, <4>1, <4>2
    <3>. QED
      BY <1>0, <3>1, AppendIncreasing
  <2>3. queue'[s] = RemoveAt(p, n) /\ Shed(q, SubCapacity, e) = {p[n]}
    BY <1>1, <1>5 DEF Offered, Shed
  <2>4. Cardinality(Shed(q, SubCapacity, e)) = 1
    BY <2>3, FS_Singleton
  <2>. HIDE DEF p, n
  <2>5. Numbers(queue'[s]) = Numbers(p) \ {p[n].seq} /\ p[n].seq \in Numbers(p)
    BY <2>1, <2>2, <2>3, RemoveNumbers DEF Numbers
  <2>6. \E lost \in Numbers(q) \cup {seq'} : Numbers(queue'[s]) = (Numbers(q) \cup {seq'}) \ {lost}
    BY <1>3, <2>5
  <2>7. Cardinality(Numbers(q)) = SubCapacity
    BY <1>0, <1>2, <1>5 DEF HasRoom
  <2>8. pending'[s] = pending[s] + 1
    BY <1>1, <2>4
  <2>. QED
    <3>1. seq' \in Nat /\ seq' > seq /\ UNCHANGED <<lastGot[s], got[s], told[s], subClosed[s]>>
      BY <1>0, <1>1
    <3>2. offered'[s] = offered[s] + 1 /\ ~subClosed[s]
      BY <1>0, <1>1
    <3>. HIDE DEF q
    <3>3. /\ Cardinality(Numbers(queue[s])) = SubCapacity
          /\ \E lost \in Numbers(queue[s]) \cup {seq'} :
                  Numbers(queue'[s]) = (Numbers(queue[s]) \cup {seq'}) \ {lost}
          /\ pending'[s] = pending[s] + 1
      BY <2>6, <2>7, <2>8 DEF q
    <3>. QED
      BY <3>1, <3>2, <3>3, StreamTakes
<1>. QED
  BY <1>4, <1>5

\* What the streams are made of.
streamVars == <<seq, queue, lastGot, offered, got, pending, told, subClosed>>

\* The steps a subscription may see.
LEMMA StreamMoves ==
  ASSUME TypeInv, [Next]_vars
  PROVE  \/ UNCHANGED streamVars
         \/ \E t \in Publishers \cup Tickers : PublishOffer(t)
         \/ \E s \in Subs : Get(s) \/ Unsubscribe(s)
         \/ \E c \in Closers : CloseSubs(c)
<1>. USE DEF coreVars, subVars, brokerVars, fanoutVars, threadVars, clientVars, boundVars, streamVars
<1>e. \A t : Ensure(t) => UNCHANGED streamVars
  BY DEF Ensure, EnsureCheck, EnsureCore, EnsureClient, BuildClient
<1>p. \A t : Publish(t) => UNCHANGED streamVars \/ PublishOffer(t)
  BY DEF Publish, PublishCheck, PublishRecord, FanoutCheck, Enqueue, Spawn
<1>1. \A t, k, v : PublishCall(t, k, v) => UNCHANGED streamVars
  BY DEF PublishCall
<1>2. \A s : Subscribe(s) \/ Consume(s) \/ Disconnect(s) => UNCHANGED streamVars \/ Get(s) \/ Unsubscribe(s)
  BY DEF Subscribe, Consume, EndOfStream, Disconnect
<1>3. WorkerStep => UNCHANGED streamVars
  BY <1>e DEF WorkerStep, WorkerPop, WorkerExit, WorkerCheck, WorkerEnvelope, WorkerSend, WorkerFailed
<1>4. \A t : TickCall(t) \/ Tick(t) => UNCHANGED streamVars \/ PublishOffer(t)
  BY <1>e, <1>p DEF Tick, TickCall, TickRetry, TickRecovered, TickBeat
<1>5. \A c : CloseCall(c) \/ Close(c) => UNCHANGED streamVars \/ CloseSubs(c)
  BY DEF Close, CloseCall, CloseTake, CloseStop, CloseJoin, CloseCount, CloseClient, CloseRelease
<1>6. UNCHANGED vars => UNCHANGED streamVars
  BY DEF vars
<1>. QED
  BY <1>p, <1>1, <1>2, <1>3, <1>4, <1>5, <1>6 DEF Next

\* Every step of the bus is a step or a stutter of every stream.
LEMMA StreamsStep ==
  ASSUME DeliveryInv, [Next]_vars, NEW s \in Subs
  PROVE  StreamStep(s)
<1>t. TypeInv /\ seq \in Nat /\ subClosed \in [Subs -> BOOLEAN] /\ queue \in [Subs -> Seq(Events)]
      /\ pending \in [Subs -> Nat] /\ got \in [Subs -> Nat] /\ told \in [Subs -> Nat] /\ lastGot \in [Subs -> Nat]
  BY DEF DeliveryInv, TypeInv, TypeOK, CoreTypes, SubTypes
<1>1. CASE UNCHANGED streamVars
  BY <1>1, StreamStutter DEF streamVars, StreamStays
<1>2. ASSUME NEW t \in Publishers \cup Tickers, PublishOffer(t) PROVE StreamStep(s)
  <2>. DEFINE e == [seq |-> seq + 1, kind |-> arg[t].kind, by |-> t]
  <2>1. arg[t] \in Args /\ t \in Threads
    BY <1>2, <1>t, Actors DEF PublishOffer, TypeInv, Held
  <2>2. e \in Events /\ e.seq = seq + 1
    BY <1>t, <2>1 DEF Events, Args
  <2>3. seq' = seq + 1 /\ (UNCHANGED subVars \/ Offer(e))
    BY <1>2 DEF PublishOffer
  <2>. HIDE DEF e
  <2>4. CASE UNCHANGED subVars
    BY <1>t, <2>3, <2>4, StreamSkip DEF subVars
  <2>5. CASE Offer(e)
    <3>1. CASE s \in Takers(e)
      BY <2>2, <2>3, <2>5, <3>1, StreamAccept
    <3>2. CASE s \notin Takers(e)
      <4>1. UNCHANGED <<queue[s], lastGot[s], offered[s], got[s], pending[s], told[s], subClosed[s]>>
        BY <2>5, <3>2 DEF Offer
      <4>. QED
        BY <1>t, <2>3, <4>1, StreamSkip
    <3>. QED
      BY <3>1, <3>2
  <2>. QED
    BY <2>3, <2>4, <2>5
<1>3. ASSUME NEW r \in Subs, Get(r) PROVE StreamStep(s)
  <2>1. CASE s = r
    BY <1>3, <2>1, StreamRead
  <2>2. CASE s # r
    BY <1>3, <1>t, <2>2, StreamStutter DEF Get, StreamStays, coreVars
  <2>. QED
    BY <2>1, <2>2
<1>4. ASSUME NEW r \in Subs, Unsubscribe(r) PROVE StreamStep(s)
  <2>1. CASE s = r
    BY <1>4, <1>t, <2>1, StreamEnd DEF Unsubscribe
  <2>2. CASE s # r
    BY <1>4, <1>t, <2>2, StreamStutter DEF Unsubscribe, StreamStays
  <2>. QED
    BY <2>1, <2>2
<1>5. ASSUME NEW c \in Closers, CloseSubs(c) PROVE StreamStep(s)
  <2>0. UNCHANGED <<seq, queue, lastGot, offered, got, pending, told>>
    BY <1>5 DEF CloseSubs, coreVars
  <2>1. subClosed'[s] = (subClosed[s] \/ s \in report.taken)
    BY <1>5 DEF CloseSubs
  <2>2. CASE s \in report.taken
    BY <2>0, <2>1, <2>2, StreamEnd
  <2>3. CASE s \notin report.taken
    BY <1>t, <2>0, <2>1, <2>3, StreamStutter DEF StreamStays
  <2>. QED
    BY <2>2, <2>3
<1>. QED
  BY <1>t, <1>1, <1>2, <1>3, <1>4, <1>5, StreamMoves

\* Every subscription implements the lossy ordered stream, for any number of subscriptions
\* and publishers: it loses an event only when its backlog is full, never silently and
\* never out of order.
THEOREM StreamsAreLossy == Spec => SubscriptionsAreLossyStreams
<1>1. Init => \A s \in Subs : Stream(s)!Init
  <2>. SUFFICES ASSUME Init, NEW s \in Subs PROVE Stream(s)!Init
    OBVIOUS
  <2>1. Numbers(queue[s]) = {}
    BY DEF Init, Numbers
  <2>. QED
    BY <2>1 DEF Init, Stream!Init, Numbers
<1>2. DeliveryInv /\ [Next]_vars => [\A s \in Subs : [Stream(s)!Next]_(Stream(s)!vars)]_vars
  BY StreamsStep DEF StreamStep
<1>. QED
  BY InitDelivery, DeliveryStep, <1>1, <1>2, PTL DEF Spec, SubscriptionsAreLossyStreams
==============================================================================

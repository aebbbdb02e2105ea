----------------------------- MODULE ChatProofs -----------------------------
(***************************************************************************)
(* Theorems about ChatRequests, for any questions, workers and bounds: the *)
(* text lane counts exactly, replies follow what they reply to, the        *)
(* results that are kept are those their order names.                      *)
(***************************************************************************)
EXTENDS ChatRequests, SequenceTheorems, FiniteSetTheorems, WellFoundedInduction, TLAPS

(***************************************************************************)
(* Sequences without duplicates: an element leaves (RemoveFirst), joins at *)
(* the end, is moved there, or the first ones go -- what _chat_results     *)
(* here, and the conversations of MeshAsks, do with an OrderedDict.  The   *)
(* facts about positions are stated of functions, which the provers do     *)
(* better than sequences.                                                  *)
(***************************************************************************)
\* Nothing is twice in the sequence.
Once(s) == \A i, j \in 1..Len(s) : s[i] = s[j] => i = j

\* A set of numbers has its minimum among its members.
LEMMA LeastIs ==
  ASSUME NEW S \in SUBSET Nat, S # {}
  PROVE  Min(S) \in S
<1>1. \E x \in S : \A y \in S : ~ (<<y, x>> \in OpToRel(<, Nat))
  BY NatLessThanWellFounded, WFMin
<1>2. \A x, y \in Nat : x < y => <<x, y>> \in OpToRel(<, Nat)
  BY Zenon DEF OpToRel
<1>3. PICK x \in S : \A y \in S : ~ (y < x)
  BY <1>1, <1>2
<1>4. \A y \in S : x <= y
  BY <1>3
<1> QED BY <1>4 DEF Min

\* RemoveFirst leaves a sequence as it is, or without one place where the element was.
LEMMA FirstRemoved ==
  ASSUME NEW S, NEW s \in Seq(S), NEW e
  PROVE  \/ RemoveFirst(s, e) = s /\ \A i \in 1..Len(s) : s[i] # e
         \/ \E k \in 1..Len(s) :
              s[k] = e /\ RemoveFirst(s, e) = SubSeq(s, 1, k - 1) \o SubSeq(s, k + 1, Len(s))
<1>1. CASE \A i \in 1..Len(s) : s[i] # e
  BY <1>1 DEF RemoveFirst
<1>2. CASE \E i \in 1..Len(s) : s[i] = e
  <2> DEFINE I == {i \in 1..Len(s) : s[i] = e}
  <2>1. RemoveFirst(s, e) = RemoveAt(s, SelectInSeq(s, LAMBDA v : v = e))
    BY <1>2 DEF RemoveFirst
  <2>2. SelectInSeq(s, LAMBDA v : v = e) = Min(I)
    BY <1>2 DEF SelectInSeq
  <2>3. Min(I) \in I
    <3>1. I \in SUBSET Nat /\ I # {}
      BY <1>2
    <3> QED BY <3>1, LeastIs
  <2> QED BY <2>1, <2>2, <2>3 DEF RemoveAt
<1> QED BY <1>1, <1>2

\* Of functions on 1..n: no value twice; d is s without place k; d has the values of s but e.
Distinct(s, n) == \A i, j \in 1..n : s[i] = s[j] => i = j
Skips(d, s, k, n) == \A i \in 1..(n - 1) : d[i] = IF i < k THEN s[i] ELSE s[i + 1]
AllBut(d, m, s, n, e) ==
  /\ \A i \in 1..m : d[i] # e /\ \E j \in 1..n : d[i] = s[j]
  /\ \A j \in 1..n : s[j] # e => \E i \in 1..m : d[i] = s[j]

\* a is what is before place k, c what is after it, d the two together; r is d and then e.
StartsAs(a, s, k) == \A i \in 1..(k - 1) : a[i] = s[i]
EndsAs(c, s, k, n) == \A i \in 1..(n - k) : c[i] = s[k + i]
Glued(d, a, c, k, n) ==
  \A i \in 1..(n - 1) : d[i] = IF i <= k - 1 THEN a[i] ELSE c[i - (k - 1)]
Longer(r, d, m, e) == (\A i \in 1..m : r[i] = d[i]) /\ r[m + 1] = e
Elements(s, n) == {s[i] : i \in 1..n}

\* Without one place, what had no value twice has every value but one, and still none twice.
LEMMA Shifted ==
  ASSUME NEW n \in Nat, NEW s, NEW d, NEW k \in 1..n, Skips(d, s, k, n), Distinct(s, n)
  PROVE  Distinct(d, n - 1) /\ AllBut(d, n - 1, s, n, s[k])
<1> USE DEF Skips, Distinct, AllBut
<1>1. \A i \in 1..(n - 1) : i \in 1..n /\ i + 1 \in 1..n
  OBVIOUS
<1>2. \A i, j \in 1..(n - 1) : d[i] = d[j] => i = j
  BY <1>1
<1>3. ASSUME NEW i \in 1..(n - 1) PROVE d[i] # s[k] /\ \E j \in 1..n : d[i] = s[j]
  BY <1>1
<1>4. ASSUME NEW j \in 1..n, s[j] # s[k] PROVE \E i \in 1..(n - 1) : d[i] = s[j]
  <2>1. CASE j < k
    BY <2>1
  <2>2. CASE j > k
    <3>1. j - 1 \in 1..(n - 1) /\ ~(j - 1 < k) /\ (j - 1) + 1 = j
      BY <2>2
    <3> QED BY <3>1
  <2> QED BY <1>4, <2>1, <2>2
<1> QED BY <1>2, <1>3, <1>4

\* What is before a place and what is after it make the whole without that place.
LEMMA GluedSkips ==
  ASSUME NEW k \in Nat, NEW n \in Nat, k \in 1..n, NEW s, NEW a, NEW c, NEW d,
         StartsAs(a, s, k), EndsAs(c, s, k, n), Glued(d, a, c, k, n)
  PROVE  Skips(d, s, k, n)
<1> USE DEF Skips, StartsAs, EndsAs, Glued
<1> SUFFICES ASSUME NEW i \in 1..(n - 1)
             PROVE  d[i] = IF i < k THEN s[i] ELSE s[i + 1]
  OBVIOUS
<1>1. CASE i < k
  <2>1. i <= k - 1 /\ i \in 1..(k - 1)
    BY <1>1
  <2> QED BY <1>1, <2>1
<1>2. CASE ~(i < k)
  <2>1. i - (k - 1) \in 1..(n - k) /\ k + (i - (k - 1)) = i + 1 /\ ~(i <= k - 1)
    BY <1>2
  <2> QED BY <1>2, <2>1
<1> QED BY <1>1, <1>2

\* A value that is new is put after the others.
LEMMA Added ==
  ASSUME NEW m \in Nat, NEW d, NEW r, NEW e, Distinct(d, m), \A i \in 1..m : d[i] # e,
         Longer(r, d, m, e)
  PROVE  Distinct(r, m + 1) /\ Elements(r, m + 1) = Elements(d, m) \cup {e}
<1> USE DEF Distinct, Longer, Elements
<1>1. \A i \in 1..(m + 1) : i \in 1..m \/ i = m + 1
  OBVIOUS
<1>2. m + 1 \in 1..(m + 1) /\ \A i \in 1..m : i \in 1..(m + 1)
  OBVIOUS
<1>3. Distinct(r, m + 1)
  BY <1>1
<1>4. \A i \in 1..(m + 1) : r[i] \in Elements(d, m) \cup {e}
  BY <1>1
<1>5. \A i \in 1..m : d[i] \in Elements(r, m + 1)
  BY <1>2
<1>6. e \in Elements(r, m + 1)
  BY <1>2
<1> QED BY <1>3, <1>4, <1>5, <1>6

\* RemoveFirst makes sequences of sequences.
LEMMA FirstIsSeq ==
  ASSUME NEW S, NEW s \in Seq(S), NEW e
  PROVE  RemoveFirst(s, e) \in Seq(S)
<1>1. CASE RemoveFirst(s, e) = s
  BY <1>1
<1>2. ASSUME NEW k \in 1..Len(s),
             RemoveFirst(s, e) = SubSeq(s, 1, k - 1) \o SubSeq(s, k + 1, Len(s))
      PROVE  RemoveFirst(s, e) \in Seq(S)
  <2>1. SubSeq(s, 1, k - 1) \in Seq(S) /\ SubSeq(s, k + 1, Len(s)) \in Seq(S)
    BY LenProperties, SubSeqProperties
  <2> QED BY <1>2, <2>1, ConcatProperties
<1> QED BY <1>1, <1>2, FirstRemoved

\* A sequence without duplicates loses the element, and nothing else.
LEMMA Removed ==
  ASSUME NEW S, NEW s \in Seq(S), Once(s), NEW e
  PROVE  /\ RemoveFirst(s, e) \in Seq(S) /\ Once(RemoveFirst(s, e))
         /\ ToSet(RemoveFirst(s, e)) = ToSet(s) \ {e} /\ Len(RemoveFirst(s, e)) <= Len(s)
<1> DEFINE d == RemoveFirst(s, e)
           n == Len(s)
           m == Len(d)
<1>0. n \in Nat /\ Distinct(s, n)
  BY LenProperties DEF Once, Distinct
<1>1. /\ d \in Seq(S) /\ m <= n
      /\ Distinct(d, m) /\ AllBut(d, m, s, n, e)
  <2>1. CASE d = s /\ \A i \in 1..n : s[i] # e
    BY <1>0, <2>1 DEF Distinct, AllBut
  <2>2. CASE \E k \in 1..n : s[k] = e /\ d = SubSeq(s, 1, k - 1) \o SubSeq(s, k + 1, n)
    <3> PICK k \in 1..n : s[k] = e /\ d = SubSeq(s, 1, k - 1) \o SubSeq(s, k + 1, n)
      BY <2>2
    <3> DEFINE a == SubSeq(s, 1, k - 1)
               c == SubSeq(s, k + 1, n)
    <3>1. k \in Nat /\ k \in 1..n /\ d = a \o c /\ s[k] = e
      BY <1>0
    <3>2. a \in Seq(S) /\ Len(a) = k - 1 /\ \A i \in 1..(k - 1) : a[i] = s[i]
      BY <1>0, <3>1, SubSeqProperties
    <3>3. c \in Seq(S) /\ Len(c) = n - k /\ \A i \in 1..(n - k) : c[i] = s[k + i]
      BY <1>0, <3>1, SubSeqProperties
    <3> HIDE DEF d, a, c, n, m
    <3>4. d \in Seq(S) /\ Len(d) = Len(a) + Len(c)
      BY <3>1, <3>2, <3>3, ConcatProperties
    <3>5. m = n - 1 /\ Len(a) + Len(c) = n - 1
      BY <1>0, <3>1, <3>2, <3>3, <3>4 DEF m
    <3>6. \A i \in 1..(Len(a) + Len(c)) : (a \o c)[i] = IF i <= Len(a) THEN a[i] ELSE c[i - Len(a)]
      BY <3>2, <3>3, ConcatProperties, Zenon
    <3>7. Glued(d, a, c, k, n)
      BY <3>1, <3>2, <3>5, <3>6, Zenon DEF Glued
    <3>8. Skips(d, s, k, n)
      <4>1. StartsAs(a, s, k)
        BY <3>2 DEF StartsAs
      <4>2. EndsAs(c, s, k, n)
        BY <3>3 DEF EndsAs
      <4> QED BY <1>0, <3>1, <3>7, <4>1, <4>2, GluedSkips
    <3>9. Distinct(d, n - 1) /\ AllBut(d, n - 1, s, n, s[k])
      BY <1>0, <3>1, <3>8, Shifted
    <3>10. m <= n
      BY <1>0, <3>5
    <3> QED BY <3>1, <3>4, <3>5, <3>9, <3>10, Zenon
  <2> QED BY <2>1, <2>2, FirstRemoved
<1>2. /\ m \in Nat /\ ToSet(d) = Elements(d, m) /\ ToSet(s) = Elements(s, n)
  BY <1>1, LenProperties DEF ToSet, Elements
<1> HIDE DEF d, n, m
<1>3. Elements(d, m) = Elements(s, n) \ {e}
  BY <1>1 DEF AllBut, Elements
<1> QED BY <1>1, <1>2, <1>3 DEF Once, Distinct, d, n, m

\* One that is not there is put at the end,
LEMMA PutLast ==
  ASSUME NEW S, NEW d \in Seq(S), Once(d), NEW e \in S, e \notin ToSet(d)
  PROVE  /\ Append(d, e) \in Seq(S) /\ Once(Append(d, e))
         /\ ToSet(Append(d, e)) = ToSet(d) \cup {e} /\ Len(Append(d, e)) = Len(d) + 1
<1> DEFINE r == Append(d, e)
           m == Len(d)
<1>1. /\ r \in Seq(S) /\ Len(r) = m + 1 /\ m \in Nat /\ r[m + 1] = e
      /\ \A i \in 1..m : r[i] = d[i]
  BY AppendProperties, LenProperties
<1>2. ToSet(r) = Elements(r, m + 1) /\ ToSet(d) = Elements(d, m)
  BY <1>1, LenProperties DEF ToSet, Elements
<1>3. Distinct(d, m) /\ Longer(r, d, m, e) /\ \A i \in 1..m : d[i] # e
  BY <1>1, <1>2 DEF Once, Distinct, Longer, Elements
<1> HIDE DEF r, m
<1>4. Distinct(r, m + 1) /\ Elements(r, m + 1) = Elements(d, m) \cup {e}
  BY <1>1, <1>3, Added
<1> QED BY <1>1, <1>2, <1>4 DEF Once, Distinct, r, m

\* ... one that may be there is moved to the end.
LEMMA Renewed ==
  ASSUME NEW S, NEW s \in Seq(S), Once(s), NEW e \in S
  PROVE  LET r == Append(RemoveFirst(s, e), e) IN
         /\ r \in Seq(S) /\ Once(r) /\ ToSet(r) = ToSet(s) \cup {e} /\ Len(r) <= Len(s) + 1
<1> DEFINE d == RemoveFirst(s, e)
<1>1. d \in Seq(S) /\ Once(d) /\ ToSet(d) = ToSet(s) \ {e} /\ Len(d) <= Len(s)
  BY Removed
<1>2. Len(d) \in Nat /\ Len(s) \in Nat
  BY <1>1, LenProperties
<1> HIDE DEF d
<1>3. /\ Append(d, e) \in Seq(S) /\ Once(Append(d, e))
      /\ ToSet(Append(d, e)) = ToSet(d) \cup {e} /\ Len(Append(d, e)) = Len(d) + 1
  BY <1>1, PutLast
<1> QED BY <1>1, <1>2, <1>3 DEF d

\* What is left of a sequence without its first element.
LEMMA TailRest ==
  ASSUME NEW S, NEW s \in Seq(S), s # <<>>, Once(s)
  PROVE  /\ Tail(s) \in Seq(S) /\ Once(Tail(s)) /\ Len(Tail(s)) = Len(s) - 1
         /\ ToSet(Tail(s)) = ToSet(s) \ {Head(s)} /\ Head(s) \in ToSet(s)
<1> DEFINE t == Tail(s)
           n == Len(s)
<1>1. n \in Nat \ {0} /\ Distinct(s, n)
  BY LenProperties, EmptySeq DEF Once, Distinct
<1>2. /\ t \in Seq(S) /\ Len(t) = n - 1 /\ Head(s) = s[1]
      /\ \A i \in 1..(n - 1) : t[i] = s[i + 1]
  BY HeadTailProperties
<1>3. ToSet(t) = Elements(t, n - 1) /\ ToSet(s) = Elements(s, n)
  BY <1>1, <1>2, LenProperties DEF ToSet, Elements
<1>4. Skips(t, s, 1, n)
  BY <1>1, <1>2 DEF Skips
<1> HIDE DEF t, n
<1>5. Distinct(t, n - 1) /\ AllBut(t, n - 1, s, n, s[1])
  BY <1>1, <1>4, Shifted
<1>6. Elements(t, n - 1) = Elements(s, n) \ {s[1]}
  BY <1>5 DEF AllBut, Elements
<1>7. s[1] \in Elements(s, n)
  BY <1>1 DEF Elements
<1> QED BY <1>1, <1>2, <1>3, <1>5, <1>6, <1>7 DEF Once, Distinct, t, n

\* What a suffix of a sequence without duplicates has.
LEMMA SuffixRest ==
  ASSUME NEW S, NEW s \in Seq(S), Once(s), NEW k \in 0..Len(s)
  PROVE  LET t == SubSeq(s, k + 1, Len(s)) IN
           /\ t \in Seq(S) /\ Once(t)
           /\ \A e : e \in ToSet(t) <=> e \in ToSet(s) /\ ~ \E i \in 1..k : s[i] = e
<1> DEFINE t == SubSeq(s, k + 1, Len(s))
           n == Len(s)
<1>0. n \in Nat /\ k \in Nat /\ k <= n
  BY LenProperties
<1>1. t \in Seq(S) /\ Len(t) = n - k /\ \A i \in 1..(n - k) : t[i] = s[k + i]
  BY <1>0, SubSeqProperties
<1>2. ToSet(t) = {t[i] : i \in 1..(n - k)} /\ ToSet(s) = {s[i] : i \in 1..n}
  BY <1>1, LenProperties DEF ToSet
<1>3. \A i, j \in 1..n : s[i] = s[j] => i = j
  BY DEF Once
<1> HIDE DEF t, n
<1>4. Once(t)
  BY <1>0, <1>1, <1>3 DEF Once
<1>5. ASSUME NEW e, e \in ToSet(t) PROVE e \in ToSet(s) /\ ~ \E i \in 1..k : s[i] = e
  <2>1. PICK i \in 1..(n - k) : e = s[k + i]
    BY <1>1, <1>2, <1>5
  <2>2. k + i \in 1..n /\ \A j \in 1..k : j \in 1..n /\ j # k + i
    BY <1>0
  <2> QED BY <1>2, <1>3, <2>1, <2>2
<1>6. ASSUME NEW e, e \in ToSet(s), ~ \E i \in 1..k : s[i] = e PROVE e \in ToSet(t)
  <2>1. PICK j \in 1..n : e = s[j]
    BY <1>2, <1>6
  <2>2. j \notin 1..k
    BY <1>6, <2>1
  <2>3. j - k \in 1..(n - k) /\ k + (j - k) = j
    BY <1>0, <2>2
  <2> QED BY <1>1, <1>2, <2>1, <2>3
<1> QED BY <1>1, <1>4, <1>5, <1>6 DEF t, n

-----------------------------------------------------------------------------
LaneCalls   == {"chat", "poll", "stale"} \X Questions
LogRecords == {"user", "reply", "refusal"} \X (Questions \cup {Voice})

ChatTypes ==
  /\ page \in [Questions -> {"unasked", "sent", "waiting", "answered", "failed", "unknown"}]
  /\ post \in [Questions -> {"none", "flying", "waits", "answered", "lost"}]
  /\ job \in [Questions -> {"none", "queued", "begun", "talking", "ok", "failed", "cancelled", "gone"}]
  /\ results \in [Questions -> {"none", "pending", "ok", "failed"}]
  /\ queue \in Seq(LaneCalls)
  /\ log \in Seq(LogRecords) /\ floor \in Questions \cup {Voice, Free}

\* A question has one call at most: a chat in the queue is of a job that is queued,
\* and of no other entry; before it has arrived it has no job.
CallsInv ==
  /\ \A i \in DOMAIN queue : queue[i][1] = "chat" => job[queue[i][2]] = "queued"
  /\ \A i, j \in DOMAIN queue : queue[i][1] = "chat" /\ queue[i] = queue[j] => i = j
  /\ \A q \in Questions : /\ page[q] = "unasked" => post[q] = "none"
                          /\ post[q] \in {"none", "flying"} => job[q] = "none"

\* The lane's count.
CountInv == IsFiniteSet(Running) /\ LaneExact

LaneInv == ChatTypes /\ CallsInv /\ CountInv

\* Who has the conversation wrote last; a job that has not ended well has no reply,
\* nor has a question that failed, whose job is over.
TalkInv ==
  /\ floor # Free => log # <<>> /\ log[Len(log)] = <<"user", floor>>
  /\ \A q \in Questions :
       /\ job[q] = "talking" => floor = q
       /\ results[q] = "failed" => job[q] = "failed"
       /\ job[q] \notin {"ok", "gone"} => ~Contains(log, <<"reply", q>>)
       /\ page[q] = "failed" => /\ job[q] \notin {"queued", "begun", "talking"}
                                /\ post[q] \notin {"none", "flying"}

\* What the assistant wrote comes right after what it answers, and a question that the
\* page calls failed has no reply.
InTurn(l) == \A i \in DOMAIN l : l[i][1] # "user" => i > 1 /\ l[i - 1] = <<"user", l[i][2]>>

Follows == InTurn(log) /\ \A q \in Questions : page[q] = "failed" => ~Contains(log, <<"reply", q>>)

\* Where a question counts as answered, its reply is in the session.
Answered(q) == job[q] = "ok" \/ results[q] = "ok" \/ page[q] = "answered"
AnsweredInv == \A q \in Questions : Answered(q) => Contains(log, <<"reply", q>>)

ChatInv == LaneInv /\ TalkInv /\ Follows /\ AnsweredInv
-----------------------------------------------------------------------------
\* What a step on question q does to the variables of the two invariants.
ClientStep(q) ==
  \/ Ask(q) \/ PageLeft(q) \/ PostLost(q) \/ PollSent(q) \/ PollTimesOut(q)
ServerStep(q) ==
  \/ PostArrives(q) \/ RouteAnswers(q) \/ RouteTimesOut(q)
TurnMoves(q) ==
  \/ TurnBegins(q) \/ TurnRefused(q) \/ TurnReplies(q)

\* _keep_chat_result touches no other result than to drop it.
LEMMA KeepTypes ==
  ASSUME ChatTypes, NEW q \in Questions, NEW what \in {"pending", "ok", "failed"}, Keep(q, what)
  PROVE  /\ results' \in [Questions -> {"none", "pending", "ok", "failed"}]
         /\ \A d \in Questions : results'[d] \in {"none", IF d = q THEN what ELSE results[d]}
  BY DEF Keep, ChatTypes

\* A server that has just come up: nothing asked, nothing queued.
LEMMA TypesInitially == ASSUME ChatInit PROVE ChatTypes
  BY ChatAssumption DEF ChatInit, ChatTypes, LaneCalls, LogRecords

\* Every step of the page, of the server's lane and of the turns keeps the types.
LEMMA TypesStep == ASSUME ChatTypes, [ChatNext]_chatVars PROVE ChatTypes'
<1>1. ASSUME NEW q \in Questions, ClientStep(q) PROVE ChatTypes'
  <2>1. CASE Ask(q)
    BY <2>1 DEF Ask, ChatTypes, serverVars
  <2>2. CASE PageLeft(q)
    BY <2>2 DEF PageLeft, ChatTypes, serverVars
  <2>3. CASE PostLost(q)
    BY <2>3 DEF PostLost, Hears, ChatTypes, serverVars
  <2>4. CASE PollSent(q)
    BY <2>4 DEF PollSent, ChatTypes, LaneCalls
  <2>5. CASE PollTimesOut(q)
    <3>1. queue' \in Seq(LaneCalls)
      <4>1. Len(queue) \in Nat /\ DOMAIN queue = 1..Len(queue)
        BY DEF ChatTypes
      <4>2. \A i \in 1..Len(queue) : queue'[i] \in LaneCalls /\ queue' = [j \in 1..Len(queue) |-> queue'[j]]
        BY <2>5, <4>1 DEF PollTimesOut, ChatTypes, LaneCalls
      <4> QED BY <2>5, <4>1, <4>2, SeqDef DEF PollTimesOut, ChatTypes, LaneCalls
    <3> QED BY <2>5, <3>1 DEF PollTimesOut, ChatTypes
  <2> QED BY <1>1, <2>1, <2>2, <2>3, <2>4, <2>5 DEF ClientStep
<1>2. ASSUME NEW q \in Questions, ServerStep(q) PROVE ChatTypes'
  <2>1. CASE PostArrives(q)
    <3>1. page' \in [Questions -> {"unasked", "sent", "waiting", "answered", "failed", "unknown"}]
      BY <2>1 DEF PostArrives, Hears, ChatTypes
    <3>2. queue' \in Seq(LaneCalls)
      <4>1. <<"chat", q>> \in LaneCalls
        BY DEF LaneCalls
      <4>2. queue' = queue \/ queue' = Append(queue, <<"chat", q>>)
        BY <2>1 DEF PostArrives
      <4>3. CASE queue' = queue
        BY <4>3 DEF ChatTypes
      <4>4. CASE queue' = Append(queue, <<"chat", q>>)
        BY <4>1, <4>4 DEF ChatTypes
      <4> QED BY <4>2, <4>3, <4>4
    <3>3. post' \in [Questions -> {"none", "flying", "waits", "answered", "lost"}]
      BY <2>1 DEF PostArrives, ChatTypes
    <3>4. job' \in [Questions -> {"none", "queued", "begun", "talking", "ok", "failed", "cancelled", "gone"}]
      BY <2>1 DEF PostArrives, ChatTypes
    <3> QED BY <2>1, <3>1, <3>2, <3>3, <3>4 DEF PostArrives, ChatTypes
  <2>2. CASE RouteAnswers(q)
    BY <2>2 DEF RouteAnswers, Hears, ChatTypes, serverVars
  <2>3. CASE RouteTimesOut(q)
    BY <2>3 DEF RouteTimesOut, Hears, ChatTypes, serverVars
  <2> QED BY <1>2, <2>1, <2>2, <2>3 DEF ServerStep
<1>3. ASSUME NEW q \in Questions, TurnMoves(q) PROVE ChatTypes'
  <2>1. CASE TurnBegins(q)
    BY <2>1 DEF TurnBegins, ChatTypes, LogRecords
  <2>2. CASE TurnRefused(q)
    BY <2>2, KeepTypes DEF TurnRefused, Ends, ChatTypes
  <2>3. CASE TurnReplies(q)
    <3>1. results' \in [Questions -> {"none", "pending", "ok", "failed"}]
      BY <2>3, KeepTypes DEF TurnReplies, Ends
    <3>2. log' \in Seq(LogRecords)
      <4>1. <<"reply", q>> \in LogRecords /\ <<"refusal", q>> \in LogRecords
        BY DEF LogRecords
      <4>2. CASE log' = Append(log, <<"reply", q>>)
        BY <4>1, <4>2 DEF ChatTypes
      <4>3. CASE log' = Append(log, <<"refusal", q>>)
        BY <4>1, <4>3 DEF ChatTypes
      <4>4. CASE UNCHANGED log
        BY <4>4 DEF ChatTypes
      <4> QED BY <2>3, <4>2, <4>3, <4>4 DEF TurnReplies
    <3>3. job' \in [Questions -> {"none", "queued", "begun", "talking", "ok", "failed", "cancelled", "gone"}]
      BY <2>3 DEF TurnReplies, Ends, ChatTypes
    <3> QED BY <2>3, <3>1, <3>2, <3>3 DEF TurnReplies, ChatTypes
  <2> QED BY <1>3, <2>1, <2>2, <2>3 DEF TurnMoves
<1>4. CASE ChatTaken
  <2>1. Head(queue) \in LaneCalls /\ Tail(queue) \in Seq(LaneCalls)
    BY <1>4 DEF ChatTaken, ChatTypes
  <2>2. Head(queue)[2] \in Questions
    BY <2>1 DEF LaneCalls
  <2>3. results' \in [Questions -> {"none", "pending", "ok", "failed"}]
    BY <1>4, <2>2, KeepTypes DEF ChatTaken
  <2> QED BY <1>4, <2>1, <2>2, <2>3 DEF ChatTaken, ChatTypes
<1>5. CASE PollTaken
  <2>1. Head(queue) \in LaneCalls /\ Tail(queue) \in Seq(LaneCalls)
    BY <1>5 DEF PollTaken, ChatTypes
  <2>2. Head(queue)[2] \in Questions
    BY <2>1 DEF LaneCalls
  <2>3. Shown(Head(queue)[2]) \in {"unknown", "waiting", "answered", "failed"}
    BY <2>2 DEF Shown, ChatTypes
  <2>4. page' \in [Questions -> {"unasked", "sent", "waiting", "answered", "failed", "unknown"}]
    <3>1. CASE UNCHANGED <<page, poll>>
      BY <3>1 DEF ChatTypes
    <3>2. CASE page' = [page EXCEPT ![Head(queue)[2]] = IF @ = "waiting" THEN Shown(Head(queue)[2]) ELSE @]
      BY <2>2, <2>3, <3>2 DEF ChatTypes
    <3> QED BY <1>5, <3>1, <3>2 DEF PollTaken
  <2> QED BY <1>5, <2>1, <2>4 DEF PollTaken, ChatTypes
<1>6. CASE VoiceBegins \/ VoiceReplies
  <2>1. <<"user", Voice>> \in LogRecords /\ <<"reply", Voice>> \in LogRecords
    BY DEF LogRecords
  <2>2. CASE VoiceBegins
    <3>1. log' \in Seq(LogRecords)
      BY <2>1, <2>2 DEF VoiceBegins, ChatTypes
    <3> QED BY <2>2, <3>1 DEF VoiceBegins, ChatTypes, serverVars
  <2>3. CASE VoiceReplies
    <3>1. log' \in Seq(LogRecords)
      BY <2>1, <2>3 DEF VoiceReplies, ChatTypes
    <3>2. floor' = Free /\ UNCHANGED <<page, post, job, queue, results>>
      BY <2>3 DEF VoiceReplies, serverVars
    <3> QED BY <3>1, <3>2 DEF ChatTypes
  <2> QED BY <1>6, <2>2, <2>3
<1>7. CASE Shutdown \/ Restart
  <2>1. CASE Shutdown
    BY <2>1 DEF Shutdown, ChatTypes
  <2>2. CASE Restart
    BY <2>2 DEF Restart, ChatTypes
  <2> QED BY <1>7, <2>1, <2>2
<1>8. CASE UNCHANGED chatVars
  BY <1>8 DEF chatVars, serverVars, ChatTypes
<1> QED BY <1>1, <1>2, <1>3, <1>4, <1>5, <1>6, <1>7, <1>8
         DEF ChatNext, ClientStep, ServerStep, TurnMoves

(***************************************************************************)
(* One call per question.                                                  *)
(***************************************************************************)
\* At first there are no calls.
LEMMA CallsInitially == ASSUME ChatInit PROVE CallsInv
  BY DEF ChatInit, CallsInv

\* A chat in the queue stays where its job is queued, and is the only one.
LEMMA QueueGrows ==
  ASSUME ChatTypes, CallsInv, NEW e \in LaneCalls, queue' = Append(queue, e),
         e[1] = "chat" => job[e[2]] # "queued" /\ job'[e[2]] = "queued",
         \A q \in Questions : job[q] = "queued" => job'[q] = "queued"
  PROVE  /\ \A i \in DOMAIN queue' : queue'[i][1] = "chat" => job'[queue'[i][2]] = "queued"
         /\ \A i, j \in DOMAIN queue' :
              queue'[i][1] = "chat" /\ queue'[i] = queue'[j] => i = j
<1>1. /\ Len(queue) \in Nat /\ DOMAIN queue = 1..Len(queue)
      /\ DOMAIN queue' = 1..(Len(queue) + 1) /\ queue'[Len(queue) + 1] = e
      /\ \A i \in 1..Len(queue) : queue'[i] = queue[i] /\ queue[i] \in LaneCalls
  BY DEF ChatTypes
<1>2. \A i \in 1..Len(queue) : queue[i][2] \in Questions
  BY <1>1 DEF LaneCalls
<1>3. \A i \in 1..Len(queue) : queue[i][1] = "chat" => queue[i] # e
  BY <1>1, <1>2 DEF CallsInv
<1>4. \A i \in DOMAIN queue' : queue'[i][1] = "chat" => job'[queue'[i][2]] = "queued"
  BY <1>1, <1>2 DEF CallsInv
<1>5. ASSUME NEW i \in DOMAIN queue', NEW j \in DOMAIN queue',
             queue'[i][1] = "chat", queue'[i] = queue'[j]
      PROVE  i = j
  BY <1>1, <1>3, <1>5 DEF CallsInv
<1> QED BY <1>4, <1>5

\* ... and leaves it in its turn.
LEMMA QueueShrinks ==
  ASSUME ChatTypes, CallsInv, queue # <<>>, queue' = Tail(queue),
         \A q \in Questions : job[q] = "queued" /\ Head(queue) # <<"chat", q>> => job'[q] = "queued"
  PROVE  /\ \A i \in DOMAIN queue' : queue'[i][1] = "chat" => job'[queue'[i][2]] = "queued"
         /\ \A i, j \in DOMAIN queue' :
              queue'[i][1] = "chat" /\ queue'[i] = queue'[j] => i = j
<1>1. /\ Len(queue) \in Nat \ {0} /\ DOMAIN queue = 1..Len(queue)
      /\ DOMAIN queue' = 1..(Len(queue) - 1) /\ Head(queue) = queue[1]
      /\ \A i \in 1..(Len(queue) - 1) : queue'[i] = queue[i + 1]
      /\ \A i \in 1..Len(queue) : queue[i] \in LaneCalls
  BY DEF ChatTypes
<1>2. \A i \in 1..Len(queue) : queue[i][2] \in Questions
                               /\ queue[i] = <<queue[i][1], queue[i][2]>>
  BY <1>1 DEF LaneCalls
<1>3. ASSUME NEW i \in DOMAIN queue', queue'[i][1] = "chat"
      PROVE  job'[queue'[i][2]] = "queued"
  <2>1. i + 1 \in 1..Len(queue) /\ queue'[i] = queue[i + 1] /\ 1 \in 1..Len(queue) /\ i + 1 # 1
    BY <1>1
  <2>2. Head(queue) # queue[i + 1]
    BY <1>1, <1>3, <2>1 DEF CallsInv
  <2>3. job[queue[i + 1][2]] = "queued"
    BY <1>1, <1>3, <2>1 DEF CallsInv
  <2> QED BY <1>2, <1>3, <2>1, <2>2, <2>3
<1>4. ASSUME NEW i \in DOMAIN queue', NEW j \in DOMAIN queue',
             queue'[i][1] = "chat", queue'[i] = queue'[j]
      PROVE  i = j
  <2>1. i + 1 \in 1..Len(queue) /\ queue'[i] = queue[i + 1]
    BY <1>1
  <2>2. j + 1 \in 1..Len(queue) /\ queue'[j] = queue[j + 1]
    BY <1>1
  <2>3. i + 1 = j + 1
    BY <1>1, <1>4, <2>1, <2>2 DEF CallsInv
  <2> QED BY <1>1, <2>3
<1> QED BY <1>3, <1>4

\* What a worker takes is a chat that is queued.
LEMMA ChatQueued ==
  ASSUME ChatTypes, CallsInv, ChatTaken
  PROVE  /\ queue # <<>> /\ Head(queue) = <<"chat", Head(queue)[2]>>
         /\ Head(queue)[2] \in Questions /\ job[Head(queue)[2]] = "queued"
<1>1. queue # <<>> /\ Head(queue)[1] = "chat"
  BY DEF ChatTaken
<1>2. Head(queue) \in LaneCalls /\ 1 \in DOMAIN queue /\ Head(queue) = queue[1]
  BY <1>1 DEF ChatTypes
<1> QED BY <1>1, <1>2 DEF LaneCalls, CallsInv

\* No step gives a question a second call, nor a job to one that has not arrived.
LEMMA CallsStep == ASSUME ChatTypes, CallsInv, [ChatNext]_chatVars PROVE CallsInv'
<1>1. ASSUME NEW q \in Questions, ClientStep(q) PROVE CallsInv'
  <2>1. CASE Ask(q)
    BY <2>1 DEF Ask, ChatTypes, CallsInv, serverVars
  <2>2. CASE PageLeft(q)
    BY <2>2 DEF PageLeft, ChatTypes, CallsInv, serverVars
  <2>3. CASE PostLost(q)
    BY <2>3 DEF PostLost, Hears, ChatTypes, CallsInv, serverVars
  <2>4. CASE PollSent(q)
    <3>1. <<"poll", q>> \in LaneCalls /\ <<"poll", q>>[1] # "chat"
      BY DEF LaneCalls
    <3>2. queue' = Append(queue, <<"poll", q>>) /\ UNCHANGED <<page, post, job>>
      BY <2>4 DEF PollSent
    <3> QED BY <3>1, <3>2, QueueGrows DEF CallsInv
  <2>5. CASE PollTimesOut(q)
    <3>1. queue' = [i \in DOMAIN queue |-> IF queue[i] = <<"poll", q>> THEN <<"stale", q>> ELSE queue[i]]
          /\ UNCHANGED <<page, post, job>>
      BY <2>5 DEF PollTimesOut
    <3>2. \A i \in DOMAIN queue' : i \in DOMAIN queue
            /\ (queue'[i][1] = "chat" => queue'[i] = queue[i])
      BY <3>1
    <3>3. \A i, j \in DOMAIN queue' : queue'[i][1] = "chat" /\ queue'[i] = queue'[j] => i = j
      BY <3>2 DEF CallsInv
    <3>4. \A i \in DOMAIN queue' : queue'[i][1] = "chat" => job[queue'[i][2]] = "queued"
      BY <3>2 DEF CallsInv
    <3> QED BY <3>1, <3>3, <3>4 DEF CallsInv
  <2> QED BY <1>1, <2>1, <2>2, <2>3, <2>4, <2>5 DEF ClientStep
<1>2. ASSUME NEW q \in Questions, ServerStep(q) PROVE CallsInv'
  <2>1. CASE PostArrives(q)
    <3>1. CASE UNCHANGED <<job, queue, inflight>> /\ post' = [post EXCEPT ![q] = "answered"]
      BY <2>1, <3>1 DEF PostArrives, Hears, ChatTypes, CallsInv
    <3>2. CASE /\ queue' = Append(queue, <<"chat", q>>) /\ job' = [job EXCEPT ![q] = "queued"]
               /\ post' = [post EXCEPT ![q] = "waits"] /\ UNCHANGED page
      <4>1. <<"chat", q>> \in LaneCalls /\ <<"chat", q>>[2] = q
        BY DEF LaneCalls
      <4>2. job[q] = "none" /\ job'[q] = "queued" /\ page[q] # "unasked"
        BY <2>1, <3>2 DEF PostArrives, ChatTypes, CallsInv
      <4>3. \A p \in Questions : job[p] = "queued" => job'[p] = "queued"
        BY <3>2 DEF ChatTypes
      <4>4. \A p \in Questions : /\ page'[p] = "unasked" => post'[p] = "none"
                                /\ post'[p] \in {"none", "flying"} => job'[p] = "none"
        BY <3>2, <4>2 DEF ChatTypes, CallsInv
      <4> QED BY <3>2, <4>1, <4>2, <4>3, <4>4, QueueGrows DEF CallsInv
    <3> QED BY <2>1, <3>1, <3>2 DEF PostArrives
  <2>2. CASE RouteAnswers(q)
    BY <2>2 DEF RouteAnswers, Hears, ChatTypes, CallsInv, serverVars
  <2>3. CASE RouteTimesOut(q)
    BY <2>3 DEF RouteTimesOut, Hears, ChatTypes, CallsInv, serverVars
  <2> QED BY <1>2, <2>1, <2>2, <2>3 DEF ServerStep
<1>3. ASSUME NEW q \in Questions, TurnMoves(q) PROVE CallsInv'
  <2>1. /\ UNCHANGED <<page, post, queue>> /\ job[q] \in {"begun", "talking"}
        /\ \A p \in Questions \ {q} : job'[p] = job[p]
    BY <1>3 DEF TurnMoves, TurnBegins, TurnRefused, TurnReplies, Ends, ChatTypes
  <2>2. \A i \in DOMAIN queue : queue[i][2] \in Questions
    BY DEF ChatTypes, LaneCalls
  <2>3. post[q] \notin {"none", "flying"}
    BY <2>1 DEF CallsInv
  <2>4. \A i \in DOMAIN queue : queue[i][1] = "chat" => job'[queue[i][2]] = "queued"
    BY <2>1, <2>2 DEF CallsInv
  <2>5. \A p \in Questions : /\ page'[p] = "unasked" => post'[p] = "none"
                            /\ post'[p] \in {"none", "flying"} => job'[p] = "none"
    BY <2>1, <2>3 DEF CallsInv
  <2> QED BY <2>1, <2>4, <2>5 DEF CallsInv
<1>4. CASE ChatTaken
  <2> DEFINE q == Head(queue)[2]
  <2>1. Head(queue) = <<"chat", q>> /\ q \in Questions /\ job[q] = "queued"
    BY <1>4, ChatQueued
  <2>2. job' = [job EXCEPT ![q] = "begun"] /\ UNCHANGED <<page, post>> /\ queue # <<>>
        /\ queue' = Tail(queue)
    BY <1>4 DEF ChatTaken
  <2>3. \A p \in Questions : job[p] = "queued" /\ Head(queue) # <<"chat", p>> => job'[p] = "queued"
    BY <2>1, <2>2 DEF ChatTypes
  <2>4. \A p \in Questions : /\ page'[p] = "unasked" => post'[p] = "none"
                            /\ post'[p] \in {"none", "flying"} => job'[p] = "none"
    BY <2>1, <2>2 DEF ChatTypes, CallsInv
  <2> QED BY <2>2, <2>3, <2>4, QueueShrinks DEF CallsInv
<1>5. CASE PollTaken
  <2>1. queue # <<>> /\ queue' = Tail(queue) /\ UNCHANGED <<post, job>>
    BY <1>5 DEF PollTaken
  <2>2. Head(queue)[2] \in Questions
    BY <2>1 DEF ChatTypes, LaneCalls
  <2>3. \A p \in Questions : page'[p] = "unasked" => page[p] = "unasked"
    <3>1. CASE UNCHANGED <<page, poll>>
      BY <3>1
    <3>2. CASE page' = [page EXCEPT ![Head(queue)[2]] = IF @ = "waiting" THEN Shown(Head(queue)[2]) ELSE @]
      <4>1. Shown(Head(queue)[2]) # "unasked"
        BY <2>2 DEF Shown, ChatTypes
      <4> QED BY <3>2, <4>1, <2>2 DEF ChatTypes
    <3> QED BY <1>5, <3>1, <3>2 DEF PollTaken
  <2> QED BY <2>1, <2>3, QueueShrinks DEF CallsInv
<1>6. CASE VoiceBegins \/ VoiceReplies
  BY <1>6 DEF VoiceBegins, VoiceReplies, CallsInv, serverVars
<1>7. CASE Shutdown
  BY <1>7 DEF Shutdown, ChatTypes, CallsInv
<1>8. CASE Restart
  BY <1>8 DEF Restart, ChatTypes, CallsInv
<1>9. CASE UNCHANGED chatVars
  BY <1>9 DEF chatVars, serverVars, CallsInv
<1> QED BY <1>1, <1>2, <1>3, <1>4, <1>5, <1>6, <1>7, <1>8, <1>9
         DEF ChatNext, ClientStep, ServerStep, TurnMoves

(***************************************************************************)
(* The lane's count.                                                       *)
(***************************************************************************)
\* At first the lane counts nothing.
LEMMA CountInitially == ASSUME ChatInit PROVE CountInv
<1>1. Running = {}
  BY DEF ChatInit, Running
<1>2. inflight = 0 /\ Len(queue) = 0
  BY DEF ChatInit
<1> QED BY <1>1, <1>2, FS_EmptySet, ChatAssumption DEF CountInv, LaneExact

\* Who runs stays, joins or leaves, and the count of those who run with it.
LEMMA RunningStays ==
  ASSUME \A p \in Questions : job'[p] \in {"begun", "talking"} <=> job[p] \in {"begun", "talking"}
  PROVE  Running' = Running
  BY DEF Running

\* ... by one that was not among them,
LEMMA RunningJoins ==
  ASSUME CountInv, NEW q \in Questions, q \notin Running, job'[q] = "begun",
         \A p \in Questions \ {q} : job'[p] = job[p]
  PROVE  IsFiniteSet(Running') /\ Cardinality(Running') = Cardinality(Running) + 1
<1>1. Running' = Running \cup {q}
  BY DEF Running
<1> QED BY <1>1, FS_AddElement DEF CountInv

\* ... or by one that was.
LEMMA RunningLeaves ==
  ASSUME CountInv, NEW q \in Running, job'[q] \notin {"begun", "talking"},
         \A p \in Questions \ {q} : job'[p] = job[p]
  PROVE  IsFiniteSet(Running') /\ Cardinality(Running') = Cardinality(Running) - 1
<1>1. Running' = Running \ {q}
  BY DEF Running
<1> QED BY <1>1, FS_RemoveElement DEF CountInv

\* Every admission, end, refusal and cancellation changes the lane's count (_Lane of
\* http.server) by what it adds to or takes from the queue and the workers.
LEMMA CountStep == ASSUME ChatTypes, CallsInv, CountInv, [ChatNext]_chatVars PROVE CountInv'
<1>1. Cardinality(Running) \in Nat /\ Len(queue) \in Nat /\ MaxInflight \in Nat \ {0}
  BY FS_CardinalityType, ChatAssumption DEF CountInv, ChatTypes
<1>2. ASSUME NEW q \in Questions, ClientStep(q) PROVE CountInv'
  <2>1. UNCHANGED job
    BY <1>2 DEF ClientStep, Ask, PageLeft, PostLost, PollSent, PollTimesOut, serverVars
  <2>2. Running' = Running
    BY <2>1 DEF Running
  <2>3. CASE PollSent(q)
    <3>1. Len(queue') = Len(queue) + 1 /\ inflight' = inflight + 1 /\ inflight < MaxInflight
      BY <2>3 DEF PollSent, ChatTypes
    <3> QED BY <1>1, <2>2, <3>1 DEF CountInv, LaneExact
  <2>4. CASE PollTimesOut(q)
    <3>1. Len(queue') = Len(queue) /\ inflight' = inflight
      BY <2>4 DEF PollTimesOut, ChatTypes
    <3> QED BY <2>2, <3>1 DEF CountInv, LaneExact
  <2>5. CASE UNCHANGED serverVars
    BY <2>2, <2>5 DEF serverVars, CountInv, LaneExact
  <2> QED BY <1>2, <2>3, <2>4, <2>5 DEF ClientStep, Ask, PageLeft, PostLost
<1>3. ASSUME NEW q \in Questions, ServerStep(q) PROVE CountInv'
  <2>1. CASE UNCHANGED <<job, queue, inflight>>
    BY <2>1 DEF CountInv, LaneExact, Running
  <2>2. CASE /\ post[q] = "flying" /\ inflight < MaxInflight /\ inflight' = inflight + 1
             /\ queue' = Append(queue, <<"chat", q>>) /\ job' = [job EXCEPT ![q] = "queued"]
    <3>1. Running' = Running
      BY <2>2, RunningStays DEF ChatTypes, CallsInv
    <3>2. Len(queue') = Len(queue) + 1
      BY <2>2 DEF ChatTypes
    <3> QED BY <1>1, <2>2, <3>1, <3>2 DEF CountInv, LaneExact
  <2> QED BY <1>3, <2>1, <2>2 DEF ServerStep, PostArrives, RouteAnswers, RouteTimesOut, serverVars
<1>4. ASSUME NEW q \in Questions, TurnMoves(q) PROVE CountInv'
  <2>1. UNCHANGED queue
    BY <1>4 DEF TurnMoves, TurnBegins, TurnRefused, TurnReplies
  <2>2. CASE TurnBegins(q)
    <3>1. Running' = Running
      BY <2>2, RunningStays DEF TurnBegins, ChatTypes
    <3>2. UNCHANGED inflight
      BY <2>2 DEF TurnBegins
    <3> QED BY <2>1, <3>1, <3>2 DEF CountInv, LaneExact
  <2>3. CASE TurnRefused(q) \/ TurnReplies(q)
    <3>1. /\ inflight' = inflight - 1 /\ q \in Running /\ job'[q] \in {"ok", "failed"}
          /\ \A p \in Questions \ {q} : job'[p] = job[p]
      BY <2>3 DEF TurnRefused, TurnReplies, Ends, ChatTypes, Running
    <3>2. IsFiniteSet(Running') /\ Cardinality(Running') = Cardinality(Running) - 1
      BY <3>1, RunningLeaves
    <3>3. Cardinality(Running') \in Nat
      BY <3>2, FS_CardinalityType
    <3> QED BY <1>1, <2>1, <3>1, <3>2, <3>3 DEF CountInv, LaneExact
  <2> QED BY <1>4, <2>2, <2>3 DEF TurnMoves
<1>5. CASE ChatTaken
  <2> DEFINE q == Head(queue)[2]
  <2>1. queue # <<>> /\ q \in Questions /\ job[q] = "queued"
    BY <1>5, ChatQueued
  <2>2. job' = [job EXCEPT ![q] = "begun"] /\ queue' = Tail(queue) /\ UNCHANGED inflight
    BY <1>5 DEF ChatTaken
  <2>3. q \notin Running /\ job'[q] = "begun" /\ \A p \in Questions \ {q} : job'[p] = job[p]
    BY <2>1, <2>2 DEF Running, ChatTypes
  <2>4. IsFiniteSet(Running') /\ Cardinality(Running') = Cardinality(Running) + 1
    BY <2>1, <2>3, RunningJoins
  <2>5. Len(queue') = Len(queue) - 1
    BY <2>1, <2>2 DEF ChatTypes
  <2> QED BY <1>1, <2>2, <2>4, <2>5 DEF CountInv, LaneExact
<1>6. CASE PollTaken
  <2>1. queue # <<>> /\ queue' = Tail(queue) /\ UNCHANGED job /\ inflight' = inflight - 1
    BY <1>6 DEF PollTaken
  <2>2. Len(queue') = Len(queue) - 1
    BY <2>1 DEF ChatTypes
  <2> QED BY <1>1, <2>1, <2>2 DEF CountInv, LaneExact, Running
<1>7. CASE VoiceBegins \/ VoiceReplies
  BY <1>7 DEF VoiceBegins, VoiceReplies, CountInv, LaneExact, Running, serverVars
<1>8. CASE Shutdown
  <2>1. Running' = Running
    BY <1>8, RunningStays DEF Shutdown
  <2>2. inflight' = inflight - Len(queue) /\ Len(queue') = 0
    BY <1>8 DEF Shutdown
  <2> QED BY <1>1, <2>1, <2>2 DEF CountInv, LaneExact
<1>9. CASE Restart
  <2>1. Running' = {}
    BY <1>9 DEF Restart, Running
  <2>2. inflight' = 0 /\ Len(queue') = 0
    BY <1>9 DEF Restart
  <2> QED BY <1>1, <2>1, <2>2, FS_EmptySet DEF CountInv, LaneExact
<1>10. CASE UNCHANGED chatVars
  BY <1>10 DEF chatVars, serverVars, CountInv, LaneExact, Running
<1> QED BY <1>2, <1>3, <1>4, <1>5, <1>6, <1>7, <1>8, <1>9, <1>10
         DEF ChatNext, ClientStep, ServerStep, TurnMoves

\* What the text lane of http.server counts as outstanding is what is queued and what
\* runs, never more than it admits: across refusals, time-outs, cancellation, restarts.
THEOREM LaneCountsExactly == ChatSpec => []LaneExact
<1>1. ChatInit => LaneInv
  BY TypesInitially, CallsInitially, CountInitially DEF LaneInv
<1>2. LaneInv /\ [ChatNext]_chatVars => LaneInv'
  BY TypesStep, CallsStep, CountStep DEF LaneInv
<1>3. LaneInv => LaneExact
  BY DEF LaneInv, CountInv
<1> QED BY <1>1, <1>2, <1>3, PTL DEF ChatSpec

(***************************************************************************)
(* Replies follow what they reply to.                                      *)
(***************************************************************************)
\* At first nobody has the conversation and nothing is written.
LEMMA TalkInitially == ASSUME ChatInit PROVE TalkInv /\ Follows
  BY ChatAssumption DEF ChatInit, TalkInv, Follows, InTurn, Contains

\* A record of another kind is no reply to q; appended, it leaves the replies to q as
\* they were.
LEMMA Appended ==
  ASSUME NEW l \in Seq(LogRecords), NEW r \in LogRecords, NEW k \in Seq(LogRecords), k = Append(l, r),
         NEW q \in Questions, r # <<"reply", q>>, ~Contains(l, <<"reply", q>>)
  PROVE  ~Contains(k, <<"reply", q>>)
<1>1. \A i \in 1..Len(k) : k[i] = r \/ (i \in 1..Len(l) /\ k[i] = l[i])
  OBVIOUS
<1> QED BY <1>1 DEF Contains

\* What is written last.
LEMMA LastWritten ==
  ASSUME NEW l \in Seq(LogRecords), NEW r \in LogRecords
  PROVE  /\ Append(l, r) \in Seq(LogRecords) /\ Append(l, r) # <<>>
         /\ Append(l, r)[Len(Append(l, r))] = r
  OBVIOUS

\* A turn is begun by anyone who finds the conversation free.
LEMMA UserOrdered ==
  ASSUME NEW l \in Seq(LogRecords), NEW w \in Questions \cup {Voice}, InTurn(l)
  PROVE  InTurn(Append(l, <<"user", w>>))
<1>1. <<"user", w>> \in LogRecords /\ <<"user", w>>[1] = "user"
  BY DEF LogRecords
<1> QED BY <1>1 DEF InTurn

\* ... and replied to by who wrote last.
LEMMA ReplyOrdered ==
  ASSUME NEW l \in Seq(LogRecords), NEW w \in Questions \cup {Voice}, InTurn(l),
         l # <<>>, l[Len(l)] = <<"user", w>>, NEW kind \in {"reply", "refusal"}
  PROVE  InTurn(Append(l, <<kind, w>>))
<1>1. <<kind, w>> \in LogRecords /\ <<kind, w>>[2] = w
  BY DEF LogRecords
<1>2. Len(l) \in Nat \ {0} /\ DOMAIN l = 1..Len(l)
  OBVIOUS
<1> QED BY <1>1, <1>2 DEF InTurn

\* Where only pages and requests change, the page calls failed what has failed.
LEMMA TalkFrame ==
  ASSUME TalkInv, Follows, UNCHANGED <<job, results, floor, log>>,
         \A q \in Questions : page'[q] = "failed" =>
           /\ post'[q] \notin {"none", "flying"}
           /\ page[q] = "failed" \/ job[q] \in {"none", "failed"}
  PROVE  TalkInv' /\ Follows'
  BY DEF TalkInv, Follows

\* Where the log stands, a job goes on without a word.
LEMMA JobFrame ==
  ASSUME TalkInv, Follows, UNCHANGED <<page, post, log>>, floor' \in {floor, Free},
         \A q \in Questions :
           /\ job'[q] = "talking" => job[q] = "talking" /\ floor' = floor
           /\ results'[q] = "failed" => job'[q] = "failed"
           /\ job'[q] \notin {"ok", "gone"} => job[q] \notin {"ok", "gone"}
           /\ job'[q] \in {"queued", "begun", "talking"} =>
                job[q] \in {"queued", "begun", "talking"}
  PROVE  TalkInv' /\ Follows'
  BY DEF TalkInv, Follows

\* No step writes between a question and its reply, or fails a question that has one.
LEMMA TalkStep ==
  ASSUME ChatTypes, CallsInv, TalkInv, Follows, [ChatNext]_chatVars
  PROVE  TalkInv' /\ Follows'
<1>t. ChatTypes'
  BY TypesStep
<1>1. ASSUME NEW q \in Questions, ClientStep(q) PROVE TalkInv' /\ Follows'
  <2>1. UNCHANGED <<job, results, floor, log>>
    BY <1>1 DEF ClientStep, Ask, PageLeft, PostLost, PollSent, PollTimesOut, serverVars
  <2>2. ASSUME NEW p \in Questions, page'[p] = "failed"
        PROVE  page[p] = "failed" /\ post'[p] \notin {"none", "flying"}
    <3>1. CASE Ask(q)
      BY <2>2, <3>1 DEF Ask, ChatTypes, TalkInv
    <3>2. CASE PageLeft(q)
      BY <2>2, <3>2 DEF PageLeft, ChatTypes, TalkInv
    <3>3. CASE PostLost(q)
      BY <2>2, <3>3 DEF PostLost, Hears, ChatTypes, TalkInv
    <3>4. CASE PollSent(q) \/ PollTimesOut(q)
      BY <2>2, <3>4 DEF PollSent, PollTimesOut, TalkInv
    <3> QED BY <1>1, <3>1, <3>2, <3>3, <3>4 DEF ClientStep
  <2> QED BY <2>1, <2>2, TalkFrame
<1>2. ASSUME NEW q \in Questions, ServerStep(q) PROVE TalkInv' /\ Follows'
  <2>1. CASE PostArrives(q)
    <3>1. job[q] = "none" /\ page[q] # "failed" /\ UNCHANGED <<results, floor, log>>
      BY <2>1 DEF PostArrives, CallsInv, TalkInv
    <3>2. CASE UNCHANGED job /\ post' = [post EXCEPT ![q] = "answered"] /\ Hears(q, "failed")
      <4>1. \A p \in Questions : page'[p] = "failed" =>
              /\ post'[p] \notin {"none", "flying"}
              /\ page[p] = "failed" \/ job[p] \in {"none", "failed"}
        BY <3>1, <3>2 DEF Hears, ChatTypes, TalkInv
      <4> QED BY <3>1, <3>2, <4>1, TalkFrame
    <3>3. CASE job' = [job EXCEPT ![q] = "queued"] /\ post' = [post EXCEPT ![q] = "waits"]
               /\ UNCHANGED page
      <4>1. ~Contains(log, <<"reply", q>>) /\ results[q] # "failed"
        BY <3>1 DEF TalkInv
      <4>2. job'[q] = "queued" /\ \A p \in Questions \ {q} : job'[p] = job[p] /\ post'[p] = post[p]
        BY <3>3 DEF ChatTypes
      <4> QED BY <3>1, <3>3, <4>1, <4>2 DEF TalkInv, Follows
    <3> QED BY <2>1, <3>2, <3>3 DEF PostArrives
  <2>2. CASE RouteAnswers(q) \/ RouteTimesOut(q)
    <3>1. UNCHANGED <<job, results, floor, log>>
      BY <2>2 DEF RouteAnswers, RouteTimesOut, serverVars
    <3>2. \A p \in Questions : page'[p] = "failed" =>
            /\ post'[p] \notin {"none", "flying"}
            /\ page[p] = "failed" \/ job[p] \in {"none", "failed"}
      <4>1. CASE RouteAnswers(q)
        BY <4>1 DEF RouteAnswers, Hears, ChatTypes, TalkInv
      <4>2. CASE RouteTimesOut(q)
        BY <4>2 DEF RouteTimesOut, Hears, ChatTypes, TalkInv
      <4> QED BY <2>2, <4>1, <4>2
    <3> QED BY <3>1, <3>2, TalkFrame
  <2> QED BY <1>2, <2>1, <2>2 DEF ServerStep
<1>3. ASSUME NEW q \in Questions, TurnMoves(q) PROVE TalkInv' /\ Follows'
  <2>0. q # Free /\ UNCHANGED <<page, post>>
    BY <1>3, ChatAssumption DEF TurnMoves, TurnBegins, TurnRefused, TurnReplies
  <2>1. CASE TurnBegins(q)
    <3>1. /\ job[q] = "begun" /\ floor = Free /\ floor' = q /\ UNCHANGED results
          /\ job' = [job EXCEPT ![q] = "talking"] /\ log' = Append(log, <<"user", q>>)
      BY <2>1 DEF TurnBegins
    <3>2. /\ <<"user", q>> \in LogRecords /\ log \in Seq(LogRecords)
          /\ \A p \in Questions : <<"user", q>> # <<"reply", p>>
      BY DEF LogRecords, ChatTypes
    <3>3. log' # <<>> /\ log'[Len(log')] = <<"user", q>> /\ log' \in Seq(LogRecords)
      BY <3>1, <3>2, LastWritten
    <3>4. \A p \in Questions : ~Contains(log, <<"reply", p>>) => ~Contains(log', <<"reply", p>>)
      BY <3>1, <3>2, <3>3, Appended
    <3>5. InTurn(log')
      BY <3>1, <3>2, UserOrdered DEF Follows
    <3>6. /\ job'[q] = "talking" /\ \A p \in Questions \ {q} : job'[p] = job[p] /\ job[p] # "talking"
      BY <3>1, <2>0, ChatAssumption DEF ChatTypes, TalkInv
    <3>7. TalkInv'
      BY <3>1, <3>3, <3>4, <3>6, <2>0 DEF TalkInv
    <3> QED BY <3>4, <3>5, <3>7, <2>0 DEF Follows
  <2>2. CASE TurnRefused(q)
    <3>1. /\ job[q] = "begun" /\ job'[q] = "failed" /\ UNCHANGED <<floor, log>>
          /\ \A p \in Questions \ {q} : job'[p] = job[p]
      BY <2>2 DEF TurnRefused, Ends, ChatTypes
    <3>2. \A p \in Questions \ {q} : results'[p] \in {"none", results[p]}
      BY <2>2, KeepTypes DEF TurnRefused, Ends
    <3>3. \A p \in Questions : results'[p] = "failed" => job'[p] = "failed"
      BY <3>1, <3>2 DEF TalkInv
    <3> QED BY <2>0, <3>1, <3>3, JobFrame
  <2>3. CASE TurnReplies(q)
    <3>1. /\ job[q] = "talking" /\ floor = q /\ floor' = Free
          /\ log # <<>> /\ log[Len(log)] = <<"user", q>>
          /\ \A p \in Questions \ {q} : job'[p] = job[p] /\ job[p] # "talking"
      BY <2>3, <2>0 DEF TurnReplies, Ends, ChatTypes, TalkInv
    <3>2. ASSUME NEW how \in {"ok", "failed"}, Ends(q, how)
          PROVE  /\ job'[q] = how
                 /\ \A p \in Questions : results'[p] = "failed" => job'[p] = "failed"
      <4>1. job'[q] = how
        BY <3>2 DEF Ends, ChatTypes
      <4>2. \A d \in Questions : results'[d] \in {"none", IF d = q THEN how ELSE results[d]}
        BY <3>2, KeepTypes DEF Ends
      <4> QED BY <3>1, <4>1, <4>2 DEF TalkInv
    <3>3. CASE UNCHANGED log /\ Ends(q, "failed")
      BY <2>0, <3>1, <3>2, <3>3, JobFrame
    <3>4. CASE log' = Append(log, <<"reply", q>>) /\ Ends(q, "ok")
      <4>1. <<"reply", q>> \in LogRecords /\ log \in Seq(LogRecords) /\ log' \in Seq(LogRecords)
        BY <1>t DEF LogRecords, ChatTypes
      <4>2. \A p \in Questions \ {q} :
              ~Contains(log, <<"reply", p>>) => ~Contains(log', <<"reply", p>>)
        BY <3>4, <4>1, Appended
      <4>3. InTurn(log')
        BY <3>1, <3>4, <4>1, ReplyOrdered DEF Follows
      <4>4. job'[q] = "ok" /\ \A p \in Questions : results'[p] = "failed" => job'[p] = "failed"
        BY <3>2, <3>4
      <4>5. page[q] # "failed"
        BY <3>1 DEF TalkInv
      <4>6. TalkInv'
        BY <2>0, <3>1, <4>2, <4>4, <4>5 DEF TalkInv
      <4> QED BY <2>0, <4>2, <4>3, <4>5, <4>6 DEF Follows
    <3>5. CASE log' = Append(log, <<"refusal", q>>) /\ Ends(q, "failed")
      <4>1. /\ <<"refusal", q>> \in LogRecords /\ log \in Seq(LogRecords) /\ log' \in Seq(LogRecords)
            /\ \A p \in Questions : <<"refusal", q>> # <<"reply", p>>
        BY <1>t DEF LogRecords, ChatTypes
      <4>2. \A p \in Questions : ~Contains(log, <<"reply", p>>) => ~Contains(log', <<"reply", p>>)
        BY <3>5, <4>1, Appended
      <4>3. InTurn(log')
        BY <3>1, <3>5, <4>1, ReplyOrdered DEF Follows
      <4>4. job'[q] = "failed" /\ \A p \in Questions : results'[p] = "failed" => job'[p] = "failed"
        BY <3>2, <3>5
      <4>5. TalkInv'
        BY <2>0, <3>1, <4>2, <4>4 DEF TalkInv
      <4> QED BY <2>0, <4>2, <4>3, <4>5 DEF Follows
    <3> QED BY <2>3, <3>3, <3>4, <3>5 DEF TurnReplies
  <2> QED BY <1>3, <2>1, <2>2, <2>3 DEF TurnMoves
<1>4. CASE ChatTaken
  <2> DEFINE q == Head(queue)[2]
  <2>1. q \in Questions /\ job[q] = "queued"
    BY <1>4, ChatQueued
  <2>2. /\ job' = [job EXCEPT ![q] = "begun"] /\ Keep(q, "pending")
        /\ UNCHANGED <<page, post, log, floor>>
    BY <1>4 DEF ChatTaken
  <2>3. job'[q] = "begun" /\ \A p \in Questions \ {q} : job'[p] = job[p]
    BY <2>1, <2>2 DEF ChatTypes
  <2>4. \A d \in Questions : results'[d] \in {"none", IF d = q THEN "pending" ELSE results[d]}
    BY <2>1, <2>2, KeepTypes
  <2>5. \A p \in Questions : results'[p] = "failed" => job'[p] = "failed"
    BY <2>3, <2>4 DEF TalkInv
  <2> QED BY <2>1, <2>2, <2>3, <2>5, JobFrame
<1>5. CASE PollTaken
  <2> DEFINE q == Head(queue)[2]
  <2>1. queue # <<>> /\ UNCHANGED <<post, job, results, floor, log>>
    BY <1>5 DEF PollTaken
  <2>2. q \in Questions
    BY <2>1 DEF ChatTypes, LaneCalls
  <2>3. ASSUME NEW p \in Questions, page'[p] = "failed"
        PROVE  page[p] = "failed" \/ job[p] = "failed"
    <3>1. CASE UNCHANGED <<page, poll>>
      BY <2>3, <3>1
    <3>2. CASE page' = [page EXCEPT ![q] = IF @ = "waiting" THEN Shown(q) ELSE @]
      <4>1. Shown(q) = "failed" => job[q] = "failed"
        BY <2>2 DEF Shown, TalkInv, ChatTypes
      <4> QED BY <2>2, <2>3, <3>2, <4>1 DEF ChatTypes
    <3> QED BY <1>5, <3>1, <3>2 DEF PollTaken
  <2>4. \A p \in Questions : page'[p] = "failed" => post'[p] \notin {"none", "flying"}
    BY <2>1, <2>3 DEF TalkInv, CallsInv
  <2> QED BY <2>1, <2>3, <2>4, TalkFrame
<1>6. CASE VoiceBegins
  <2>1. /\ floor = Free /\ floor' = Voice /\ UNCHANGED <<page, post, job, results>>
        /\ log' = Append(log, <<"user", Voice>>)
    BY <1>6 DEF VoiceBegins, serverVars
  <2>2. /\ <<"user", Voice>> \in LogRecords /\ log \in Seq(LogRecords)
        /\ \A p \in Questions : <<"user", Voice>> # <<"reply", p>>
    BY DEF LogRecords, ChatTypes
  <2>3. log' # <<>> /\ log'[Len(log')] = <<"user", Voice>> /\ log' \in Seq(LogRecords)
    BY <2>1, <2>2, LastWritten
  <2>4. \A p \in Questions : ~Contains(log, <<"reply", p>>) => ~Contains(log', <<"reply", p>>)
    BY <2>1, <2>2, <2>3, Appended
  <2>5. InTurn(log')
    BY <2>1, <2>2, UserOrdered DEF Follows
  <2>6. \A p \in Questions : job[p] # "talking"
    BY <2>1, ChatAssumption DEF TalkInv
  <2>7. TalkInv'
    BY <2>1, <2>3, <2>4, <2>6 DEF TalkInv
  <2> QED BY <2>1, <2>4, <2>5, <2>7 DEF Follows
<1>7. CASE VoiceReplies
  <2>1. /\ floor = Voice /\ floor' = Free /\ UNCHANGED <<page, post, job, results>>
        /\ log' = Append(log, <<"reply", Voice>>)
    BY <1>7 DEF VoiceReplies, serverVars
  <2>2. log # <<>> /\ log[Len(log)] = <<"user", Voice>>
    BY <2>1, ChatAssumption DEF TalkInv
  <2>3. /\ <<"reply", Voice>> \in LogRecords /\ log \in Seq(LogRecords) /\ log' \in Seq(LogRecords)
        /\ \A p \in Questions : <<"reply", Voice>> # <<"reply", p>>
    BY <1>t, ChatAssumption DEF LogRecords, ChatTypes
  <2>4. \A p \in Questions : ~Contains(log, <<"reply", p>>) => ~Contains(log', <<"reply", p>>)
    BY <2>1, <2>3, Appended
  <2>5. InTurn(log')
    BY <2>1, <2>2, <2>3, ReplyOrdered DEF Follows
  <2>6. \A p \in Questions : job[p] # "talking"
    BY <2>1, ChatAssumption DEF TalkInv
  <2>7. TalkInv'
    BY <2>1, <2>4, <2>6 DEF TalkInv
  <2> QED BY <2>1, <2>4, <2>5, <2>7 DEF Follows
<1>8. CASE Shutdown
  <2>1. \A p \in Questions : job'[p] = IF job[p] = "queued" THEN "cancelled" ELSE job[p]
    BY <1>8 DEF Shutdown
  <2>2. UNCHANGED <<page, post, log, floor, results>>
    BY <1>8 DEF Shutdown
  <2>3. \A p \in Questions : results'[p] = "failed" => job'[p] = "failed"
    BY <2>1, <2>2 DEF TalkInv
  <2> QED BY <2>1, <2>2, <2>3, JobFrame
<1>9. CASE Restart
  <2>1. /\ floor' = Free /\ UNCHANGED log
        /\ \A p \in Questions :
             /\ job'[p] = IF job[p] = "none" THEN "none" ELSE "gone"
             /\ results'[p] = "none"
             /\ page'[p] = "failed" => page[p] = "failed"
             /\ post'[p] \in {"none", "flying"} => post[p] = post'[p]
    BY <1>9 DEF Restart, ChatTypes
  <2> QED BY <2>1 DEF TalkInv, Follows
<1>10. CASE UNCHANGED chatVars
  BY <1>10, TalkFrame DEF chatVars, serverVars, TalkInv
<1> QED BY <1>1, <1>2, <1>3, <1>4, <1>5, <1>6, <1>7, <1>8, <1>9, <1>10
         DEF ChatNext, ClientStep, ServerStep, TurnMoves

\* What is written stays written.
LEMMA StaysWritten ==
  ASSUME NEW l \in Seq(LogRecords), NEW r \in LogRecords, NEW x, Contains(l, x)
  PROVE  Contains(Append(l, r), x)
<1>1. PICK i \in 1..Len(l) : l[i] = x
  BY DEF Contains
<1>2. i \in 1..Len(Append(l, r)) /\ Append(l, r)[i] = x
  BY <1>1
<1> QED BY <1>2 DEF Contains

\* A question is not called answered before its reply is written.
LEMMA AnsweredStep ==
  ASSUME ChatTypes, CallsInv, AnsweredInv, [ChatNext]_chatVars
  PROVE  AnsweredInv'
<1>. DEFINE Kept == \A q \in Questions : Contains(log, <<"reply", q>>) => Contains(log', <<"reply", q>>)
<1>k. ASSUME Kept, \A q \in Questions : Answered(q)' => Answered(q) \/ Contains(log', <<"reply", q>>)
      PROVE  AnsweredInv'
  BY <1>k DEF AnsweredInv
<1>l. UNCHANGED log => Kept
  OBVIOUS
<1>a. ASSUME NEW r \in LogRecords, log' = Append(log, r) PROVE Kept
  BY <1>a, StaysWritten DEF ChatTypes
<1>1. ASSUME NEW q \in Questions, ClientStep(q) PROVE AnsweredInv'
  <2>1. UNCHANGED log
    BY <1>1 DEF ClientStep, Ask, PageLeft, PostLost, PollSent, PollTimesOut
  <2>2. \A p \in Questions : Answered(p)' => Answered(p)
    BY <1>1 DEF ClientStep, Ask, PageLeft, PostLost, PollSent, PollTimesOut, serverVars, Hears, Answered, ChatTypes
  <2> QED BY <1>k, <1>l, <2>1, <2>2
<1>2. ASSUME NEW q \in Questions, ServerStep(q) PROVE AnsweredInv'
  <2>1. UNCHANGED <<log, results>>
    BY <1>2 DEF ServerStep, PostArrives, RouteAnswers, RouteTimesOut, serverVars
  <2>2. \A p \in Questions : Answered(p)' => Answered(p)
    BY <1>2 DEF ServerStep, PostArrives, RouteAnswers, RouteTimesOut, serverVars, Hears, Answered, ChatTypes
  <2> QED BY <1>k, <1>l, <2>1, <2>2
<1>3. ASSUME NEW q \in Questions, TurnMoves(q) PROVE AnsweredInv'
  <2>1. CASE TurnBegins(q)
    <3>1. <<"user", q>> \in LogRecords /\ log' = Append(log, <<"user", q>>)
      BY <2>1 DEF TurnBegins, LogRecords
    <3>2. \A p \in Questions : Answered(p)' => Answered(p)
      BY <2>1 DEF TurnBegins, Answered, ChatTypes
    <3> QED BY <1>k, <1>a, <3>1, <3>2
  <2>2. ASSUME Ends(q, "failed"), UNCHANGED page PROVE \A p \in Questions : Answered(p)' => Answered(p)
    <3>1. \A p \in Questions : job'[p] \in {"failed", job[p]}
      BY <2>2 DEF Ends, ChatTypes
    <3>2. \A p \in Questions : results'[p] \in {"none", IF p = q THEN "failed" ELSE results[p]}
      BY <2>2, KeepTypes DEF Ends
    <3> QED BY <2>2, <3>1, <3>2 DEF Answered
  <2>3. CASE TurnRefused(q)
    BY <1>k, <1>l, <2>2, <2>3 DEF TurnRefused
  <2>4. CASE TurnReplies(q)
    <3>1. <<"reply", q>> \in LogRecords /\ <<"refusal", q>> \in LogRecords /\ log \in Seq(LogRecords)
      BY DEF LogRecords, ChatTypes
    <3>2. CASE log' = Append(log, <<"reply", q>>) /\ Ends(q, "ok")
      <4>1. Contains(log', <<"reply", q>>)
        <5>1. Len(log') \in 1..Len(log') /\ log'[Len(log')] = <<"reply", q>>
          BY <3>1, <3>2
        <5> QED BY <5>1 DEF Contains
      <4>2. \A p \in Questions \ {q} : job'[p] = job[p]
        BY <3>2 DEF Ends, ChatTypes
      <4>3. \A p \in Questions \ {q} : results'[p] \in {"none", results[p]}
        BY <3>2, KeepTypes DEF Ends
      <4>4. \A p \in Questions \ {q} : Answered(p)' => Answered(p)
        BY <2>4, <4>2, <4>3 DEF Answered, TurnReplies
      <4> QED BY <1>k, <1>a, <3>1, <3>2, <4>1, <4>4
    <3>3. CASE (log' = Append(log, <<"refusal", q>>) \/ UNCHANGED log) /\ Ends(q, "failed")
      BY <1>k, <1>l, <1>a, <2>2, <2>4, <3>1, <3>3 DEF TurnReplies
    <3> QED BY <2>4, <3>2, <3>3 DEF TurnReplies
  <2> QED BY <1>3, <2>1, <2>3, <2>4 DEF TurnMoves
<1>4. CASE ChatTaken
  <2> DEFINE q == Head(queue)[2]
  <2>1. q \in Questions
    BY <1>4, ChatQueued
  <2>2. job' = [job EXCEPT ![q] = "begun"] /\ Keep(q, "pending") /\ UNCHANGED <<page, log>>
    BY <1>4 DEF ChatTaken
  <2>3. \A d \in Questions : results'[d] \in {"none", IF d = q THEN "pending" ELSE results[d]}
    BY <2>1, <2>2, KeepTypes
  <2>4. \A p \in Questions : Answered(p)' => Answered(p)
    BY <2>2, <2>3 DEF Answered, ChatTypes
  <2> QED BY <1>k, <1>l, <2>2, <2>4
<1>5. CASE PollTaken
  <2> DEFINE q == Head(queue)[2]
  <2>1. queue # <<>> /\ UNCHANGED <<job, results, log>>
    BY <1>5 DEF PollTaken
  <2>2. q \in Questions
    BY <2>1 DEF ChatTypes, LaneCalls
  <2>3. \A p \in Questions : Answered(p)' => Answered(p)
    <3>1. CASE UNCHANGED <<page, poll>>
      BY <2>1, <3>1 DEF Answered
    <3>2. CASE page' = [page EXCEPT ![q] = IF @ = "waiting" THEN Shown(q) ELSE @]
      <4>1. Shown(q) = "answered" => results[q] = "ok"
        BY <2>2 DEF Shown, ChatTypes
      <4> QED BY <2>1, <2>2, <3>2, <4>1 DEF ChatTypes, Answered
    <3> QED BY <1>5, <3>1, <3>2 DEF PollTaken
  <2> QED BY <1>k, <1>l, <2>1, <2>3
<1>6. CASE VoiceBegins \/ VoiceReplies
  <2>1. /\ <<"user", Voice>> \in LogRecords /\ <<"reply", Voice>> \in LogRecords
        /\ log' = Append(log, <<"user", Voice>>) \/ log' = Append(log, <<"reply", Voice>>)
    BY <1>6 DEF VoiceBegins, VoiceReplies, LogRecords
  <2>2. UNCHANGED <<page, job, results>>
    BY <1>6 DEF VoiceBegins, VoiceReplies, serverVars
  <2> QED BY <1>k, <1>a, <2>1, <2>2 DEF Answered
<1>7. CASE Shutdown \/ Restart
  <2>1. /\ UNCHANGED log
        /\ \A p \in Questions : /\ job'[p] = "ok" => job[p] = "ok"
                                /\ results'[p] = "ok" => results[p] = "ok"
                                /\ page'[p] = "answered" => page[p] = "answered"
    BY <1>7 DEF Shutdown, Restart, ChatTypes
  <2> QED BY <1>k, <1>l, <2>1 DEF Answered
<1>8. CASE UNCHANGED chatVars
  BY <1>8, <1>k, <1>l DEF chatVars, serverVars, Answered
<1> QED BY <1>1, <1>2, <1>3, <1>4, <1>5, <1>6, <1>7, <1>8
         DEF ChatNext, ClientStep, ServerStep, TurnMoves

\* What the assistant wrote in the session follows what it answers, typed or spoken; a
\* question that the page calls answered has its reply there, and one that it calls failed
\* has none, but at most the notice that the chosen role refused (daemon.app's turns under
\* the conversation lock, and what is kept of them).
THEOREM RepliesFollowTheirTurns == ChatSpec => []RepliesFollow
<1>1. ChatInit => ChatInv
  <2>1. ChatInit => AnsweredInv
    BY DEF ChatInit, AnsweredInv, Answered
  <2> QED BY <2>1, TypesInitially, CallsInitially, CountInitially, TalkInitially DEF ChatInv, LaneInv
<1>2. ChatInv /\ [ChatNext]_chatVars => ChatInv'
  BY TypesStep, CallsStep, CountStep, TalkStep, AnsweredStep DEF ChatInv, LaneInv
<1>3. ChatInv => RepliesFollow
  BY DEF ChatInv, Follows, InTurn, AnsweredInv, Answered, RepliesFollow
<1> QED BY <1>1, <1>2, <1>3, PTL DEF ChatSpec

(***************************************************************************)
(* The types, and the results that are kept.                               *)
(***************************************************************************)
\* The order names the kept results, each once, and never more than the bound.
KeptInv ==
  /\ keptOrder \in Seq(Questions) /\ Once(keptOrder) /\ Len(keptOrder) <= MaxResults
  /\ ToSet(keptOrder) = {q \in Questions : results[q] # "none"}

\* _keep_chat_result moves the question to the end and drops the oldest over the bound,
\* which is never the question itself.
LEMMA KeepKept ==
  ASSUME ChatTypes, KeptInv, NEW q \in Questions, NEW what \in {"pending", "ok", "failed"},
         Keep(q, what)
  PROVE  KeptInv' /\ forgotten' \subseteq forgotten \cup Questions
<1> DEFINE order == Append(RemoveFirst(keptOrder, q), q)
<1>1. /\ order \in Seq(Questions) /\ Once(order)
      /\ ToSet(order) = ToSet(keptOrder) \cup {q} /\ Len(order) <= Len(keptOrder) + 1
  BY Renewed DEF KeptInv
<1>2. Len(order) \in Nat /\ Len(keptOrder) \in Nat /\ MaxResults \in Nat \ {0}
  BY <1>1, LenProperties, ChatAssumption DEF KeptInv
<1>3. order # <<>> /\ order[Len(order)] = q
  <2>1. RemoveFirst(keptOrder, q) \in Seq(Questions)
    BY FirstIsSeq DEF KeptInv
  <2> QED BY <2>1, AppendProperties, LenProperties
<1> HIDE DEF order
<1>4. CASE Len(order) <= MaxResults
  <2>1. /\ keptOrder' = order /\ results' = [results EXCEPT ![q] = what]
        /\ forgotten' = forgotten \ {q}
    BY <1>4 DEF Keep, order
  <2>2. \A p \in Questions : results'[p] # "none" <=> p = q \/ results[p] # "none"
    BY <2>1 DEF ChatTypes
  <2>3. ToSet(order) = {p \in Questions : results'[p] # "none"}
    BY <1>1, <2>2 DEF KeptInv
  <2> QED BY <1>1, <1>4, <2>1, <2>3 DEF KeptInv
<1>5. CASE ~(Len(order) <= MaxResults)
  <2>1. /\ keptOrder' = Tail(order)
        /\ results' = [results EXCEPT ![q] = what, ![Head(order)] = "none"]
        /\ forgotten' = (forgotten \ {q}) \cup {Head(order)}
    BY <1>5 DEF Keep, order
  <2>2. /\ Tail(order) \in Seq(Questions) /\ Once(Tail(order)) /\ Len(Tail(order)) = Len(order) - 1
        /\ ToSet(Tail(order)) = ToSet(order) \ {Head(order)} /\ Head(order) \in ToSet(order)
    BY <1>1, <1>3, TailRest
  <2>3. Len(order) = MaxResults + 1
    BY <1>1, <1>2, <1>5 DEF KeptInv
  <2>4. Head(order) # q
    <3>1. Head(order) = order[1] /\ 1 \in 1..Len(order) /\ Len(order) \in 1..Len(order) /\ Len(order) # 1
      BY <1>1, <1>2, <1>3, <2>3, HeadTailProperties
    <3> QED BY <1>1, <1>3, <3>1 DEF Once
  <2>5. Head(order) \in Questions
    BY <1>1, <2>2 DEF KeptInv
  <2>6. \A p \in Questions : results'[p] # "none" <=> p # Head(order) /\ (p = q \/ results[p] # "none")
    BY <2>1, <2>4, <2>5 DEF ChatTypes
  <2>7. ToSet(Tail(order)) = {p \in Questions : results'[p] # "none"}
    BY <1>1, <2>2, <2>6 DEF KeptInv
  <2>8. Len(Tail(order)) <= MaxResults
    BY <1>2, <2>2, <2>3
  <2> QED BY <2>1, <2>2, <2>5, <2>7, <2>8 DEF KeptInv
<1> QED BY <1>4, <1>5

\* The counters and flags.
ChatRest ==
  /\ poll \in [Questions -> BOOLEAN] /\ serving \in {"up", "closing"}
  /\ spoken \in 0..MaxSpoken /\ lives \in 0..MaxLives /\ forgotten \subseteq Questions

\* No step disturbs the kept results or the other variables.
LEMMA ChatRestStep == ASSUME ChatTypes, KeptInv, ChatRest, [ChatNext]_chatVars PROVE KeptInv' /\ ChatRest'
<1>0. {MaxSpoken, MaxLives} \subseteq Nat
  BY ChatAssumption
<1>1. ASSUME NEW q \in Questions, ClientStep(q) PROVE KeptInv' /\ ChatRest'
  <2>1. UNCHANGED <<keptOrder, results, serving, spoken, lives, forgotten>>
    BY <1>1 DEF ClientStep, Ask, PageLeft, PostLost, PollSent, PollTimesOut, serverVars
  <2>2. poll' \in [Questions -> BOOLEAN]
    BY <1>1 DEF ClientStep, Ask, PageLeft, PostLost, PollSent, PollTimesOut, serverVars, ChatRest
  <2> QED BY <2>1, <2>2 DEF KeptInv, ChatRest
<1>2. ASSUME NEW q \in Questions, ServerStep(q) PROVE KeptInv' /\ ChatRest'
  <2>1. UNCHANGED <<keptOrder, results, poll, serving, spoken, lives, forgotten>>
    BY <1>2 DEF ServerStep, PostArrives, RouteAnswers, RouteTimesOut, serverVars
  <2> QED BY <2>1 DEF KeptInv, ChatRest
<1>3. ASSUME NEW q \in Questions, TurnMoves(q) PROVE KeptInv' /\ ChatRest'
  <2>1. UNCHANGED <<poll, serving, spoken, lives>>
    BY <1>3 DEF TurnMoves, TurnBegins, TurnRefused, TurnReplies
  <2>2. CASE TurnBegins(q)
    BY <2>1, <2>2 DEF TurnBegins, KeptInv, ChatRest
  <2>3. CASE TurnRefused(q) \/ TurnReplies(q)
    <3>1. Keep(q, "ok") \/ Keep(q, "failed")
      BY <2>3 DEF TurnRefused, TurnReplies, Ends
    <3>2. KeptInv' /\ forgotten' \subseteq forgotten \cup Questions
      BY <3>1, KeepKept
    <3> QED BY <2>1, <3>2 DEF ChatRest
  <2> QED BY <1>3, <2>2, <2>3 DEF TurnMoves
<1>4. CASE ChatTaken
  <2>1. Head(queue) \in LaneCalls
    BY <1>4 DEF ChatTaken, ChatTypes
  <2>2. Head(queue)[2] \in Questions
    BY <2>1 DEF LaneCalls
  <2>3. KeptInv' /\ forgotten' \subseteq forgotten \cup Questions
    BY <1>4, <2>2, KeepKept DEF ChatTaken
  <2>4. UNCHANGED <<poll, serving, spoken, lives>>
    BY <1>4 DEF ChatTaken
  <2> QED BY <2>3, <2>4 DEF ChatRest
<1>5. CASE PollTaken
  <2>1. UNCHANGED <<keptOrder, results, serving, spoken, lives, forgotten>>
    BY <1>5 DEF PollTaken
  <2>2. poll' = poll \/ poll' = [poll EXCEPT ![Head(queue)[2]] = FALSE]
    BY <1>5 DEF PollTaken
  <2> QED BY <2>1, <2>2 DEF KeptInv, ChatRest
<1>6. CASE VoiceBegins \/ VoiceReplies
  <2>1. UNCHANGED <<keptOrder, results, poll, serving, lives, forgotten>>
    BY <1>6 DEF VoiceBegins, VoiceReplies, serverVars
  <2>2. spoken' \in 0..MaxSpoken
    BY <1>0, <1>6 DEF VoiceBegins, VoiceReplies, ChatRest
  <2> QED BY <2>1, <2>2 DEF KeptInv, ChatRest
<1>7. CASE Shutdown
  BY <1>7 DEF Shutdown, KeptInv, ChatRest
<1>8. CASE Restart
  <2>1. keptOrder' = <<>> /\ \A q \in Questions : results'[q] = "none"
    BY <1>8 DEF Restart
  <2>2. keptOrder' \in Seq(Questions) /\ Len(keptOrder') = 0 /\ ToSet(keptOrder') = {}
    BY <2>1 DEF ToSet
  <2>3. KeptInv'
    BY <2>1, <2>2, ChatAssumption DEF KeptInv, Once
  <2>4. ChatRest'
    BY <1>0, <1>8 DEF Restart, ChatRest
  <2> QED BY <2>3, <2>4
<1>9. CASE UNCHANGED chatVars
  BY <1>9 DEF chatVars, serverVars, KeptInv, ChatRest
<1> QED BY <1>1, <1>2, <1>3, <1>4, <1>5, <1>6, <1>7, <1>8, <1>9
         DEF ChatNext, ClientStep, ServerStep, TurnMoves

\* At first nothing is kept.
LEMMA ChatRestInitially == ASSUME ChatInit PROVE KeptInv /\ ChatRest
<1>1. keptOrder = <<>> /\ \A q \in Questions : results[q] = "none"
  BY DEF ChatInit
<1>2. keptOrder \in Seq(Questions) /\ Len(keptOrder) = 0 /\ ToSet(keptOrder) = {}
  BY <1>1 DEF ToSet
<1>3. KeptInv
  BY <1>1, <1>2, ChatAssumption DEF KeptInv, Once
<1>4. ChatRest
  BY ChatAssumption DEF ChatInit, ChatRest
<1> QED BY <1>3, <1>4

\* Every variable keeps its type, and the kept results (_chat_results of daemon.app) are
\* those the order names, once each, within their bound.
THEOREM ChatTypeCorrect == ChatSpec => []ChatTypeOK
<1>1. ChatInit => ChatTypes /\ KeptInv /\ ChatRest
  BY TypesInitially, ChatRestInitially
<1>2. ChatTypes /\ KeptInv /\ ChatRest /\ [ChatNext]_chatVars => ChatTypes' /\ KeptInv' /\ ChatRest'
  BY TypesStep, ChatRestStep
<1>3. ChatTypes /\ KeptInv /\ ChatRest => ChatTypeOK
  BY DEF ChatTypes, KeptInv, ChatRest, ChatTypeOK
<1> QED BY <1>1, <1>2, <1>3, PTL DEF ChatSpec
=============================================================================

------------------------------ MODULE MeshProofs ------------------------------
(***************************************************************************)
(* Theorems about MeshAsks, for any number of asks, chat lines,            *)
(* conversations, restarts and any limits: asks survive the daemon, and    *)
(* answers are read once and in order.                                     *)
(*                                                                         *)
(* A line is in one of these places: the worker's hand, a conversation's   *)
(* waiting answers, the answers its turn took, or used. The invariant says *)
(* so by numbering: what waits is at most LinesDone, the order of the      *)
(* numbers is the order of the answers, and no two places share one. That  *)
(* carries an answer through the three ways the code moves it (appended on *)
(* arrival, joined by a continuation, put back by a failed turn).  What is *)
(* used of sequences without duplicates is proved in ChatProofs.           *)
(***************************************************************************)
EXTENDS MeshAsks, ChatProofs

\* What waits in a conversation: an answer to an ask, of the chat lines it took.
Items == {i \in [ask : Asks, who : Talkers, lines : SUBSET (1..MaxLines)] :
            \E l \in i.lines : \A m \in i.lines : l <= m}

\* The answers of a conversation are in the order of their first lines and share none.
Ordered(s) == \A i, j \in 1..Len(s) :
  i < j => First(s[i]) < First(s[j]) /\ s[i].lines \cap s[j].lines = {}

\* The k-th answer is continued by chat line n.
Joined(s, k, n) == [s EXCEPT ![k].lines = @ \cup {n}]

\* The lines of an answer are chat lines.
LEMMA ItemLines ==
  ASSUME NEW i \in Items
  PROVE  i.lines \subseteq 1..MaxLines /\ i.lines \subseteq Nat
<1>1. i.lines \in SUBSET (1..MaxLines)  BY DEF Items
<1>2. 1..MaxLines \subseteq Nat  BY MeshAssumption
<1> QED  BY <1>1, <1>2

\* First returns the least line of an answer.
LEMMA FirstIsLeast ==
  ASSUME NEW i \in Items
  PROVE  First(i) \in i.lines /\ (\A m \in i.lines : First(i) <= m) /\ First(i) \in Nat
<1>1. PICK l \in i.lines : \A m \in i.lines : l <= m  BY DEF Items
<1>2. First(i) \in i.lines /\ \A m \in i.lines : First(i) <= m  BY <1>1 DEF First
<1> QED  BY <1>2, ItemLines

\* A least line is the one First returns.
LEMMA FirstIs ==
  ASSUME NEW i \in Items, NEW l \in i.lines, \A m \in i.lines : l <= m
  PROVE  First(i) = l
<1>1. i.lines \subseteq Nat  BY ItemLines
<1> QED  BY <1>1, FirstIsLeast

\* A line is among Lines of a sequence when an answer of it has that line.
LEMMA LinesIn ==
  ASSUME NEW s \in Seq(Items), NEW l
  PROVE  l \in Lines(s) <=> \E i \in 1..Len(s) : l \in s[i].lines
<1>1. \A i \in 1..Len(s) : s[i].lines \subseteq 1..MaxLines  BY ElementOfSeq DEF Items
<1> QED  BY <1>1 DEF Lines

\* The lines of two sequences in a row are the lines of both.
LEMMA ConcatLines ==
  ASSUME NEW s \in Seq(Items), NEW t \in Seq(Items)
  PROVE  Lines(s \o t) = Lines(s) \cup Lines(t)
<1>1. s \o t \in Seq(Items)  BY ConcatProperties
<1>2. ASSUME NEW l, l \in Lines(s \o t) PROVE l \in Lines(s) \cup Lines(t)
  <2>1. PICK i \in 1..Len(s \o t) : l \in (s \o t)[i].lines  BY <1>1, <1>2, LinesIn
  <2>2. CASE i <= Len(s)  BY <2>1, <2>2, LinesIn, ConcatProperties, LenProperties
  <2>3. CASE i > Len(s)
    <3>1. i - Len(s) \in 1..Len(t)  BY <2>1, <2>3, ConcatProperties, LenProperties
    <3> QED  BY <2>1, <2>3, <3>1, LinesIn, ConcatProperties
  <2> QED  BY <2>1, <2>2, <2>3, LenProperties
<1>3. ASSUME NEW l, l \in Lines(s) PROVE l \in Lines(s \o t)
  <2>1. PICK i \in 1..Len(s) : l \in s[i].lines  BY <1>3, LinesIn
  <2>2. i \in 1..Len(s \o t) /\ (s \o t)[i] = s[i]  BY ConcatProperties, LenProperties
  <2> QED  BY <1>1, <2>1, <2>2, LinesIn
<1>4. ASSUME NEW l, l \in Lines(t) PROVE l \in Lines(s \o t)
  <2>1. PICK i \in 1..Len(t) : l \in t[i].lines  BY <1>4, LinesIn
  <2>2. i + Len(s) \in 1..Len(s \o t) /\ (s \o t)[i + Len(s)] = t[i]
    BY ConcatProperties, LenProperties
  <2> QED  BY <1>1, <2>1, <2>2, LinesIn
<1> QED  BY <1>2, <1>3, <1>4

\* Both parts of an ordered sequence are ordered and share no line.
LEMMA OrderedParts ==
  ASSUME NEW s \in Seq(Items), NEW t \in Seq(Items), Ordered(s \o t)
  PROVE  Ordered(s) /\ Ordered(t) /\ Lines(s) \cap Lines(t) = {}
<1>1. \A i \in 1..Len(t) : i + Len(s) \in 1..Len(s \o t) /\ (s \o t)[i + Len(s)] = t[i]
  BY ConcatProperties, LenProperties
<1>2. \A i \in 1..Len(s) : i \in 1..Len(s \o t) /\ (s \o t)[i] = s[i]
  BY ConcatProperties, LenProperties
<1>3. Ordered(t)
  <2>1. SUFFICES ASSUME NEW i \in 1..Len(t), NEW j \in 1..Len(t), i < j
                 PROVE  First(t[i]) < First(t[j]) /\ t[i].lines \cap t[j].lines = {}
    BY DEF Ordered
  <2>2. i + Len(s) < j + Len(s)  BY <2>1, LenProperties
  <2> QED  BY <1>1, <2>2 DEF Ordered
<1>4. ASSUME NEW l, l \in Lines(s), l \in Lines(t) PROVE FALSE
  <2>1. PICK i \in 1..Len(s) : l \in s[i].lines  BY <1>4, LinesIn
  <2>2. PICK j \in 1..Len(t) : l \in t[j].lines  BY <1>4, LinesIn
  <2>3. i < j + Len(s)  BY LenProperties
  <2> QED  BY <1>1, <1>2, <2>1, <2>2, <2>3 DEF Ordered
<1>5. Ordered(s)  BY <1>2 DEF Ordered
<1> QED  BY <1>3, <1>4, <1>5

\* A prefix of an ordered sequence is ordered, and what it lost came later than all it has.
LEMMA OrderedCut ==
  ASSUME NEW s \in Seq(Items), NEW k \in 0..Len(s), Ordered(s)
  PROVE  LET t == SubSeq(s, 1, k) IN
           /\ t \in Seq(Items) /\ Len(t) = k /\ Ordered(t) /\ Lines(t) \subseteq Lines(s)
           /\ \A l \in Lines(s) : l \in Lines(t) \/ \A i \in 1..k : First(t[i]) < l
<1> DEFINE t == SubSeq(s, 1, k)
<1>1. t \in Seq(Items) /\ Len(t) = k /\ \A i \in 1..k : t[i] = s[i] /\ i \in 1..Len(s)
  BY SubSeqProperties, LenProperties
<1> HIDE DEF t
<1>2. Ordered(t)  BY <1>1 DEF Ordered
<1>3. Lines(t) \subseteq Lines(s)  BY <1>1, LinesIn
<1>4. ASSUME NEW l \in Lines(s), l \notin Lines(t), NEW i \in 1..k PROVE First(t[i]) < l
  <2>1. PICK j \in 1..Len(s) : l \in s[j].lines  BY LinesIn
  <2>2. j > k  BY <1>1, <1>4, <2>1, LinesIn, LenProperties
  <2>3. First(s[i]) < First(s[j])  BY <1>1, <2>1, <2>2, LenProperties DEF Ordered
  <2>4. s[i] \in Items /\ s[j] \in Items  BY <1>1, ElementOfSeq
  <2>5. First(s[j]) <= l /\ l \in Nat /\ First(s[j]) \in Nat /\ First(s[i]) \in Nat
    BY <2>1, <2>4, FirstIsLeast, ItemLines
  <2> QED  BY <1>1, <2>3, <2>5
<1> QED  BY <1>1, <1>2, <1>3, <1>4 DEF t

\* An answer of later lines goes to the end and leaves the sequence ordered.
LEMMA OrderedAppend ==
  ASSUME NEW s \in Seq(Items), NEW x \in Items, Ordered(s),
         \A l \in Lines(s), m \in x.lines : l < m
  PROVE  /\ Append(s, x) \in Seq(Items) /\ Ordered(Append(s, x))
         /\ Lines(Append(s, x)) = Lines(s) \cup x.lines
<1> DEFINE t == Append(s, x)
<1>1. /\ t \in Seq(Items) /\ Len(t) = Len(s) + 1 /\ Len(s) \in Nat
      /\ t[Len(s) + 1] = x /\ \A i \in 1..Len(s) : t[i] = s[i]
  BY AppendProperties, LenProperties
<1> HIDE DEF t
<1>2. Ordered(t)
  <2>1. SUFFICES ASSUME NEW i \in 1..Len(t), NEW j \in 1..Len(t), i < j
                 PROVE  First(t[i]) < First(t[j]) /\ t[i].lines \cap t[j].lines = {}
    BY DEF Ordered
  <2>2. CASE j <= Len(s)  BY <1>1, <2>1, <2>2 DEF Ordered
  <2>3. CASE j = Len(s) + 1
    <3>1. i \in 1..Len(s) /\ t[i] = s[i] /\ t[j] = x /\ s[i] \in Items
      BY <1>1, <2>1, <2>3, ElementOfSeq
    <3>2. \A l \in s[i].lines : l \in Lines(s)  BY <3>1, LinesIn
    <3>3. First(s[i]) \in s[i].lines /\ First(x) \in x.lines  BY <3>1, FirstIsLeast
    <3>4. s[i].lines \subseteq Nat /\ x.lines \subseteq Nat  BY <3>1, ItemLines
    <3> QED  BY <3>1, <3>2, <3>3, <3>4
  <2> QED  BY <1>1, <2>1, <2>2, <2>3
<1>3. Lines(t) = Lines(s) \cup x.lines
  <2>1. ASSUME NEW l PROVE l \in Lines(t) <=> l \in Lines(s) \cup x.lines
    BY <1>1, LinesIn
  <2> QED  BY <2>1
<1> QED  BY <1>1, <1>2, <1>3 DEF t

\* A later line that joins an answer leaves the sequence ordered.
LEMMA OrderedJoin ==
  ASSUME NEW s \in Seq(Items), NEW k \in 1..Len(s), NEW n \in 1..MaxLines, Ordered(s),
         \A l \in Lines(s) : l < n
  PROVE  LET t == Joined(s, k, n) IN
           /\ t \in Seq(Items) /\ Len(t) = Len(s) /\ Ordered(t)
           /\ Lines(t) = Lines(s) \cup {n}
<1> DEFINE t == Joined(s, k, n)
           x == [s[k] EXCEPT !.lines = @ \cup {n}]
<1>1. s[k] \in Items  BY ElementOfSeq
<1>2. s[k].lines \subseteq Lines(s) /\ s[k].lines \subseteq 1..MaxLines  BY <1>1, LinesIn DEF Items
<1>3. First(s[k]) \in s[k].lines /\ \A m \in s[k].lines : First(s[k]) <= m  BY <1>1, FirstIsLeast
<1>4. x.lines = s[k].lines \cup {n} /\ x.ask = s[k].ask /\ x.who = s[k].who  BY <1>1 DEF Items
<1>5. First(s[k]) \in x.lines /\ \A m \in x.lines : First(s[k]) <= m
  BY <1>2, <1>3, <1>4, MeshAssumption
<1>6. x \in Items  BY <1>1, <1>2, <1>4, <1>5 DEF Items
<1>7. First(x) = First(s[k])  BY <1>5, <1>6, FirstIs
<1> HIDE DEF x
<1>8. t = [s EXCEPT ![k] = x]  BY <1>1 DEF x, Items, Joined
<1> HIDE DEF t
<1>9. /\ t \in Seq(Items) /\ Len(t) = Len(s) /\ t[k] = x
      /\ \A i \in 1..Len(s) : i # k => t[i] = s[i]
  BY <1>6, <1>8, ExceptSeq, LenProperties
<1>10. Ordered(t)
  <2>1. SUFFICES ASSUME NEW i \in 1..Len(s), NEW j \in 1..Len(s), i < j
                 PROVE  First(t[i]) < First(t[j]) /\ t[i].lines \cap t[j].lines = {}
    BY <1>9 DEF Ordered
  <2>2. First(s[i]) < First(s[j]) /\ s[i].lines \cap s[j].lines = {}  BY <2>1 DEF Ordered
  <2>3. \A q \in 1..Len(s) : n \notin s[q].lines
    <3>1. SUFFICES ASSUME NEW q \in 1..Len(s), n \in s[q].lines PROVE FALSE  OBVIOUS
    <3>2. n \in Lines(s)  BY <3>1, LinesIn
    <3>3. n < n /\ n \in Nat  BY <3>2, MeshAssumption
    <3> QED  BY <3>3
  <2>4. \A q \in 1..Len(s) : First(t[q]) = First(s[q])  BY <1>7, <1>9
  <2>5. t[i].lines \cap t[j].lines = {}
    <3>1. CASE i = k  BY <1>4, <1>9, <2>1, <2>2, <2>3, <3>1
    <3>2. CASE j = k  BY <1>4, <1>9, <2>1, <2>2, <2>3, <3>2
    <3> QED  BY <1>9, <2>2, <3>1, <3>2
  <2> QED  BY <2>2, <2>4, <2>5
<1>11. Lines(t) = Lines(s) \cup {n}
  <2>1. ASSUME NEW l PROVE l \in Lines(t) <=> l \in Lines(s) \cup {n}
    BY <1>4, <1>9, LinesIn
  <2> QED  BY <2>1
<1> QED  BY <1>9, <1>10, <1>11 DEF t

\* What is put at the end of the second part is put at the end of the whole.
LEMMA ConcatAppend ==
  ASSUME NEW s \in Seq(Items), NEW t \in Seq(Items), NEW x \in Items
  PROVE  s \o Append(t, x) = Append(s \o t, x)
<1>1. Append(t, x) = t \o <<x>> /\ Append(s \o t, x) = (s \o t) \o <<x>> /\ <<x>> \in Seq(Items)
  BY AppendIsConcat, ConcatProperties
<1> QED  BY <1>1, ConcatAssociative

\* What joins an answer of the second part joins an answer of the whole.
LEMMA ConcatJoin ==
  ASSUME NEW s \in Seq(Items), NEW t \in Seq(Items), NEW k \in 1..Len(t), NEW n \in 1..MaxLines
  PROVE  /\ Len(s) + k \in 1..Len(s \o t)
         /\ s \o Joined(t, k, n) = Joined(s \o t, Len(s) + k, n)
<1> DEFINE x == [t[k] EXCEPT !.lines = @ \cup {n}]
           u == Joined(t, k, n)
           v == Joined(s \o t, Len(s) + k, n)
           U == [ask : Asks, who : Talkers, lines : SUBSET Nat]
<1>0. Items \subseteq U
  <2>1. 1..MaxLines \subseteq Nat  BY MeshAssumption
  <2> QED  BY <2>1 DEF Items
<1>1. /\ s \o t \in Seq(Items) /\ Len(s \o t) = Len(s) + Len(t)
      /\ \A i \in 1..Len(s) : (s \o t)[i] = s[i]
      /\ \A i \in 1..Len(t) : (s \o t)[i + Len(s)] = t[i]
      /\ Len(s) \in Nat /\ Len(t) \in Nat
  BY ConcatProperties, LenProperties
<1>2. Len(s) + k \in 1..Len(s \o t) /\ (s \o t)[Len(s) + k] = t[k]  BY <1>1
<1>3. t[k] \in U /\ n \in Nat  BY <1>0, ElementOfSeq, MeshAssumption
<1>4. x \in U  BY <1>3
<1>5. u = [t EXCEPT ![k] = x] /\ v = [s \o t EXCEPT ![Len(s) + k] = x]  BY <1>2 DEF Joined
<1> HIDE DEF x, u, v, U
<1>6. s \in Seq(U) /\ t \in Seq(U) /\ s \o t \in Seq(U)  BY <1>0, <1>1, SeqMonotonic
<1>7. u \in Seq(U) /\ Len(u) = Len(t) /\ \A i \in 1..Len(t) : u[i] = IF i = k THEN x ELSE t[i]
  BY <1>4, <1>5, <1>6, ExceptSeq, LenProperties
<1>8. /\ v \in Seq(U) /\ Len(v) = Len(s \o t)
      /\ \A i \in 1..Len(s \o t) : v[i] = IF i = Len(s) + k THEN x ELSE (s \o t)[i]
  <2> DEFINE w == s \o t
             j == Len(s) + k
  <2>1. w \in Seq(U) /\ j \in 1..Len(w) /\ v = [w EXCEPT ![j] = x]  BY <1>2, <1>5, <1>6
  <2> HIDE DEF w, j
  <2>2. /\ v \in Seq(U) /\ Len(v) = Len(w)
        /\ \A i \in 1..Len(w) : v[i] = IF i = j THEN x ELSE w[i]
    BY <1>4, <2>1, ExceptSeq, LenProperties
  <2> QED  BY <2>2 DEF w, j
<1>9. /\ s \o u \in Seq(U) /\ Len(s \o u) = Len(s) + Len(u)
      /\ \A i \in 1..Len(s) + Len(u) : (s \o u)[i] = IF i <= Len(s) THEN s[i] ELSE u[i - Len(s)]
  BY <1>6, <1>7, ConcatProperties
<1>10. ASSUME NEW i \in 1..Len(v) PROVE (s \o u)[i] = v[i]
  <2>1. (s \o t)[i] = IF i <= Len(s) THEN s[i] ELSE t[i - Len(s)]  BY <1>1, <1>8, ConcatProperties
  <2>2. i \in 1..Len(s) + Len(u) /\ v[i] = IF i = Len(s) + k THEN x ELSE (s \o t)[i]
    BY <1>1, <1>7, <1>8
  <2>3. CASE i <= Len(s)
    <3>1. i # Len(s) + k  BY <1>1, <2>3
    <3> QED  BY <1>9, <2>1, <2>2, <2>3, <3>1
  <2>4. CASE i > Len(s)
    <3>1. i - Len(s) \in 1..Len(t) /\ ~(i <= Len(s))  BY <1>1, <1>8, <2>4
    <3>2. i - Len(s) = k <=> i = Len(s) + k  BY <1>1, <3>1
    <3>3. (s \o u)[i] = u[i - Len(s)] /\ (s \o t)[i] = t[i - Len(s)]
      BY <1>9, <2>1, <2>2, <3>1
    <3>4. u[i - Len(s)] = IF i - Len(s) = k THEN x ELSE t[i - Len(s)]  BY <1>7, <3>1
    <3>5. CASE i = Len(s) + k  BY <2>2, <3>2, <3>3, <3>4, <3>5
    <3>6. CASE i # Len(s) + k  BY <2>2, <3>2, <3>3, <3>4, <3>6
    <3> QED  BY <3>5, <3>6
  <2>5. i \in Int /\ Len(s) \in Int  BY <1>1, <1>7, <2>2
  <2>6. i <= Len(s) \/ i > Len(s)  BY <2>5
  <2> QED  BY <2>3, <2>4, <2>6
<1>11. s \o u = v  BY <1>1, <1>7, <1>8, <1>9, <1>10, SeqEqual
<1> QED  BY <1>2, <1>11 DEF u, v

Places == {"idle", "tick", "judge", "rules", "arrived", "continued", "agent", "talking"}
\* The worker has a chat line in hand.
Working == listener.at \in {"judge", "rules", "arrived", "continued"}
\* The chat lines the worker is through with.
LinesDone == IF Working THEN listener.n - 1 ELSE listener.n
Turns == [at : {"none", "turn", "posting", "agent"}, chat : Chats, ask : Asks \cup {NoAsk},
          taken : Seq(Items)]
Listeners == [at : Places, n : 0..MaxLines, who : Talkers \cup {""}, thread : Asks \cup {NoAsk},
              addressed : BOOLEAN, picks : SUBSET Asks, ask : Asks \cup {NoAsk}]

\* The types, a group of variables each; the asks made are numbered without a gap.
BookTypes ==
  /\ book \in [Asks -> Statuses] /\ kept \in [Asks -> Statuses]
  /\ askedIn \in [Asks -> Chats \cup {"nobody"}]
  /\ \E k \in 0..MaxAsks : Made = 1..k
  /\ told \in [Asks -> Nat]
TurnTypes == turn \in Turns /\ (turn.at = "posting" => turn.ask \in Made)
ListenerTypes ==
  /\ lastAnswer \in [Talkers -> Asks \cup {NoAsk}]
  /\ listener \in Listeners
  /\ Working => listener.who \in Talkers /\ listener.n >= 1
  /\ listener.at \in {"arrived", "continued"} => listener.ask \in Made
AnswerTypes ==
  /\ waiting \in [Chats -> Seq(Items)] /\ lru \in Seq(Chats)
  /\ used \subseteq 1..MaxLines

\* What keeps the book right across crashes: an ask is durable as long as it is open, only
\* an overdue one expires, and one that was announced is shown or settled.
BookInv ==
  /\ \A a \in Asks \ Made : book[a] = "none" /\ kept[a] = "none"
  /\ \A a \in Asks : book[a] = "expired" \/ kept[a] = "expired" => a \in overdue
  /\ OpenIsDurable
  /\ \A a \in Asks : \/ told[a] = 0
                     \/ /\ told[a] = 1 /\ a \in Made \cap overdue
                        /\ a \in shown \/ book[a] \notin {"open", "expired"}

\* What keeps answers once and in order: a line that waits anywhere is a line the worker is
\* through with, waits in one conversation only, and was not used.
AnswersInv ==
  /\ used \subseteq 1..LinesDone
  /\ \A c \in Chats :
       /\ Ordered(Unused(c)) /\ Lines(Unused(c)) \subseteq (1..LinesDone) \ used
       /\ \A d \in Chats \ {c} : Lines(Unused(c)) \cap Lines(Unused(d)) = {}

MeshTypes == BookTypes /\ TurnTypes /\ ListenerTypes /\ AnswerTypes /\ boots \in Nat
\* The inductive invariant.
MeshInv == MeshTypes /\ BookInv /\ AnswersInv

\* What the assumption on the constants says of asks, bounds and conversations.
LEMMA AskFacts ==
  /\ Asks \subseteq Nat /\ NoAsk \notin Asks /\ MaxAsks \in Nat /\ MaxLines \in Nat
  /\ {PendingAnswers, ChatsKept} \subseteq Nat \ {0}
  /\ AgentChat \in Chats /\ "nobody" \notin Chats
BY MeshAssumption DEF Asks

\* Expire changes open asks that are overdue, and no other.
LEMMA ExpireFacts ==
  ASSUME NEW b \in [Asks -> Statuses]
  PROVE  /\ Expire(b) \in [Asks -> Statuses]
         /\ \A a \in Asks : Expire(b)[a] = IF b[a] = "open" /\ a \in overdue THEN "expired" ELSE b[a]
BY DEF Expire, Statuses

\* Pruning drops whole entries, never an open one.
LEMMA PrunedFacts ==
  ASSUME NEW b \in [Asks -> Statuses], NEW a \in Asks
  PROVE  /\ Pruned(b, a) \in [Asks -> Statuses]
         /\ \A d \in Asks : \/ Pruned(b, a)[d] = b[d]
                            \/ Pruned(b, a)[d] = "none" /\ b[d] # "open"
BY DEF Pruned, Statuses

\* A new ask gets the next number.
LEMMA NewAskIsNext ==
  ASSUME BookTypes, Made # Asks
  PROVE  /\ NewAsk \in Asks \ Made
         /\ \E k \in 1..MaxAsks : Made \cup {NewAsk} = 1..k
<1>1. PICK k \in 0..MaxAsks : Made = 1..k  BY DEF BookTypes
<1>2. k + 1 \in Asks \ Made /\ \A d \in Asks \ Made : k + 1 <= d
  BY <1>1, AskFacts DEF Asks
<1>3. NewAsk \in Asks \ Made /\ \A d \in Asks \ Made : NewAsk <= d
  BY <1>2 DEF NewAsk
<1>4. NewAsk = k + 1  BY <1>2, <1>3, AskFacts
<1>5. Made \cup {k + 1} = 1..(k + 1)  BY <1>1
<1>6. k + 1 \in 1..MaxAsks  BY <1>2 DEF Asks
<1> QED  BY <1>3, <1>4, <1>5, <1>6

\* A save leaves the new book or the old one on disk.
LEMMA SaveFacts ==
  ASSUME NEW b, SaveAsks(b)
  PROVE  kept' = b \/ kept' = kept
BY DEF SaveAsks

\* Recording an answer settles that ask only, and hands it to the worker's next step.
LEMMA RecordFacts ==
  ASSUME ListenerTypes, NEW b \in [Asks -> Statuses], NEW a \in Asks, listener.who \in Talkers,
         RecordAnswer(b, a)
  PROVE  /\ book' \in [Asks -> Statuses] /\ kept' \in {book', kept}
         /\ \A d \in Asks : book'[d] = IF d = a THEN "answered" ELSE b[d]
         /\ lastAnswer' \in [Talkers -> Asks \cup {NoAsk}]
         /\ listener' = [at |-> "arrived", n |-> listener.n, who |-> listener.who, thread |-> NoAsk,
                         addressed |-> FALSE, picks |-> {}, ask |-> a]
<1>1. listener' = [at |-> "arrived", n |-> listener.n, who |-> listener.who, thread |-> NoAsk,
                   addressed |-> FALSE, picks |-> {}, ask |-> a]
  BY DEF RecordAnswer, Listening
<1> QED  BY <1>1, SaveFacts DEF RecordAnswer, ListenerTypes, Statuses

\* No step disturbs the types of the book, and no ask made is unmade.
LEMMA BookTypesStep ==
  ASSUME MeshTypes, [MeshNext]_meshVars
  PROVE  BookTypes' /\ Made \subseteq Made'
<1> USE DEF MeshTypes
<1>0. ASSUME book' \in [Asks -> Statuses], kept' \in {book', kept, book}, UNCHANGED <<askedIn, told>>
      PROVE  BookTypes' /\ Made \subseteq Made'
  BY <1>0 DEF BookTypes, Made
<1>1. CASE UNCHANGED <<book, kept, askedIn, told>>  BY <1>1 DEF BookTypes, Made
<1>2. ASSUME NEW a \in Asks, TimePasses(a) PROVE UNCHANGED <<book, kept, askedIn, told>>
  BY <1>2 DEF TimePasses
<1>3. ASSUME NEW w \in Talkers, SecondsPass(w) PROVE UNCHANGED <<book, kept, askedIn, told>>
  BY <1>3 DEF SecondsPass
<1>4. ASSUME NEW c \in Chats, TurnTakes(c) PROVE UNCHANGED <<book, kept, askedIn, told>>
  BY <1>4 DEF TurnTakes, askVars
<1>5. CASE OpenAsk
  <2> DEFINE b == [Expire(book) EXCEPT ![NewAsk] = "open"]
  <2>1. NewAsk \in Asks /\ turn.chat \in Chats /\ NewAsk \notin Made
    BY <1>5, NewAskIsNext DEF OpenAsk, TurnTypes, Turns
  <2>2. b \in [Asks -> Statuses]  BY <2>1, ExpireFacts DEF BookTypes, Statuses
  <2> HIDE DEF b
  <2>3. Pruned(b, NewAsk) \in [Asks -> Statuses]  BY <2>1, <2>2, PrunedFacts
  <2>4. CASE /\ book' = Pruned(b, NewAsk) /\ kept' = Pruned(b, NewAsk)
             /\ askedIn' = [askedIn EXCEPT ![NewAsk] = turn.chat]
    <3>1. askedIn' \in [Asks -> Chats \cup {"nobody"}]  BY <2>1, <2>4 DEF BookTypes
    <3>2. Made' = Made \cup {NewAsk}  BY <2>1, <2>4, AskFacts DEF Made, BookTypes
    <3>3. \E k \in 0..MaxAsks : Made' = 1..k  BY <1>5, <3>2, NewAskIsNext DEF OpenAsk
    <3>4. told' = told  BY <1>5 DEF OpenAsk
    <3> QED  BY <2>3, <2>4, <3>1, <3>2, <3>3, <3>4 DEF BookTypes
  <2>5. CASE book' = [Pruned(b, NewAsk) EXCEPT ![NewAsk] = "none"] /\ UNCHANGED <<kept, askedIn>>
    <3>1. book' \in [Asks -> Statuses]  BY <2>3, <2>5 DEF Statuses
    <3>2. told' = told  BY <1>5 DEF OpenAsk
    <3> QED  BY <1>0, <2>5, <3>1, <3>2
  <2> QED  BY <1>5, <2>4, <2>5 DEF OpenAsk, b
<1>6. CASE AskRefused \/ PostAsk
  BY <1>0, <1>6, ExpireFacts DEF AskRefused, PostAsk, BookTypes
<1>7. CASE PostFails
  <2>1. book' \in [Asks -> Statuses] /\ kept' \in {book', kept}
    BY <1>7, SaveFacts DEF PostFails, BookTypes, Statuses
  <2> QED  BY <1>0, <1>7, <2>1 DEF PostFails
<1>8. CASE TurnEnds
  <2>1. book' = book /\ kept' \in {book, kept}  BY <1>8, SaveFacts DEF TurnEnds
  <2> QED  BY <1>0, <1>8, <2>1 DEF TurnEnds, BookTypes
<1>9. ASSUME NEW w \in Talkers, NEW t \in Asks \cup {NoAsk}, NEW p \in BOOLEAN, HearLine(w, t, p)
      PROVE  BookTypes' /\ Made \subseteq Made'
  <2>1. book' \in {book, Expire(book)} /\ kept' \in {book', kept} /\ UNCHANGED <<askedIn, told>>
    BY <1>9, SaveFacts DEF HearLine
  <2> QED  BY <1>0, <2>1, ExpireFacts DEF BookTypes
<1>10. ASSUME NEW a \in Asks, RecordAnswer(Expire(book), a), Working, UNCHANGED <<askedIn, told>>
       PROVE  BookTypes' /\ Made \subseteq Made'
  <2>1. Expire(book) \in [Asks -> Statuses] /\ listener.who \in Talkers
    BY <1>10, ExpireFacts DEF BookTypes, ListenerTypes
  <2> QED  BY <1>0, <1>10, <2>1, RecordFacts
<1>11. CASE Judge
  <2>1. Working /\ UNCHANGED <<askedIn, told>> /\ listener.picks \subseteq Asks
    BY <1>11 DEF Judge, Working, ListenerTypes, Listeners
  <2>2. \/ \E a \in Asks : RecordAnswer(Expire(book), a)
        \/ book' \in {book, Expire(book)} /\ kept' = kept
    BY <1>11, <2>1 DEF Judge, Attach
  <2> QED  BY <1>0, <1>10, <2>1, <2>2, ExpireFacts DEF BookTypes
<1>12. CASE Rules
  <2>1. Working /\ UNCHANGED <<askedIn, told>>  BY <1>12 DEF Rules, Working
  <2>2. Matches(Expire(book)) \subseteq Asks
    BY <1>12 DEF Matches, Open, ListenerTypes, Listeners
  <2>3. \/ \E a \in Asks : RecordAnswer(Expire(book), a)
        \/ book' \in {book, Expire(book)} /\ kept' \in {book', kept}
    BY <1>12, <2>2, SaveFacts DEF Rules
  <2> QED  BY <1>0, <1>10, <2>1, <2>3, ExpireFacts DEF BookTypes
<1>13. CASE AnswerArrived \/ AnswerContinued \/ AgentTurn
  BY <1>1, <1>13 DEF AnswerArrived, AnswerContinued, AgentTurn, askVars
<1>14. CASE Tick
  <2>1. book' = Expire(book) /\ UNCHANGED <<kept, askedIn>>  BY <1>14 DEF Tick
  <2>2. told' \in [Asks -> Nat]  BY <1>14 DEF Tick, BookTypes
  <2> QED  BY <2>1, <2>2, ExpireFacts DEF BookTypes, Made
<1>15. CASE Reboot
  BY <1>0, <1>15, ExpireFacts DEF Reboot, BookTypes
<1>16. CASE UNCHANGED meshVars  BY <1>1, <1>16 DEF meshVars, askVars
<1> QED
  BY <1>1, <1>2, <1>3, <1>4, <1>5, <1>6, <1>7, <1>8, <1>9, <1>11, <1>12, <1>13, <1>14, <1>15, <1>16
  DEF MeshNext, TurnStep, WorkerStep

\* The fields of the worker's record are what they are declared to be.
LEMMA ListenersSet ==
  ASSUME NEW x \in Listeners
  PROVE  /\ x.at \in Places /\ x.n \in 0..MaxLines /\ x.who \in Talkers \cup {""}
         /\ x.thread \in Asks \cup {NoAsk} /\ x.addressed \in BOOLEAN
         /\ x.picks \subseteq Asks /\ x.ask \in Asks \cup {NoAsk}
BY DEF Listeners

\* A worker with a line in hand is a listener.
LEMMA ListeningFacts ==
  ASSUME NEW n \in 0..MaxLines, NEW place \in Places
  PROVE  /\ Listening(n, place) \in Listeners
         /\ Listening(n, place).at = place /\ Listening(n, place).n = n
BY DEF Listening, Listeners

\* No step disturbs the types of the worker.
LEMMA ListenerTypesStep ==
  ASSUME MeshInv, [MeshNext]_meshVars
  PROVE  ListenerTypes'
<1> USE DEF MeshInv, MeshTypes
<1>0. Made \subseteq Made'  BY BookTypesStep
<1>1. CASE UNCHANGED <<lastAnswer, listener>>
  BY <1>0, <1>1 DEF ListenerTypes, Working
<1>2. ASSUME NEW place \in {"idle", "tick", "agent", "talking"},
             listener' = Listening(listener.n, place),
             lastAnswer' \in [Talkers -> Asks \cup {NoAsk}]
      PROVE  ListenerTypes'
  <2>0. listener.n \in 0..MaxLines /\ place \in Places  BY ListenersSet DEF ListenerTypes, Places
  <2>1. listener' \in Listeners /\ listener'.at = place  BY <1>2, <2>0, ListeningFacts
  <2> QED  BY <1>2, <2>1 DEF ListenerTypes, Working
<1>3. ASSUME listener' = Listening(listener.n, Unmatched("tick")), UNCHANGED lastAnswer
      PROVE  ListenerTypes'
  <2>1. lastAnswer' \in [Talkers -> Asks \cup {NoAsk}]  BY <1>3 DEF ListenerTypes
  <2>2. Unmatched("tick") \in {"tick", "agent"}  BY DEF Unmatched
  <2> QED  BY <1>2, <1>3, <2>1, <2>2
<1>4. ASSUME NEW a \in Asks, a \in Made, RecordAnswer(Expire(book), a), Working
      PROVE  ListenerTypes'
  <2>1. listener.who \in Talkers /\ Expire(book) \in [Asks -> Statuses] /\ listener \in Listeners
        /\ listener.n >= 1
    BY <1>4, ExpireFacts DEF BookTypes, ListenerTypes
  <2>2. /\ lastAnswer' \in [Talkers -> Asks \cup {NoAsk}]
        /\ listener' = [at |-> "arrived", n |-> listener.n, who |-> listener.who, thread |-> NoAsk,
                        addressed |-> FALSE, picks |-> {}, ask |-> a]
    BY <1>4, <2>1, RecordFacts
  <2>3. /\ listener' \in Listeners /\ listener'.at = "arrived" /\ listener'.ask = a
        /\ listener'.who = listener.who /\ listener'.n = listener.n
    BY <2>1, <2>2, ListenersSet DEF Listeners, Places
  <2> QED  BY <1>0, <1>4, <2>1, <2>2, <2>3 DEF ListenerTypes, Working
<1>5. CASE \/ \E a \in Asks : TimePasses(a)
           \/ \E c \in Chats : TurnTakes(c)
           \/ OpenAsk \/ AskRefused \/ PostAsk \/ PostFails
  BY <1>1, <1>5 DEF TimePasses, TurnTakes, OpenAsk, AskRefused, PostAsk, PostFails, askVars
<1>6. ASSUME NEW w \in Talkers, SecondsPass(w) PROVE ListenerTypes'
  <2>1. lastAnswer' \in [Talkers -> Asks \cup {NoAsk}] /\ listener' = listener
    BY <1>6 DEF SecondsPass, ListenerTypes
  <2> QED  BY <1>0, <2>1 DEF ListenerTypes, Working
<1>7. CASE TurnEnds
  <2>1. lastAnswer' \in [Talkers -> Asks \cup {NoAsk}]  BY <1>7 DEF TurnEnds, ListenerTypes
  <2> QED  BY <1>1, <1>2, <1>7, <2>1 DEF TurnEnds
<1>8. ASSUME NEW w \in Talkers, NEW t \in Asks \cup {NoAsk}, NEW p \in BOOLEAN, HearLine(w, t, p)
      PROVE  ListenerTypes'
  <2> DEFINE Heard(place, picks, ask) ==
        [at |-> place, n |-> listener.n + 1, who |-> w, thread |-> t, addressed |-> p,
         picks |-> picks, ask |-> ask]
  <2>1. listener.n + 1 \in 0..MaxLines /\ listener.n + 1 >= 1 /\ NoAsk \in Asks \cup {NoAsk}
    <3>1. listener.n \in 0..MaxLines  BY ListenersSet DEF ListenerTypes
    <3> QED  BY <1>8, <3>1, AskFacts DEF HearLine
  <2>2. ASSUME NEW place \in Places, NEW picks \in SUBSET Asks, NEW ask \in Asks \cup {NoAsk},
               listener' = Heard(place, picks, ask), place \in {"arrived", "continued"} => ask \in Made'
        PROVE  ListenerTypes'
    <3>1. Heard(place, picks, ask) \in Listeners  BY <2>1 DEF Listeners
    <3>2. lastAnswer' = lastAnswer  BY <1>8 DEF HearLine
    <3>3. /\ listener' \in Listeners /\ listener'.at = place /\ listener'.ask = ask
          /\ listener'.who = w /\ listener'.n = listener.n + 1
      BY <2>2, <3>1
    <3> QED  BY <2>1, <2>2, <3>2, <3>3 DEF ListenerTypes, Working
  <2>3. \/ \E place \in {"agent", "tick"} : listener' = Listening(listener.n + 1, place)
        \/ Continues(w, t, p) /\ listener' = Heard("continued", {}, lastAnswer[w])
        \/ \E place \in {"rules", "judge"}, picks \in SUBSET Asks : listener' = Heard(place, picks, NoAsk)
    <3>1. \A b : Candidates(b, t) \in SUBSET Asks  BY DEF Candidates
    <3> QED  BY <1>8, <3>1 DEF HearLine
  <2> HIDE DEF Heard
  <2>4. CASE Continues(w, t, p) /\ listener' = Heard("continued", {}, lastAnswer[w])
    <3>1. lastAnswer[w] \in Asks  BY <2>4 DEF Continues, ListenerTypes
    <3>2. lastAnswer[w] \in Made'  BY <1>0, <2>4, <3>1 DEF Continues, BookInv
    <3> QED  BY <2>2, <2>4, <3>1, <3>2 DEF Places
  <2>5. ASSUME NEW place \in {"rules", "judge"}, NEW picks \in SUBSET Asks,
               listener' = Heard(place, picks, NoAsk)
        PROVE  ListenerTypes'
    BY <2>1, <2>2, <2>5 DEF Places
  <2>6. ASSUME NEW place \in {"agent", "tick"}, listener' = Listening(listener.n + 1, place)
        PROVE  ListenerTypes'
    <3>1. listener' \in Listeners /\ listener'.at = place  BY <2>1, <2>6, ListeningFacts DEF Places
    <3>2. lastAnswer' = lastAnswer  BY <1>8 DEF HearLine
    <3> QED  BY <2>6, <3>1, <3>2 DEF ListenerTypes, Working
  <2> QED  BY <2>3, <2>4, <2>5, <2>6
<1>9. CASE Judge
  <2>1. Working /\ listener.picks \subseteq Asks /\ listener.who \in Talkers /\ listener.n >= 1
    BY <1>9 DEF Judge, Working, ListenerTypes, Listeners
  <2>2. ASSUME NEW a \in listener.picks, Attach(a) PROVE ListenerTypes'
    <3>1. CASE Expire(book)[a] \notin {"none", "failed"} /\ RecordAnswer(Expire(book), a)
      <4>1. a \in Made  BY <2>1, <3>1, ExpireFacts DEF BookInv, BookTypes
      <4> QED  BY <1>4, <2>1, <3>1, <4>1
    <3>2. CASE listener' = Listening(listener.n, Unmatched("tick")) /\ UNCHANGED lastAnswer
      BY <1>3, <3>2
    <3> QED  BY <2>2, <3>1, <3>2 DEF Attach
  <2>3. CASE listener' = Listening(listener.n, Unmatched("tick")) /\ UNCHANGED lastAnswer
    BY <1>3, <2>3
  <2>4. CASE listener' = [listener EXCEPT !.at = "rules", !.picks = {}] /\ UNCHANGED lastAnswer
    <3>1. /\ listener' \in Listeners /\ listener'.at = "rules"
          /\ listener'.who = listener.who /\ listener'.n = listener.n
      BY <2>4 DEF ListenerTypes, Listeners, Places
    <3> QED  BY <2>1, <2>4, <3>1 DEF ListenerTypes, Working
  <2> QED  BY <1>9, <2>2, <2>3, <2>4 DEF Judge
<1>10. CASE Rules
  <2>1. Working /\ listener.picks \subseteq Asks  BY <1>10 DEF Rules, Working, ListenerTypes, Listeners
  <2>2. ASSUME NEW a \in Matches(Expire(book)), RecordAnswer(Expire(book), a) PROVE ListenerTypes'
    <3>1. a \in Asks /\ Expire(book)[a] \in {"open", "expired", "answered"}
      BY <2>2 DEF Matches, Open, ListenerTypes, Listeners
    <3>2. a \in Made  BY <3>1, ExpireFacts DEF BookInv, BookTypes
    <3> QED  BY <1>4, <2>1, <2>2, <3>1, <3>2
  <2>3. CASE listener' = Listening(listener.n, Unmatched("tick")) /\ UNCHANGED lastAnswer
    BY <1>3, <2>3
  <2> QED  BY <1>10, <2>2, <2>3 DEF Rules
<1>11. CASE AnswerArrived \/ AnswerContinued
  BY <1>2, <1>11 DEF AnswerArrived, AnswerContinued, askVars, ListenerTypes
<1>12. CASE AgentTurn
  BY <1>2, <1>12 DEF AgentTurn, askVars, ListenerTypes
<1>13. CASE Tick
  BY <1>2, <1>13 DEF Tick, ListenerTypes
<1>14. CASE Reboot
  <2>1. lastAnswer' \in [Talkers -> Asks \cup {NoAsk}]  BY <1>14 DEF Reboot
  <2> QED  BY <1>2, <1>14, <2>1 DEF Reboot
<1>15. CASE UNCHANGED meshVars  BY <1>1, <1>15 DEF meshVars, askVars
<1> QED
  BY <1>5, <1>6, <1>7, <1>8, <1>9, <1>10, <1>11, <1>12, <1>13, <1>14, <1>15
  DEF MeshNext, TurnStep, WorkerStep

\* No step disturbs the types of the turn.
LEMMA TurnTypesStep ==
  ASSUME MeshTypes, [MeshNext]_meshVars
  PROVE  TurnTypes'
<1> USE DEF MeshTypes
<1>0. Made \subseteq Made'  BY BookTypesStep
<1>1. CASE UNCHANGED turn  BY <1>0, <1>1 DEF TurnTypes
<1>2. ASSUME NEW c \in Chats, NEW mesh \in BOOLEAN, TakeAnswers(c, mesh) PROVE TurnTypes'
  <2>1. waiting[c] \in Seq(Items)  BY DEF AnswerTypes
  <2> QED  BY <1>2, <2>1 DEF TakeAnswers, TurnTypes, Turns
<1>3. CASE turn' = NoTurn
  <2>1. NoTurn \in Turns  BY AskFacts, EmptySeq DEF NoTurn, Turns
  <2>2. NoTurn.at = "none"  BY DEF NoTurn
  <2> QED  BY <1>3, <2>1, <2>2 DEF TurnTypes
<1>4. CASE turn' = [turn EXCEPT !.at = "turn"]
  BY <1>4 DEF TurnTypes, Turns
<1>5. CASE OpenAsk
  <2>1. NewAsk \in Asks /\ NewAsk \notin Made /\ turn.chat \in Chats
    BY <1>5, NewAskIsNext DEF OpenAsk, TurnTypes, Turns
  <2>2. CASE /\ askedIn' = [askedIn EXCEPT ![NewAsk] = turn.chat]
             /\ turn' = [turn EXCEPT !.ask = NewAsk, !.at = "posting"]
    <3>1. turn' \in Turns /\ turn'.ask = NewAsk  BY <2>1, <2>2 DEF TurnTypes, Turns
    <3>2. NewAsk \in Made'  BY <2>1, <2>2, AskFacts DEF Made, BookTypes
    <3> QED  BY <3>1, <3>2 DEF TurnTypes
  <2> QED  BY <1>1, <1>5, <2>2 DEF OpenAsk
<1>6. CASE \/ \E a \in Asks : TimePasses(a)
           \/ \E w \in Talkers : SecondsPass(w)
           \/ \E w \in Talkers, t \in Asks \cup {NoAsk}, b \in BOOLEAN : HearLine(w, t, b)
           \/ AskRefused \/ Judge \/ Rules \/ AnswerArrived \/ AnswerContinued \/ Tick
           \/ UNCHANGED meshVars
  BY <1>1, <1>6 DEF TimePasses, SecondsPass, HearLine, AskRefused, Judge, Rules, AnswerArrived,
                    AnswerContinued, Tick, meshVars
<1>7. CASE \E c \in Chats : TurnTakes(c)  BY <1>2, <1>7 DEF TurnTakes
<1>8. CASE PostAsk \/ PostFails  BY <1>4, <1>8 DEF PostAsk, PostFails
<1>9. CASE TurnEnds \/ Reboot  BY <1>3, <1>9 DEF TurnEnds, Reboot
<1>10. CASE AgentTurn  BY <1>1, <1>2, <1>10, AskFacts DEF AgentTurn
<1> QED
  BY <1>5, <1>6, <1>7, <1>8, <1>9, <1>10 DEF MeshNext, TurnStep, WorkerStep

\* No step disturbs the book's part of the invariant; this is where a crash between a
\* change and its save, and a save that fails, have to be harmless.
LEMMA BookInvStep ==
  ASSUME MeshInv, [MeshNext]_meshVars
  PROVE  BookInv'
<1> USE DEF MeshInv, MeshTypes
<1>0. BookTypes' /\ Made \subseteq Made'  BY BookTypesStep
<1>1. ASSUME overdue \subseteq overdue', shown \subseteq shown', UNCHANGED told,
             \A a \in Asks :
               /\ \/ book'[a] \in {book[a], Expire(book)[a]}
                  \/ a \in Made' /\ book'[a] \in {"answered", "failed"}
               /\ kept'[a] \in {kept[a], book[a], book'[a]}
      PROVE  BookInv'
  <2>1. \A a \in Asks : Expire(book)[a] = IF book[a] = "open" /\ a \in overdue THEN "expired" ELSE book[a]
    BY ExpireFacts DEF BookTypes
  <2>2. \A a \in Asks \ Made' : book'[a] = "none" /\ kept'[a] = "none"
    BY <1>0, <1>1, <2>1 DEF BookInv
  <2>3. \A a \in Asks : book'[a] = "expired" \/ kept'[a] = "expired" => a \in overdue'
    BY <1>1, <2>1 DEF BookInv
  <2>4. \A a \in Asks : book'[a] = "open" => kept'[a] = "open"
    BY <1>1, <2>1 DEF BookInv, OpenIsDurable
  <2>5. \A a \in Asks : book'[a] \in {"open", "expired"} => book[a] \in {"open", "expired"}
    BY <1>1, <2>1
  <2>6. \A a \in Asks : \/ told'[a] = 0
                        \/ /\ told'[a] = 1 /\ a \in Made' \cap overdue'
                           /\ a \in shown' \/ book'[a] \notin {"open", "expired"}
    BY <1>0, <1>1, <2>5 DEF BookInv
  <2> QED  BY <2>2, <2>3, <2>4, <2>6 DEF BookInv, OpenIsDurable
<1>2. CASE UNCHANGED <<book, kept, overdue, shown, told>>  BY <1>1, <1>2
<1>3. ASSUME NEW a \in Asks, TimePasses(a) PROVE BookInv'
  BY <1>1, <1>3 DEF TimePasses
<1>4. CASE \/ \E w \in Talkers : SecondsPass(w)
           \/ \E c \in Chats : TurnTakes(c)
           \/ AnswerArrived \/ AnswerContinued \/ AgentTurn \/ UNCHANGED meshVars
  BY <1>2, <1>4 DEF SecondsPass, TurnTakes, AnswerArrived, AnswerContinued, AgentTurn, askVars, meshVars
<1>5. CASE OpenAsk
  <2> DEFINE n == NewAsk
             b == [Expire(book) EXCEPT ![n] = "open"]
             q == Pruned(b, n)
  <2>1. n \in Asks /\ n \notin Made /\ UNCHANGED <<overdue, shown, told>>
    BY <1>5, NewAskIsNext DEF OpenAsk
  <2>2. \/ book' = q /\ kept' = q /\ askedIn' = [askedIn EXCEPT ![n] = turn.chat]
        \/ book' = [q EXCEPT ![n] = "none"] /\ UNCHANGED <<kept, askedIn>>
    BY <1>5 DEF OpenAsk
  <2> HIDE DEF n
  <2>3. b \in [Asks -> Statuses]  BY <2>1, ExpireFacts DEF BookTypes, Statuses
  <2>4. /\ b[n] = "open"
        /\ \A a \in Asks \ {n} : b[a] = IF book[a] = "open" /\ a \in overdue THEN "expired" ELSE book[a]
    BY <2>1, ExpireFacts DEF BookTypes
  <2> HIDE DEF b
  <2>5. /\ q \in [Asks -> Statuses]
        /\ \A d \in Asks : q[d] = b[d] \/ (q[d] = "none" /\ b[d] # "open")
    BY <2>1, <2>3, PrunedFacts
  <2> HIDE DEF q
  <2>6. q[n] = "open" /\ told[n] = 0  BY <2>1, <2>4, <2>5 DEF BookInv
  <2>7. CASE book' = q /\ kept' = q /\ askedIn' = [askedIn EXCEPT ![n] = turn.chat]
    <3>1. n \in Made'
      <4>1. turn.chat # "nobody"  BY AskFacts DEF TurnTypes, Turns
      <4> QED  BY <2>1, <2>7, <4>1 DEF Made, BookTypes
    <3>2. \A a \in Asks \ Made' : book'[a] = "none" /\ kept'[a] = "none"
      BY <1>0, <2>4, <2>5, <2>7, <3>1 DEF BookInv
    <3>3. \A a \in Asks : book'[a] = "expired" \/ kept'[a] = "expired" => a \in overdue'
      BY <2>1, <2>4, <2>5, <2>6, <2>7 DEF BookInv
    <3>4. \A a \in Asks : \/ told'[a] = 0
                          \/ /\ told'[a] = 1 /\ a \in Made' \cap overdue'
                             /\ a \in shown' \/ book'[a] \notin {"open", "expired"}
      BY <1>0, <2>1, <2>4, <2>5, <2>6, <2>7 DEF BookInv
    <3> QED  BY <2>7, <3>2, <3>3, <3>4 DEF BookInv, OpenIsDurable
  <2>8. CASE book' = [q EXCEPT ![n] = "none"] /\ UNCHANGED <<kept, askedIn>>
    <3>0. Made' = Made  BY <2>8 DEF Made
    <3>1. \A a \in Asks : book'[a] = IF a = n THEN "none" ELSE q[a]  BY <2>5, <2>8
    <3>2. \A a \in Asks \ Made' : book'[a] = "none" /\ kept'[a] = "none"
      BY <2>4, <2>5, <2>8, <3>0, <3>1 DEF BookInv
    <3>3. \A a \in Asks : book'[a] = "expired" \/ kept'[a] = "expired" => a \in overdue'
      BY <2>1, <2>4, <2>5, <2>8, <3>1 DEF BookInv
    <3>4. \A a \in Asks : book'[a] = "open" => kept'[a] = "open"
      BY <2>4, <2>5, <2>8, <3>1 DEF BookInv, OpenIsDurable
    <3>5. \A a \in Asks : \/ told'[a] = 0
                          \/ /\ told'[a] = 1 /\ a \in Made' \cap overdue'
                             /\ a \in shown' \/ book'[a] \notin {"open", "expired"}
      BY <2>1, <2>4, <2>5, <2>6, <3>0, <3>1 DEF BookInv
    <3> QED  BY <3>2, <3>3, <3>4, <3>5 DEF BookInv, OpenIsDurable
  <2> QED  BY <2>2, <2>7, <2>8
<1>6. CASE AskRefused \/ PostAsk
  BY <1>1, <1>6 DEF AskRefused, PostAsk
<1>7. CASE PostFails
  <2>1. turn.ask \in Made  BY <1>7 DEF PostFails, TurnTypes
  <2>2. turn.ask \in Asks  BY <2>1 DEF Made
  <2>3. /\ \A a \in Asks : book'[a] = book[a] \/ (a = turn.ask /\ book'[a] = "failed")
        /\ kept' \in {book', kept}
    BY <1>7, <2>2, SaveFacts DEF PostFails, BookTypes
  <2>4. UNCHANGED <<overdue, shown, told>>  BY <1>7 DEF PostFails
  <2> QED  BY <1>0, <1>1, <2>1, <2>3, <2>4
<1>8. CASE TurnEnds
  <2>1. book' = book /\ kept' \in {book, kept} /\ UNCHANGED <<overdue, shown, told>>
    BY <1>8, SaveFacts DEF TurnEnds
  <2> QED  BY <1>1, <2>1
<1>9. ASSUME NEW w \in Talkers, NEW t \in Asks \cup {NoAsk}, NEW p \in BOOLEAN, HearLine(w, t, p)
      PROVE  BookInv'
  <2>1. book' \in {book, Expire(book)} /\ kept' \in {book', kept} /\ UNCHANGED <<overdue, shown, told>>
    BY <1>9, SaveFacts DEF HearLine
  <2> QED  BY <1>1, <2>1
<1>10. ASSUME NEW a \in Asks, RecordAnswer(Expire(book), a), Working, UNCHANGED <<overdue, shown, told>>,
              Expire(book)[a] # "none"
       PROVE  BookInv'
  <2>1. Expire(book) \in [Asks -> Statuses] /\ listener.who \in Talkers
    BY <1>10, ExpireFacts DEF BookTypes, ListenerTypes
  <2>2. a \in Made  BY <1>10, ExpireFacts DEF BookInv, BookTypes
  <2>3. /\ kept' \in {book', kept}
        /\ \A d \in Asks : book'[d] = IF d = a THEN "answered" ELSE Expire(book)[d]
    BY <1>10, <2>1, RecordFacts
  <2> QED  BY <1>0, <1>1, <1>10, <2>2, <2>3
<1>11. CASE Judge
  <2>1. Working /\ UNCHANGED <<overdue, shown, told>> /\ listener.picks \subseteq Asks
    BY <1>11 DEF Judge, Working, ListenerTypes, Listeners
  <2>2. \/ \E a \in Asks : RecordAnswer(Expire(book), a) /\ Expire(book)[a] # "none"
        \/ book' \in {book, Expire(book)} /\ kept' = kept
    BY <1>11, <2>1 DEF Judge, Attach
  <2> QED  BY <1>1, <1>10, <2>1, <2>2
<1>12. CASE Rules
  <2>1. Working /\ UNCHANGED <<overdue, shown, told>>  BY <1>12 DEF Rules, Working
  <2>2. \A a \in Matches(Expire(book)) : a \in Asks /\ Expire(book)[a] # "none"
    BY <1>12 DEF Matches, Open, ListenerTypes, Listeners
  <2>3. \/ \E a \in Asks : RecordAnswer(Expire(book), a) /\ Expire(book)[a] # "none"
        \/ book' \in {book, Expire(book)} /\ kept' \in {book', kept}
    BY <1>12, <2>2, SaveFacts DEF Rules
  <2> QED  BY <1>1, <1>10, <2>1, <2>3
<1>13. CASE Tick
  <2> DEFINE new == {a \in Asks : Expire(book)[a] = "expired"} \ shown
  <2>1. /\ book' = Expire(book) /\ UNCHANGED <<kept, overdue, askedIn>> /\ shown' = shown \cup new
        /\ \A a \in Asks : told'[a] = told[a] + IF a \in new THEN 1 ELSE 0
    BY <1>13 DEF Tick
  <2>2. \A a \in Asks : Expire(book)[a] = IF book[a] = "open" /\ a \in overdue THEN "expired" ELSE book[a]
    BY ExpireFacts DEF BookTypes
  <2>3. Made' = Made  BY <2>1 DEF Made
  <2>4. \A a \in new : a \in Made /\ a \in overdue /\ told[a] = 0 /\ a \in shown'
    BY <2>1, <2>2 DEF BookInv
  <2>5. \A a \in Asks \ new : told'[a] = told[a] /\ (a \in shown \/ book'[a] # "expired")
    BY <2>1 DEF BookTypes
  <2>6. \A a \in Asks : \/ told'[a] = 0
                        \/ /\ told'[a] = 1 /\ a \in Made' \cap overdue'
                           /\ a \in shown' \/ book'[a] \notin {"open", "expired"}
    <3>1. \A a \in new : told'[a] = 1  BY <2>1, <2>4
    <3> HIDE DEF new
    <3> QED  BY <2>1, <2>2, <2>3, <2>4, <2>5, <3>1 DEF BookInv
  <2> QED  BY <2>1, <2>2, <2>3, <2>6 DEF BookInv, OpenIsDurable
<1>14. CASE Reboot
  <2>1. /\ book' = Expire(kept) /\ UNCHANGED <<kept, askedIn, overdue, told>>
        /\ shown' = {a \in Asks : book'[a] = "expired"}
    BY <1>14 DEF Reboot
  <2>2. \A a \in Asks : book'[a] = IF kept[a] = "open" /\ a \in overdue THEN "expired" ELSE kept[a]
    BY <2>1, ExpireFacts DEF BookTypes
  <2>3. Made' = Made  BY <2>1 DEF Made
  <2> QED  BY <2>1, <2>2, <2>3 DEF BookInv, OpenIsDurable
<1> QED
  BY <1>3, <1>4, <1>5, <1>6, <1>7, <1>8, <1>9, <1>11, <1>12, <1>13, <1>14
  DEF MeshNext, TurnStep, WorkerStep

\* The answer in the worker's hands is one line, the one it is working on.
LEMMA AnswerFacts ==
  ASSUME MeshInv, listener.at \in {"arrived", "continued"}
  PROVE  /\ Item \in Items /\ Item.lines = {listener.n} /\ listener.n \in 1..MaxLines
         /\ askedIn[listener.ask] \in Chats
         /\ LinesDone = listener.n - 1
<1>0. listener.n \in 0..MaxLines  BY ListenersSet DEF MeshInv, MeshTypes, ListenerTypes
<1>1. listener.ask \in Asks /\ listener.who \in Talkers /\ listener.n \in 1..MaxLines /\ Working
  BY <1>0, AskFacts DEF MeshInv, MeshTypes, ListenerTypes, Working, Made
<1>2. Item = [ask |-> listener.ask, who |-> listener.who, lines |-> {listener.n}]  BY DEF Item
<1>3. Item \in Items  BY <1>1, <1>2, AskFacts DEF Items
<1>4. askedIn[listener.ask] \in Chats
  BY DEF MeshInv, MeshTypes, ListenerTypes, BookTypes, Made
<1> QED  BY <1>1, <1>2, <1>3, <1>4 DEF LinesDone

\* A conversation taken out of the order leaves an order.
LEMMA WithoutFacts ==
  ASSUME lru \in Seq(Chats), NEW c \in Chats
  PROVE  Without(c) \in Seq(Chats)
BY FirstIsSeq DEF Without

\* A conversation moved to the end leaves an order.
LEMMA BehindFacts ==
  ASSUME lru \in Seq(Chats), NEW c \in Chats
  PROVE  Behind(c) \in Seq(Chats)
BY WithoutFacts, AppendProperties DEF Behind

\* Trimming empties conversations, and only when as many are kept as may be.
LEMMA TrimFacts ==
  ASSUME NEW w \in [Chats -> Seq(Items)], NEW order \in Seq(Chats), Trim(w, order)
  PROVE  /\ waiting' \in [Chats -> Seq(Items)] /\ lru' \in Seq(Chats)
         /\ \A c \in Chats : \/ waiting'[c] = w[c]
                             \/ waiting'[c] = <<>> /\ Len(lru') = ChatsKept
<1> DEFINE over == IF Len(order) > ChatsKept THEN Len(order) - ChatsKept ELSE 0
<1>1. over \in 0..Len(order) /\ Len(order) \in Nat /\ (over > 0 => Len(order) - over = ChatsKept)
  BY LenProperties, AskFacts
<1>2. /\ waiting' = [c \in Chats |-> IF \E k \in 1..over : order[k] = c THEN <<>> ELSE w[c]]
      /\ lru' = SubSeq(order, over + 1, Len(order))
  BY DEF Trim
<1> HIDE DEF over
<1>3. waiting' \in [Chats -> Seq(Items)]  BY <1>2, EmptySeq
<1>4. lru' \in Seq(Chats) /\ Len(lru') = Len(order) - over
  BY <1>1, <1>2, SubSeqProperties
<1>5. ASSUME NEW c \in Chats, waiting'[c] # w[c] PROVE waiting'[c] = <<>> /\ over > 0
  BY <1>1, <1>2, <1>5
<1> QED  BY <1>1, <1>3, <1>4, <1>5

\* Cutting answers leaves the first PendingAnswers, or all.
LEMMA CutFacts ==
  ASSUME NEW s \in Seq(Items)
  PROVE  \E k \in 0..Len(s) : /\ CutAnswers(s) = SubSeq(s, 1, k)
                              /\ k = Len(s) \/ k = PendingAnswers
<1>1. Len(s) \in Nat /\ PendingAnswers \in Nat  BY LenProperties, AskFacts
<1> QED  BY <1>1 DEF CutAnswers

\* What is unused of a conversation: what its turn took, then what waits.
LEMMA UnusedTypes ==
  ASSUME MeshTypes, NEW c \in Chats
  PROVE  /\ Taken(c) \in Seq(Items) /\ waiting[c] \in Seq(Items) /\ Unused(c) \in Seq(Items)
         /\ Unused(c) = Taken(c) \o waiting[c]
<1>1. Taken(c) \in Seq(Items)  BY EmptySeq DEF Taken, MeshTypes, TurnTypes, Turns
<1>2. waiting[c] \in Seq(Items)  BY DEF MeshTypes, AnswerTypes
<1> QED  BY <1>1, <1>2, ConcatProperties DEF Unused

\* No step disturbs the types of the waiting answers.
LEMMA AnswerTypesStep ==
  ASSUME MeshInv, [MeshNext]_meshVars
  PROVE  AnswerTypes'
<1> USE DEF MeshInv, MeshTypes
<1>1. CASE UNCHANGED <<waiting, lru, used>>  BY <1>1 DEF AnswerTypes
<1>2. ASSUME NEW c \in Chats, NEW mesh \in BOOLEAN, TakeAnswers(c, mesh), UNCHANGED used
      PROVE  AnswerTypes'
  BY <1>2, EmptySeq, WithoutFacts DEF TakeAnswers, AnswerTypes
<1>3. CASE TurnEnds
  <2>1. turn.taken \in Seq(Items) /\ turn.chat \in Chats  BY DEF TurnTypes, Turns
  <2>2. CASE used' = used \cup Lines(turn.taken) /\ UNCHANGED answerVars
    BY <2>2 DEF AnswerTypes, Lines, answerVars
  <2>3. CASE PutBack /\ UNCHANGED used
    <3> DEFINE s == turn.taken \o waiting[turn.chat]
    <3>1. s \in Seq(Items)  BY <2>1, ConcatProperties DEF AnswerTypes
    <3>2. waiting' = [waiting EXCEPT ![turn.chat] = CutAnswers(s)]  BY <2>3 DEF PutBack
    <3> HIDE DEF s
    <3>3. CutAnswers(s) \in Seq(Items)  BY <3>1, CutFacts, SubSeqProperties, LenProperties
    <3>4. lru' \in Seq(Chats)  BY <2>1, <2>3, AppendProperties DEF PutBack, AnswerTypes
    <3> QED  BY <2>1, <2>3, <3>2, <3>3, <3>4 DEF AnswerTypes
  <2> QED  BY <1>3, <2>2, <2>3 DEF TurnEnds
<1>4. CASE AnswerArrived
  <2> DEFINE c == askedIn[listener.ask]
             w == IF Room(c) THEN [waiting EXCEPT ![c] = Append(@, Item)] ELSE waiting
  <2>1. Item \in Items /\ c \in Chats  BY <1>4, AnswerFacts DEF AnswerArrived
  <2>2. w \in [Chats -> Seq(Items)]  BY <2>1, AppendProperties DEF AnswerTypes
  <2>3. Trim(w, Behind(c)) /\ used' = used  BY <1>4 DEF AnswerArrived
  <2>4. Behind(c) \in Seq(Chats)  BY <2>1, BehindFacts DEF AnswerTypes
  <2> HIDE DEF w
  <2> QED  BY <2>2, <2>3, <2>4, TrimFacts DEF AnswerTypes
<1>5. CASE AnswerContinued
  <2> DEFINE c == askedIn[listener.ask]
  <2>1. Item \in Items /\ c \in Chats /\ listener.n \in 1..MaxLines /\ LinesDone = listener.n - 1
    BY <1>5, AnswerFacts DEF AnswerContinued
  <2>2. waiting[c] \in Seq(Items) /\ used' = used  BY <1>5, <2>1 DEF AnswerTypes, AnswerContinued
  <2>3. \/ \E i \in 1..Len(waiting[c]) :
             waiting' = [waiting EXCEPT ![c] = Joined(waiting[c], i, listener.n)]
        \/ waiting' = [waiting EXCEPT ![c] = Append(waiting[c], Item)]
        \/ waiting' = waiting
    BY <1>5, <2>2, LenProperties DEF AnswerContinued, Joined
  <2> HIDE DEF c
  <2>4. ASSUME NEW i \in 1..Len(waiting[c])
        PROVE  Joined(waiting[c], i, listener.n) \in Seq(Items)
    <3>1. Ordered(waiting[c]) /\ \A l \in Lines(waiting[c]) : l < listener.n
      <4>1. Ordered(Unused(c)) /\ Lines(Unused(c)) \subseteq 1..LinesDone  BY <2>1 DEF AnswersInv
      <4>2. Ordered(waiting[c]) /\ Lines(waiting[c]) \subseteq Lines(Unused(c))
        <5>1. /\ Taken(c) \in Seq(Items) /\ waiting[c] \in Seq(Items)
              /\ Unused(c) = Taken(c) \o waiting[c]
          BY <2>1, UnusedTypes
        <5>2. Ordered(Taken(c) \o waiting[c])  BY <4>1, <5>1
        <5> QED  BY <5>1, <5>2, OrderedParts, ConcatLines
      <4> QED  BY <2>1, <4>1, <4>2
    <3> QED  BY <2>1, <2>2, <3>1, OrderedJoin
  <2>5. Append(waiting[c], Item) \in Seq(Items)  BY <2>1, <2>2, AppendProperties
  <2>6. waiting' \in [Chats -> Seq(Items)]  BY <2>1, <2>2, <2>3, <2>4, <2>5 DEF AnswerTypes
  <2>7. lru' = Behind(c)  BY <1>5 DEF AnswerContinued, c
  <2> QED  BY <2>1, <2>2, <2>6, <2>7, BehindFacts DEF AnswerTypes
<1>6. CASE AgentTurn
  BY <1>1, <1>2, <1>6, AskFacts DEF AgentTurn, answerVars
<1>7. CASE \E c \in Chats : TurnTakes(c)  BY <1>2, <1>7 DEF TurnTakes
<1>8. CASE Reboot  BY <1>8, EmptySeq DEF Reboot, AnswerTypes
<1>9. CASE \/ \E a \in Asks : TimePasses(a)
           \/ \E w \in Talkers : SecondsPass(w)
           \/ \E w \in Talkers, t \in Asks \cup {NoAsk}, b \in BOOLEAN : HearLine(w, t, b)
           \/ OpenAsk \/ AskRefused \/ PostAsk \/ PostFails \/ Judge \/ Rules \/ Tick
           \/ UNCHANGED meshVars
  BY <1>1, <1>9 DEF TimePasses, SecondsPass, HearLine, OpenAsk, AskRefused, PostAsk, PostFails,
                    Judge, Rules, Tick, meshVars, answerVars
<1> QED
  BY <1>3, <1>4, <1>5, <1>6, <1>7, <1>8, <1>9 DEF MeshNext, TurnStep, WorkerStep

\* A line that no turn has used still waits after a step, unless it was used, the daemon
\* died, a full conversation dropped it as later than all it keeps, or its conversation
\* went.
KeptStep ==
  \A c \in Chats : \A l \in Lines(Unused(c)) :
    \/ l \in Lines(Unused(c)') \/ l \in used' \/ boots' # boots
    \/ /\ Len(waiting'[c]) = PendingAnswers
       /\ \A i \in DOMAIN waiting'[c] : First(waiting'[c][i]) < l
    \/ waiting'[c] = <<>> /\ Len(lru') = ChatsKept

\* The lines done never get fewer; outside the two arrivals the worker finishes a line at
\* most.
LEMMA HeardGrows ==
  ASSUME MeshInv, [MeshNext]_meshVars, ~AnswerArrived, ~AnswerContinued
  PROVE  LinesDone \in Nat /\ LinesDone' \in Nat /\ LinesDone <= LinesDone'
<1> USE DEF MeshInv, MeshTypes
<1>0. ListenerTypes'  BY ListenerTypesStep
<1>1. listener.n \in Nat /\ listener'.n \in Nat /\ listener \in Listeners
  <2>1. listener \in Listeners /\ listener' \in Listeners  BY <1>0 DEF ListenerTypes
  <2>2. listener.n \in 0..MaxLines /\ listener'.n \in 0..MaxLines  BY <2>1, ListenersSet
  <2> QED  BY <2>1, <2>2, AskFacts
<1>2. LinesDone \in Nat /\ LinesDone' \in Nat  BY <1>0, <1>1 DEF LinesDone, Working, ListenerTypes
<1>3. CASE listener' = listener
  <2>1. LinesDone' = LinesDone  BY <1>3 DEF LinesDone, Working
  <2> QED  BY <1>2, <2>1
<1>4. CASE listener'.n = listener.n /\ (Working \/ listener'.at \notin {"judge", "rules", "arrived", "continued"})
  BY <1>1, <1>2, <1>4 DEF LinesDone, Working
<1>5. CASE listener'.n = listener.n + 1 /\ listener.at = "idle"
  BY <1>1, <1>5 DEF LinesDone, Working
<1>6. /\ \A place : Listening(listener.n, place).n = listener.n /\ Listening(listener.n, place).at = place
      /\ \A place : Listening(listener.n + 1, place).n = listener.n + 1
  BY DEF Listening
<1>7. CASE \/ \E a \in Asks : TimePasses(a)
           \/ \E w \in Talkers : SecondsPass(w)
           \/ \E c \in Chats : TurnTakes(c)
           \/ OpenAsk \/ AskRefused \/ PostAsk \/ PostFails \/ UNCHANGED meshVars
  BY <1>3, <1>7 DEF TimePasses, SecondsPass, TurnTakes, OpenAsk, AskRefused, PostAsk, PostFails,
                    meshVars, askVars
<1>8. CASE TurnEnds \/ Reboot  BY <1>3, <1>4, <1>6, <1>8 DEF TurnEnds, Reboot
<1>9. ASSUME NEW w \in Talkers, NEW t \in Asks \cup {NoAsk}, NEW p \in BOOLEAN, HearLine(w, t, p)
      PROVE  listener'.n = listener.n + 1 /\ listener.at = "idle"
  <2>1. \/ \E place : listener' = Listening(listener.n + 1, place)
        \/ listener'.n = listener.n + 1
    BY <1>9 DEF HearLine
  <2> QED  BY <1>6, <1>9, <2>1 DEF HearLine
<1>10. CASE Judge \/ Rules
  <2>1. Working  BY <1>10 DEF Judge, Rules, Working
  <2>2. listener'.n = listener.n
    <3>1. \/ \E b, a : RecordAnswer(b, a)
          \/ \E place : listener' = Listening(listener.n, place)
          \/ listener' = [listener EXCEPT !.at = "rules", !.picks = {}]
      BY <1>10 DEF Judge, Attach, Rules
    <3>2. ASSUME NEW b, NEW a, RecordAnswer(b, a) PROVE listener'.n = listener.n
      BY <3>2 DEF RecordAnswer, Listening
    <3>3. CASE listener' = [listener EXCEPT !.at = "rules", !.picks = {}]
      BY <1>1, <3>3 DEF Listeners
    <3> QED  BY <1>6, <3>1, <3>2, <3>3
  <2> QED  BY <1>4, <2>1, <2>2
<1>11. CASE Tick
  <2>1. listener'.n = listener.n /\ listener'.at = "idle"  BY <1>6, <1>11 DEF Tick
  <2> QED  BY <1>4, <2>1
<1>12. CASE AgentTurn
  <2>1. listener'.n = listener.n /\ listener'.at \in {"tick", "talking"}
    BY <1>6, <1>12 DEF AgentTurn
  <2> QED  BY <1>4, <2>1
<1> QED
  BY <1>2, <1>5, <1>7, <1>8, <1>9, <1>10, <1>11, <1>12 DEF MeshNext, TurnStep, WorkerStep

\* A step that adds no line to a conversation and keeps each ordered keeps the invariant.
LEMMA AnswersShrink ==
  ASSUME MeshInv, LinesDone \in Nat, LinesDone' \in Nat, LinesDone <= LinesDone', UNCHANGED used,
         \A c \in Chats : Ordered(Unused(c)') /\ Lines(Unused(c)') \subseteq Lines(Unused(c))
  PROVE  AnswersInv'
<1>1. 1..LinesDone \subseteq 1..LinesDone'  OBVIOUS
<1> QED  BY <1>1 DEF MeshInv, AnswersInv

\* So does a step that adds the line in hand, to one conversation.
LEMMA AnswersGain ==
  ASSUME MeshInv, LinesDone \in Nat, LinesDone' = LinesDone + 1, UNCHANGED used,
         NEW g \in Chats,
         \A c \in Chats : Ordered(Unused(c)'),
         \A c \in Chats \ {g} : Lines(Unused(c)') \subseteq Lines(Unused(c)),
         Lines(Unused(g)') \subseteq Lines(Unused(g)) \cup {LinesDone + 1}
  PROVE  AnswersInv'
<1>1. 1..LinesDone' = (1..LinesDone) \cup {LinesDone + 1} /\ LinesDone + 1 \notin 1..LinesDone  OBVIOUS
<1>2. \A c \in Chats : Lines(Unused(c)) \subseteq 1..LinesDone /\ Lines(Unused(c)) \cap used = {}
  BY DEF MeshInv, AnswersInv
<1>3. used \subseteq 1..LinesDone  BY DEF MeshInv, AnswersInv
<1>4. used' \subseteq 1..LinesDone'  BY <1>1, <1>3
<1>5. \A c \in Chats : Lines(Unused(c)') \subseteq (1..LinesDone') \ used'  BY <1>1, <1>2, <1>3
<1>6. \A c \in Chats : \A d \in Chats \ {c} : Lines(Unused(c)') \cap Lines(Unused(d)') = {}
  <2>1. \A c \in Chats : \A d \in Chats \ {c} : Lines(Unused(c)) \cap Lines(Unused(d)) = {}
    BY DEF MeshInv, AnswersInv
  <2> QED  BY <1>1, <1>2, <2>1
<1> QED  BY <1>4, <1>5, <1>6 DEF AnswersInv

\* No step disturbs a type.
LEMMA MeshTypesStep ==
  ASSUME MeshInv, [MeshNext]_meshVars
  PROVE  MeshTypes'
<1>1. boots' \in Nat
  <2>1. boots \in Nat  BY DEF MeshInv, MeshTypes
  <2>2. boots' = boots \/ boots' = boots + 1
    BY DEF MeshNext, TurnStep, WorkerStep, TimePasses, SecondsPass, TurnTakes, OpenAsk, AskRefused,
         PostAsk, PostFails, TurnEnds, HearLine, Judge, Rules, AnswerArrived, AnswerContinued, AgentTurn,
         Tick, Reboot, meshVars
  <2> QED  BY <2>1, <2>2
<1> QED
  BY <1>1, BookTypesStep, TurnTypesStep, ListenerTypesStep, AnswerTypesStep DEF MeshInv, MeshTypes

\* The invariant, for what the turn took and for what waits.
LEMMA UnusedSplit ==
  ASSUME MeshInv, NEW c \in Chats
  PROVE  /\ Ordered(Unused(c)) /\ Ordered(Taken(c)) /\ Ordered(waiting[c])
         /\ Lines(Unused(c)) = Lines(Taken(c)) \cup Lines(waiting[c])
         /\ Lines(Taken(c)) \cap Lines(waiting[c]) = {}
         /\ Lines(Unused(c)) \subseteq (1..LinesDone) \ used
         /\ \A d \in Chats \ {c} : Lines(Unused(c)) \cap Lines(Unused(d)) = {}
<1>1. /\ Taken(c) \in Seq(Items) /\ waiting[c] \in Seq(Items)
      /\ Unused(c) = Taken(c) \o waiting[c]
  BY UnusedTypes DEF MeshInv
<1>2. Ordered(Unused(c)) /\ Lines(Unused(c)) \subseteq (1..LinesDone) \ used
  BY DEF MeshInv, AnswersInv
<1>3. \A d \in Chats \ {c} : Lines(Unused(c)) \cap Lines(Unused(d)) = {}
  BY DEF MeshInv, AnswersInv
<1>4. Ordered(Taken(c) \o waiting[c])  BY <1>1, <1>2
<1> QED  BY <1>1, <1>2, <1>3, <1>4, OrderedParts, ConcatLines

\* Steps that leave the answers alone.
LEMMA QuietStep ==
  ASSUME MeshInv, [MeshNext]_meshVars, UNCHANGED <<waiting, used>>,
         turn'.chat = turn.chat, turn'.taken = turn.taken,
         turn'.at = "none" <=> turn.at = "none",
         ~AnswerArrived, ~AnswerContinued
  PROVE  AnswersInv' /\ KeptStep
<1>1. \A c \in Chats : Unused(c)' = Unused(c)  BY DEF Unused, Taken
<1>2. \A c \in Chats : Ordered(Unused(c)') /\ Lines(Unused(c)') \subseteq Lines(Unused(c))
  BY <1>1, UnusedSplit
<1>3. AnswersInv'  BY <1>2, HeardGrows, AnswersShrink
<1>4. KeptStep  BY <1>1 DEF KeptStep
<1> QED  BY <1>3, <1>4

\* A turn takes the answers that wait: they were waiting and are now taken, in the same
\* order.
LEMMA TakeStep ==
  ASSUME MeshInv, [MeshNext]_meshVars, NEW g \in Chats, NEW mesh \in BOOLEAN, TakeAnswers(g, mesh),
         turn.at = "none", UNCHANGED used, ~AnswerArrived, ~AnswerContinued
  PROVE  AnswersInv' /\ KeptStep
<1>1. ASSUME NEW c \in Chats PROVE Unused(c)' = Unused(c)
  <2>1. waiting[c] \in Seq(Items) /\ Unused(c) = Taken(c) \o waiting[c]
    BY UnusedTypes DEF MeshInv
  <2>2. Unused(c) = waiting[c]  BY <2>1, ConcatEmptySeq DEF Taken
  <2>3. /\ turn'.at # "none" /\ turn'.chat = g /\ turn'.taken = waiting[g]
        /\ waiting'[c] = IF c = g THEN <<>> ELSE waiting[c]
    BY DEF TakeAnswers, MeshInv, MeshTypes, AnswerTypes
  <2>4. CASE c = g  BY <2>1, <2>2, <2>3, <2>4, ConcatEmptySeq DEF Unused, Taken
  <2>5. CASE c # g  BY <2>1, <2>2, <2>3, <2>5, ConcatEmptySeq DEF Unused, Taken
  <2> QED  BY <2>4, <2>5
<1>2. \A c \in Chats : Ordered(Unused(c)') /\ Lines(Unused(c)') \subseteq Lines(Unused(c))
  BY <1>1, UnusedSplit
<1>3. AnswersInv'  BY <1>2, HeardGrows, AnswersShrink
<1>4. KeptStep  BY <1>1 DEF KeptStep
<1> QED  BY <1>3, <1>4

\* A turn ends: its answers were read, or are put back before the ones that came meanwhile.
LEMMA TurnEndsStep ==
  ASSUME MeshInv, [MeshNext]_meshVars, TurnEnds, ~AnswerArrived, ~AnswerContinued
  PROVE  AnswersInv' /\ KeptStep
<1> DEFINE g == turn.chat
<1>0. g \in Chats /\ turn.at \in {"turn", "agent"} /\ turn' = NoTurn /\ Taken(g) = turn.taken
  BY DEF TurnEnds, MeshInv, MeshTypes, TurnTypes, Turns, Taken
<1>1. \A c \in Chats : Unused(c)' = <<>> \o waiting'[c] /\ (c # g => Taken(c) = <<>>)
  BY <1>0 DEF Unused, Taken, NoTurn
<1>2. \A c \in Chats : waiting'[c] \in Seq(Items) /\ Taken(c) \in Seq(Items) /\ waiting[c] \in Seq(Items)
  <2>1. AnswerTypes'  BY MeshTypesStep DEF MeshTypes
  <2> QED  BY <2>1, UnusedTypes DEF AnswerTypes, MeshInv
<1>3. \A c \in Chats : Unused(c)' = waiting'[c]  BY <1>1, <1>2, ConcatEmptySeq
<1>4. LinesDone \in Nat /\ LinesDone' \in Nat /\ LinesDone <= LinesDone'  BY HeardGrows
<1>5. CASE used' = used \cup Lines(turn.taken) /\ UNCHANGED answerVars
  <2>1. \A c \in Chats : Unused(c)' = waiting[c]  BY <1>3, <1>5 DEF answerVars
  <2>2. 1..LinesDone \subseteq 1..LinesDone'  BY <1>4
  <2>3. used' \subseteq 1..LinesDone'
    <3>1. Lines(Taken(g)) \subseteq 1..LinesDone  BY <1>0, UnusedSplit
    <3>2. used \subseteq 1..LinesDone  BY DEF MeshInv, AnswersInv
    <3> QED  BY <1>0, <1>5, <2>2, <3>1, <3>2
  <2>4. ASSUME NEW c \in Chats
        PROVE  /\ Ordered(Unused(c)') /\ Lines(Unused(c)') \subseteq (1..LinesDone') \ used'
               /\ \A d \in Chats \ {c} : Lines(Unused(c)') \cap Lines(Unused(d)') = {}
    <3>1. Lines(waiting[c]) \cap Lines(Taken(g)) = {}
      BY <1>0, UnusedSplit
    <3>2. \A d \in Chats \ {c} : Lines(waiting[c]) \cap Lines(waiting[d]) = {}
      BY UnusedSplit
    <3>3. Ordered(waiting[c]) /\ Lines(waiting[c]) \subseteq (1..LinesDone) \ used
      BY UnusedSplit
    <3> QED  BY <1>0, <1>5, <2>1, <2>2, <3>1, <3>2, <3>3
  <2>5. AnswersInv'  BY <2>3, <2>4 DEF AnswersInv
  <2>6. KeptStep
    <3>1. SUFFICES ASSUME NEW c \in Chats, NEW l \in Lines(Unused(c))
                   PROVE  l \in Lines(Unused(c)') \/ l \in used'
      BY DEF KeptStep
    <3>2. l \in Lines(Taken(c)) \/ l \in Lines(waiting[c])  BY UnusedSplit
    <3>3. c # g => Lines(Taken(c)) = {}
      BY <1>1, <1>2, LinesIn, EmptySeq
    <3> QED  BY <1>0, <1>5, <2>1, <3>2, <3>3
  <2> QED  BY <2>5, <2>6
<1>6. CASE PutBack /\ UNCHANGED used
  <2>1. \A c \in Chats : waiting'[c] = IF c = g THEN CutAnswers(Unused(g)) ELSE waiting[c]
    BY <1>0, <1>6 DEF PutBack, MeshInv, MeshTypes, AnswerTypes, Unused
  <2>2. PICK k \in 0..Len(Unused(g)) : /\ CutAnswers(Unused(g)) = SubSeq(Unused(g), 1, k)
                                       /\ k = Len(Unused(g)) \/ k = PendingAnswers
    BY <1>0, UnusedTypes, CutFacts DEF MeshInv
  <2>3. Unused(g) \in Seq(Items) /\ Ordered(Unused(g))  BY <1>0, UnusedTypes, UnusedSplit DEF MeshInv
  <2>4. /\ Len(waiting'[g]) = k /\ Ordered(waiting'[g]) /\ Lines(waiting'[g]) \subseteq Lines(Unused(g))
        /\ \A l \in Lines(Unused(g)) : l \in Lines(waiting'[g]) \/ \A i \in 1..k : First(waiting'[g][i]) < l
    <3> DEFINE s == Unused(g)
    <3>1. waiting'[g] = SubSeq(s, 1, k) /\ s \in Seq(Items) /\ Ordered(s) /\ k \in 0..Len(s)
      BY <1>0, <2>1, <2>2, <2>3
    <3> HIDE DEF s
    <3>2. /\ Len(waiting'[g]) = k /\ Ordered(waiting'[g]) /\ Lines(waiting'[g]) \subseteq Lines(s)
          /\ \A l \in Lines(s) : l \in Lines(waiting'[g]) \/ \A i \in 1..k : First(waiting'[g][i]) < l
      BY <3>1, OrderedCut
    <3> QED  BY <3>2 DEF s
  <2>5. \A c \in Chats \ {g} : Unused(c)' = Unused(c)
    BY <1>1, <1>3, <2>1 DEF Unused
  <2>6. \A c \in Chats : Ordered(Unused(c)') /\ Lines(Unused(c)') \subseteq Lines(Unused(c))
    BY <1>3, <2>4, <2>5, UnusedSplit
  <2>7. AnswersInv'  BY <1>4, <1>6, <2>6, AnswersShrink
  <2>8. KeptStep
    <3>1. SUFFICES ASSUME NEW c \in Chats, NEW l \in Lines(Unused(c)), l \notin Lines(Unused(c)')
                   PROVE  /\ Len(waiting'[c]) = PendingAnswers
                          /\ \A i \in DOMAIN waiting'[c] : First(waiting'[c][i]) < l
      BY DEF KeptStep
    <3>2. c = g  BY <2>5, <3>1
    <3>3. k = PendingAnswers
      <4>1. CASE k = Len(Unused(g))
        <5>1. SubSeq(Unused(g), 1, k) = Unused(g)  BY <2>3, <4>1, SubSeqFull
        <5> QED  BY <1>0, <1>3, <2>1, <2>2, <3>1, <3>2, <5>1
      <4> QED  BY <2>2, <4>1
    <3>4. DOMAIN waiting'[g] = 1..k  BY <1>0, <1>2, <2>4, LenProperties
    <3> QED  BY <1>0, <1>3, <2>4, <3>1, <3>2, <3>3, <3>4
  <2> QED  BY <2>7, <2>8
<1> QED  BY <1>5, <1>6 DEF TurnEnds

\* A matched answer is put at the end of its conversation.
LEMMA ArrivedStep ==
  ASSUME MeshInv, AnswerArrived
  PROVE  AnswersInv' /\ KeptStep
<1>0. PICK g \in Chats : g = askedIn[listener.ask]
  BY AnswerFacts DEF AnswerArrived
<1> DEFINE x == Item
           w == IF Room(g) THEN [waiting EXCEPT ![g] = Append(@, x)] ELSE waiting
<1>1. /\ x \in Items /\ x.lines = {listener.n} /\ listener.n \in 1..MaxLines
      /\ LinesDone = listener.n - 1
  BY AnswerFacts DEF AnswerArrived
<1>2. waiting \in [Chats -> Seq(Items)] /\ lru \in Seq(Chats)  BY DEF MeshInv, MeshTypes, AnswerTypes
<1>3. /\ Trim(w, Behind(g)) /\ UNCHANGED <<turn, used>>
      /\ listener' = Listening(listener.n, "tick")
  BY <1>0 DEF AnswerArrived
<1>4. LinesDone \in Nat /\ LinesDone' = LinesDone + 1 /\ LinesDone + 1 = listener.n
  <2>1. listener'.at = "tick" /\ listener'.n = listener.n  BY <1>3 DEF Listening
  <2>2. listener.n \in Nat /\ listener.n >= 1  BY <1>1, AskFacts
  <2> QED  BY <1>1, <2>1, <2>2 DEF LinesDone, Working
<1> HIDE DEF x
<1>5. w \in [Chats -> Seq(Items)] /\ w[g] \in {waiting[g], Append(waiting[g], x)}
      /\ \A c \in Chats \ {g} : w[c] = waiting[c]
  BY <1>1, <1>2, AppendProperties
<1> HIDE DEF w
<1>6. \A c \in Chats : waiting'[c] = w[c] \/ (waiting'[c] = <<>> /\ Len(lru') = ChatsKept)
  BY <1>1, <1>2, <1>3, <1>5, BehindFacts, TrimFacts
<1>7. \A c \in Chats : Unused(c)' = Taken(c) \o waiting'[c]  BY <1>3 DEF Unused, Taken
<1>8. ASSUME NEW c \in Chats
      PROVE  /\ Ordered(Unused(c)')
             /\ Lines(Unused(c)') \subseteq Lines(Unused(c)) \cup (IF c = g THEN {LinesDone + 1} ELSE {})
             /\ \A l \in Lines(Unused(c)) :
                  l \in Lines(Unused(c)') \/ (waiting'[c] = <<>> /\ Len(lru') = ChatsKept)
  <2>1. /\ Taken(c) \in Seq(Items) /\ waiting[c] \in Seq(Items) /\ Unused(c) \in Seq(Items)
        /\ Unused(c) = Taken(c) \o waiting[c]
    BY UnusedTypes DEF MeshInv
  <2>2. CASE waiting'[c] = waiting[c]
    <3>1. Unused(c)' = Unused(c)  BY <1>7, <2>1, <2>2
    <3> QED  BY <3>1, UnusedSplit
  <2>3. CASE waiting'[c] = <<>> /\ Len(lru') = ChatsKept
    <3>1. Unused(c)' = Taken(c)  BY <1>7, <2>1, <2>3, ConcatEmptySeq
    <3> QED  BY <2>3, <3>1, UnusedSplit
  <2>4. CASE c = g /\ waiting'[c] = Append(waiting[c], x)
    <3>0. Unused(c)' = Taken(c) \o Append(waiting[c], x)  BY <1>7, <2>4
    <3>1. Unused(c)' = Append(Unused(c), x)  BY <1>1, <2>1, <3>0, ConcatAppend
    <3>2. Lines(Unused(c)) \subseteq 1..LinesDone  BY UnusedSplit
    <3>3. \A l \in Lines(Unused(c)), m \in x.lines : l < m  BY <1>1, <1>4, <3>2
    <3>4. /\ Ordered(Append(Unused(c), x))
          /\ Lines(Append(Unused(c), x)) = Lines(Unused(c)) \cup x.lines
      BY <1>1, <2>1, <3>3, UnusedSplit, OrderedAppend
    <3> QED  BY <1>1, <1>4, <2>4, <3>1, <3>4
  <2> QED  BY <1>5, <1>6, <2>2, <2>3, <2>4
<1>9. AnswersInv'  BY <1>1, <1>3, <1>4, <1>8, AnswersGain
<1>10. KeptStep  BY <1>8 DEF KeptStep
<1> QED  BY <1>9, <1>10

\* A second line joins an answer that waits, or waits by itself.
LEMMA ContinuedStep ==
  ASSUME MeshInv, AnswerContinued
  PROVE  AnswersInv' /\ KeptStep
<1>0. PICK g \in Chats : g = askedIn[listener.ask]
  BY AnswerFacts DEF AnswerContinued
<1> DEFINE x == Item
<1>1. /\ x \in Items /\ x.lines = {listener.n} /\ listener.n \in 1..MaxLines
      /\ LinesDone = listener.n - 1
  BY AnswerFacts DEF AnswerContinued
<1>2. waiting \in [Chats -> Seq(Items)]  BY DEF MeshInv, MeshTypes, AnswerTypes
<1>3. UNCHANGED <<turn, used>> /\ listener' = Listening(listener.n, "tick")
  BY DEF AnswerContinued
<1>4. LinesDone \in Nat /\ LinesDone' = LinesDone + 1 /\ LinesDone + 1 = listener.n
  <2>1. listener'.at = "tick" /\ listener'.n = listener.n  BY <1>3 DEF Listening
  <2>2. listener.n \in Nat /\ listener.n >= 1  BY <1>1, AskFacts
  <2> QED  BY <1>1, <2>1, <2>2 DEF LinesDone, Working
<1>5. /\ Taken(g) \in Seq(Items) /\ waiting[g] \in Seq(Items) /\ Unused(g) \in Seq(Items)
      /\ Unused(g) = Taken(g) \o waiting[g]
  BY <1>1, UnusedTypes DEF MeshInv
<1>6. /\ \/ \E i \in 1..Len(waiting[g]) : waiting'[g] = Joined(waiting[g], i, listener.n)
         \/ waiting'[g] = Append(waiting[g], x)
         \/ waiting'[g] = waiting[g]
      /\ \A c \in Chats \ {g} : waiting'[c] = waiting[c]
  <2> DEFINE c == askedIn[listener.ask]
  <2>1. c = g /\ waiting[c] \in Seq(Items)  BY <1>0, <1>5
  <2>2. \/ \E i \in 1..Len(waiting[c]) : waiting' = [waiting EXCEPT ![c] = Joined(waiting[c], i, listener.n)]
        \/ waiting' = [waiting EXCEPT ![c] = Append(waiting[c], x)]
        \/ waiting' = waiting
    BY <2>1, LenProperties DEF AnswerContinued, Joined
  <2> HIDE DEF c, x
  <2> QED  BY <1>2, <2>1, <2>2
<1> HIDE DEF x
<1>7. \A c \in Chats : Unused(c)' = Taken(c) \o waiting'[c]  BY <1>3 DEF Unused, Taken
<1>8. \A c \in Chats \ {g} : Unused(c)' = Unused(c)  BY <1>6, <1>7 DEF Unused
<1>9. Lines(Unused(g)) \subseteq 1..LinesDone /\ Ordered(Unused(g))  BY <1>1, UnusedSplit
<1>10. \A l \in Lines(Unused(g)) : l < listener.n  BY <1>4, <1>9
<1>11. /\ Ordered(Unused(g)') /\ Lines(Unused(g)) \subseteq Lines(Unused(g)')
       /\ Lines(Unused(g)') \subseteq Lines(Unused(g)) \cup {LinesDone + 1}
  <2>1. CASE waiting'[g] = waiting[g]
    <3>1. Unused(g)' = Unused(g)  BY <1>1, <1>5, <1>7, <2>1
    <3> QED  BY <1>9, <3>1
  <2>2. CASE waiting'[g] = Append(waiting[g], x)
    <3>0. Unused(g)' = Taken(g) \o Append(waiting[g], x)  BY <1>7, <2>2
    <3>1. Unused(g)' = Append(Unused(g), x)  BY <1>1, <1>5, <3>0, ConcatAppend
    <3>2. /\ Ordered(Append(Unused(g), x))
          /\ Lines(Append(Unused(g), x)) = Lines(Unused(g)) \cup x.lines
      BY <1>1, <1>5, <1>9, <1>10, OrderedAppend
    <3> QED  BY <1>1, <1>4, <3>1, <3>2
  <2>3. ASSUME NEW i \in 1..Len(waiting[g]), waiting'[g] = Joined(waiting[g], i, listener.n)
        PROVE  /\ Ordered(Unused(g)') /\ Lines(Unused(g)) \subseteq Lines(Unused(g)')
               /\ Lines(Unused(g)') \subseteq Lines(Unused(g)) \cup {LinesDone + 1}
    <3> DEFINE k == Len(Taken(g)) + i
               u == Unused(g)
    <3>0. Unused(g)' = Taken(g) \o Joined(waiting[g], i, listener.n)  BY <1>7, <2>3
    <3>1. k \in 1..Len(u) /\ Unused(g)' = Joined(u, k, listener.n)
      <4>1. /\ Len(Taken(g)) + i \in 1..Len(Taken(g) \o waiting[g])
            /\ Taken(g) \o Joined(waiting[g], i, listener.n) = Joined(Taken(g) \o waiting[g], Len(Taken(g)) + i, listener.n)
        <5> DEFINE s == Taken(g)
                   t == waiting[g]
                   n == listener.n
        <5>1. s \in Seq(Items) /\ t \in Seq(Items) /\ i \in 1..Len(t) /\ n \in 1..MaxLines
          BY <1>1, <1>5
        <5> HIDE DEF s, t, n
        <5>2. Len(s) + i \in 1..Len(s \o t) /\ s \o Joined(t, i, n) = Joined(s \o t, Len(s) + i, n)
          BY <5>1, ConcatJoin
        <5> QED  BY <5>2 DEF s, t, n
      <4> QED  BY <1>5, <3>0, <4>1
    <3>2. u \in Seq(Items) /\ Ordered(u) /\ \A l \in Lines(u) : l < listener.n
      BY <1>5, <1>9, <1>10
    <3> HIDE DEF k, u
    <3>3. Ordered(Joined(u, k, listener.n)) /\ Lines(Joined(u, k, listener.n)) = Lines(u) \cup {listener.n}
      BY <1>1, <3>1, <3>2, OrderedJoin
    <3> QED  BY <1>4, <3>1, <3>3 DEF u
  <2> QED  BY <1>6, <2>1, <2>2, <2>3
<1>12. \A c \in Chats : Ordered(Unused(c)')  BY <1>8, <1>11, UnusedSplit
<1>13. AnswersInv'  BY <1>1, <1>3, <1>4, <1>8, <1>11, <1>12, AnswersGain
<1>14. KeptStep  BY <1>8, <1>11 DEF KeptStep
<1> QED  BY <1>13, <1>14

\* The daemon dies: what waited is lost.
LEMMA RebootStep ==
  ASSUME MeshInv, [MeshNext]_meshVars, Reboot
  PROVE  AnswersInv' /\ KeptStep
<1>1. ASSUME NEW c \in Chats PROVE Ordered(Unused(c)') /\ Lines(Unused(c)') = {}
  <2>1. Unused(c)' = <<>> \o <<>>
    <3>1. waiting'[c] = <<>> /\ turn'.at = "none"  BY DEF Reboot, NoTurn
    <3> QED  BY <3>1 DEF Unused, Taken
  <2>2. Unused(c)' = <<>> /\ <<>> \in Seq(Items) /\ Len(<<>>) = 0
    BY <2>1, EmptySeq, ConcatEmptySeq
  <2>3. Ordered(<<>>) /\ Lines(<<>>) = {}
    <3>1. 1..0 = {}  OBVIOUS
    <3> QED  BY <2>2, <3>1, LinesIn DEF Ordered
  <2> QED  BY <2>2, <2>3
<1>2. used' = used  BY DEF Reboot
<1>3. LinesDone' \in Nat /\ LinesDone \in Nat /\ LinesDone <= LinesDone'
  <2>1. listener'.n = listener.n /\ listener'.at = "idle"  BY DEF Reboot, Listening
  <2>2. listener.n \in 0..MaxLines /\ (Working => listener.n >= 1)
    BY ListenersSet DEF MeshInv, MeshTypes, ListenerTypes
  <2> QED  BY <2>1, <2>2, AskFacts DEF LinesDone, Working
<1>4. AnswersInv'  BY <1>1, <1>2, <1>3, AnswersShrink
<1>5. KeptStep
  <2>1. boots' = boots + 1 /\ boots \in Nat  BY DEF Reboot, MeshInv, MeshTypes
  <2> QED  BY <2>1 DEF KeptStep
<1> QED  BY <1>4, <1>5

\* No step disturbs the answers, and none loses a line without one of the reasons allowed.
LEMMA AnswersStep ==
  ASSUME MeshInv, [MeshNext]_meshVars
  PROVE  AnswersInv' /\ KeptStep
<1>1. CASE AnswerArrived  BY <1>1, ArrivedStep
<1>2. CASE AnswerContinued  BY <1>2, ContinuedStep
<1>3. CASE ~AnswerArrived /\ ~AnswerContinued
  <2>1. CASE \/ \E a \in Asks : TimePasses(a)
             \/ \E w \in Talkers : SecondsPass(w)
             \/ \E w \in Talkers, t \in Asks \cup {NoAsk}, b \in BOOLEAN : HearLine(w, t, b)
             \/ OpenAsk \/ AskRefused \/ PostAsk \/ PostFails \/ Judge \/ Rules \/ Tick
             \/ UNCHANGED meshVars
    <3>1. UNCHANGED <<waiting, used>>
      BY <2>1 DEF TimePasses, SecondsPass, HearLine, OpenAsk, AskRefused, PostAsk, PostFails, Judge,
                  Rules, Tick, answerVars, meshVars
    <3>2. turn'.chat = turn.chat /\ turn'.taken = turn.taken /\ (turn'.at = "none" <=> turn.at = "none")
      BY <2>1 DEF TimePasses, SecondsPass, HearLine, OpenAsk, AskRefused, PostAsk, PostFails, Judge,
                  Rules, Tick, meshVars, MeshInv, MeshTypes, TurnTypes, Turns
    <3> QED  BY <1>3, <3>1, <3>2, QuietStep
  <2>2. ASSUME NEW c \in Chats, TurnTakes(c) PROVE AnswersInv' /\ KeptStep
    BY <1>3, <2>2, TakeStep DEF TurnTakes
  <2>3. CASE TurnEnds  BY <1>3, <2>3, TurnEndsStep
  <2>4. CASE AgentTurn
    <3>1. CASE UNCHANGED <<turn, answerVars, used>>
      BY <1>3, <3>1, QuietStep DEF answerVars
    <3>2. CASE turn.at = "none" /\ TakeAnswers(AgentChat, TRUE) /\ used' = used
      BY <1>3, <3>2, TakeStep, AskFacts
    <3> QED  BY <2>4, <3>1, <3>2 DEF AgentTurn
  <2>5. CASE Reboot  BY <2>5, RebootStep
  <2> QED
    BY <1>3, <2>1, <2>2, <2>3, <2>4, <2>5 DEF MeshNext, TurnStep, WorkerStep
<1> QED  BY <1>1, <1>2, <1>3

\* The invariant holds at the start.
LEMMA MeshInvInit ==
  ASSUME MeshInit
  PROVE  MeshInv
<1>1. Made = {} /\ 0 \in 0..MaxAsks /\ 1..0 = {}  BY AskFacts DEF MeshInit, Made
<1>2. BookTypes
  BY <1>1 DEF MeshInit, BookTypes, Statuses
<1>3. TurnTypes
  <2>1. NoTurn \in Turns  BY AskFacts, EmptySeq DEF NoTurn, Turns
  <2>2. NoTurn.at = "none"  BY DEF NoTurn
  <2> QED  BY <2>1, <2>2 DEF MeshInit, TurnTypes
<1>4. listener \in Listeners /\ listener.at = "idle" /\ listener.n = 0
  BY ListeningFacts, AskFacts DEF MeshInit, Places
<1>5. ListenerTypes  BY <1>4 DEF MeshInit, ListenerTypes, Working
<1>6. AnswerTypes  BY EmptySeq DEF MeshInit, AnswerTypes
<1>7. BookInv  BY DEF MeshInit, BookInv, OpenIsDurable
<1>8. AnswersInv
  <2>1. LinesDone = 0 /\ used = {}  BY <1>4 DEF LinesDone, Working, MeshInit
  <2>2. \A c \in Chats : Unused(c) = <<>>
    <3>1. ASSUME NEW c \in Chats PROVE Unused(c) = <<>> \o <<>>
      BY DEF MeshInit, Unused, Taken, NoTurn
    <3> QED  BY <3>1, EmptySeq, ConcatEmptySeq
  <2>3. Ordered(<<>>) /\ Lines(<<>>) = {}
    <3>1. <<>> \in Seq(Items) /\ Len(<<>>) = 0 /\ 1..0 = {}  BY EmptySeq
    <3> QED  BY <3>1, LinesIn DEF Ordered
  <2> QED  BY <2>1, <2>2, <2>3 DEF AnswersInv
<1>9. boots \in Nat  BY DEF MeshInit
<1> QED  BY <1>2, <1>3, <1>5, <1>6, <1>7, <1>8, <1>9 DEF MeshInv, MeshTypes

\* The inductive invariant: types, the book, the answers.
THEOREM MeshInvHolds == MeshSpec => []MeshInv
<1>1. MeshInit => MeshInv  BY MeshInvInit
<1>2. MeshInv /\ [MeshNext]_meshVars => MeshInv'
  BY MeshTypesStep, BookInvStep, AnswersStep DEF MeshInv
<1> QED  BY <1>1, <1>2, PTL DEF MeshSpec

\* Answers reach the conversation that asked once and in the order of their lines, whatever
\* turns fail and give them back (_mesh_restore) while others arrive.
THEOREM AnswersReadOnceInOrder == MeshSpec => []AnswersOnceInOrder
<1>1. MeshInv => AnswersOnceInOrder
  <2>1. SUFFICES ASSUME MeshInv, NEW c \in Chats
                 PROVE  /\ \A i, j \in DOMAIN Unused(c) :
                             i < j => /\ First(Unused(c)[i]) < First(Unused(c)[j])
                                      /\ Unused(c)[i].lines \cap Unused(c)[j].lines = {}
                        /\ Lines(Unused(c)) \cap used = {}
    BY DEF AnswersOnceInOrder
  <2>2. Unused(c) \in Seq(Items)  BY <2>1, UnusedTypes DEF MeshInv
  <2>3. DOMAIN Unused(c) = 1..Len(Unused(c))  BY <2>2, LenProperties
  <2>4. Ordered(Unused(c)) /\ Lines(Unused(c)) \subseteq (1..LinesDone) \ used
    BY <2>1, UnusedSplit
  <2> QED  BY <2>3, <2>4 DEF Ordered
<1> QED  BY <1>1, MeshInvHolds, PTL

\* An answer that was matched is not lost on the way to its turn, but for the losses the
\* code means: a crash, a full conversation, a conversation dropped.
THEOREM AnswersAreKept == MeshSpec => AnswerKept
<1>1. MeshInv /\ [MeshNext]_meshVars => KeptStep  BY AnswersStep
<1> QED  BY <1>1, MeshInvHolds, PTL DEF MeshSpec, AnswerKept, KeptStep

\* An ask whose post failed never takes somebody's line for its answer, within one life of
\* the daemon.
THEOREM FailedAsksAreNotMatched == MeshSpec => FailedNeverMatched
<1>1. ASSUME MeshInv, [MeshNext]_meshVars
      PROVE  \A a \in Asks : book[a] = "failed" => book'[a] \in {"failed", "none"} \/ boots' # boots
  <2> USE <1>1 DEF MeshInv, MeshTypes
  <2>0. book \in [Asks -> Statuses]  BY DEF BookTypes
  <2>1. ASSUME NEW a \in Asks, book[a] = "failed"
        PROVE  Expire(book)[a] = "failed" /\ a \in Made
    BY <2>1, <2>0, ExpireFacts DEF BookInv
  <2>2. CASE book' \in {book, Expire(book)}  BY <2>1, <2>2
  <2>3. CASE OpenAsk
    <3> DEFINE b == [Expire(book) EXCEPT ![NewAsk] = "open"]
    <3>1. NewAsk \in Asks /\ NewAsk \notin Made  BY <2>3, NewAskIsNext DEF OpenAsk
    <3>2. b \in [Asks -> Statuses]  BY <2>0, <3>1, ExpireFacts DEF Statuses
    <3>3. \A a \in Asks : book[a] = "failed" => b[a] = "failed" /\ a # NewAsk
      BY <2>0, <2>1, <3>1, ExpireFacts
    <3>4. \/ book' = Pruned(b, NewAsk)
          \/ book' = [Pruned(b, NewAsk) EXCEPT ![NewAsk] = "none"]
      BY <2>3 DEF OpenAsk
    <3> HIDE DEF b
    <3>5. \A a \in Asks : book[a] = "failed" => Pruned(b, NewAsk)[a] \in {"failed", "none"}
      BY <3>1, <3>2, <3>3, PrunedFacts
    <3>6. Pruned(b, NewAsk) \in [Asks -> Statuses]  BY <3>1, <3>2, PrunedFacts
    <3> QED  BY <3>1, <3>3, <3>4, <3>5, <3>6
  <2>4. CASE PostFails
    <3>1. \A a \in Asks : book'[a] \in {book[a], "failed"}  BY <2>0, <2>4 DEF PostFails
    <3> QED  BY <3>1
  <2>5. ASSUME NEW a \in Asks, Expire(book)[a] # "failed", RecordAnswer(Expire(book), a), Working
        PROVE  \A d \in Asks : book[d] = "failed" => book'[d] = "failed"
    <3>1. Expire(book) \in [Asks -> Statuses] /\ listener.who \in Talkers
      BY <2>0, <2>5, ExpireFacts DEF ListenerTypes
    <3>2. \A d \in Asks : book'[d] = IF d = a THEN "answered" ELSE Expire(book)[d]
      BY <2>5, <3>1, RecordFacts
    <3> QED  BY <2>1, <2>5, <3>2
  <2>6. CASE Judge
    <3>1. Working /\ listener.picks \subseteq Asks
      BY <2>6 DEF Judge, Working, ListenerTypes, Listeners
    <3>2. \/ \E a \in Asks : RecordAnswer(Expire(book), a) /\ Expire(book)[a] # "failed"
          \/ book' \in {book, Expire(book)}
      BY <2>6, <3>1 DEF Judge, Attach
    <3> QED  BY <2>2, <2>5, <3>1, <3>2
  <2>7. CASE Rules
    <3>1. Working  BY <2>7 DEF Rules, Working
    <3>2. \A a \in Matches(Expire(book)) : a \in Asks /\ Expire(book)[a] # "failed"
      BY <2>7 DEF Matches, Open, ListenerTypes, Listeners
    <3>3. \/ \E a \in Asks : RecordAnswer(Expire(book), a) /\ Expire(book)[a] # "failed"
          \/ book' \in {book, Expire(book)}
      BY <2>7, <3>2 DEF Rules
    <3> QED  BY <2>2, <2>5, <3>1, <3>3
  <2>8. CASE Reboot
    <3>1. boots' = boots + 1  BY <2>8 DEF Reboot
    <3> QED  BY <3>1
  <2>9. CASE \/ \E a \in Asks : TimePasses(a)
             \/ \E w \in Talkers : SecondsPass(w)
             \/ \E w \in Talkers, t \in Asks \cup {NoAsk}, b \in BOOLEAN : HearLine(w, t, b)
             \/ \E c \in Chats : TurnTakes(c)
             \/ AskRefused \/ PostAsk \/ TurnEnds \/ AnswerArrived \/ AnswerContinued \/ AgentTurn
             \/ Tick \/ UNCHANGED meshVars
    <3>1. book' \in {book, Expire(book)}
      BY <2>9 DEF TimePasses, SecondsPass, HearLine, TurnTakes, AskRefused, PostAsk, TurnEnds,
                  AnswerArrived, AnswerContinued, AgentTurn, Tick, askVars, meshVars
    <3> QED  BY <2>2, <3>1
  <2> QED
    BY <2>3, <2>4, <2>6, <2>7, <2>8, <2>9 DEF MeshNext, TurnStep, WorkerStep
<1> QED  BY <1>1, MeshInvHolds, PTL DEF MeshSpec, FailedNeverMatched

\* An open ask is on disk, and one that is overdue is told of once at most: crashes and
\* failing saves included.
THEOREM AsksOutliveTheDaemon == MeshSpec => []AsksSurvive
<1>1. MeshInv => AsksSurvive
  BY DEF MeshInv, BookInv, AsksSurvive, AnnouncedOnce
<1> QED  BY <1>1, MeshInvHolds, PTL

(***************************************************************************)
(* The types.                                                              *)
(***************************************************************************)
\* A conversation has answers waiting exactly when it is in the order, once, and never
\* more than it may have.
OrderInv ==
  /\ Once(lru)
  /\ \A c \in Chats : /\ Len(waiting[c]) <= PendingAnswers
                      /\ waiting[c] # <<>> <=> c \in ToSet(lru)

\* Trimming leaves in the order the conversations whose answers it leaves.
LEMMA TrimOrder ==
  ASSUME NEW w \in [Chats -> Seq(Items)], NEW order \in Seq(Chats), Once(order), Trim(w, order),
         \A c \in Chats : /\ Len(w[c]) <= PendingAnswers
                          /\ w[c] # <<>> <=> c \in ToSet(order)
  PROVE  OrderInv'
<1> DEFINE over == IF Len(order) > ChatsKept THEN Len(order) - ChatsKept ELSE 0
<1>1. over \in 0..Len(order)
  BY LenProperties, AskFacts
<1>2. /\ waiting' = [c \in Chats |-> IF \E k \in 1..over : order[k] = c THEN <<>> ELSE w[c]]
      /\ lru' = SubSeq(order, over + 1, Len(order))
  BY DEF Trim
<1> HIDE DEF over
<1>3. /\ Once(lru')
      /\ \A c : c \in ToSet(lru') <=> c \in ToSet(order) /\ ~ \E k \in 1..over : order[k] = c
  BY <1>1, <1>2, SuffixRest
<1>4. ASSUME NEW c \in Chats
      PROVE  Len(waiting'[c]) <= PendingAnswers /\ (waiting'[c] # <<>> <=> c \in ToSet(lru'))
  <2>1. CASE \E k \in 1..over : order[k] = c
    <3>1. waiting'[c] = <<>>
      BY <1>2, <2>1
    <3>2. Len(waiting'[c]) <= PendingAnswers
      BY <3>1, AskFacts
    <3> QED BY <1>3, <2>1, <3>1, <3>2
  <2>2. CASE ~ \E k \in 1..over : order[k] = c
    <3>1. waiting'[c] = w[c]
      BY <1>2, <2>2
    <3> QED BY <1>3, <2>2, <3>1
  <2> QED BY <2>1, <2>2
<1> QED BY <1>3, <1>4 DEF OrderInv

\* Taking, putting back, arriving, continuing and trimming keep the order and the lists as one.
LEMMA OrderStep ==
  ASSUME MeshInv, OrderInv, [MeshNext]_meshVars
  PROVE  OrderInv'
<1> USE DEF MeshInv, MeshTypes
<1>0. /\ waiting \in [Chats -> Seq(Items)] /\ lru \in Seq(Chats)
      /\ PendingAnswers \in Nat \ {0}
  BY AskFacts, MeshAssumption DEF AnswerTypes
<1>1. CASE UNCHANGED <<waiting, lru>>  BY <1>1 DEF OrderInv
<1>2. ASSUME NEW c \in Chats, NEW mesh \in BOOLEAN, TakeAnswers(c, mesh) PROVE OrderInv'
  <2>1. Once(lru') /\ ToSet(lru') = ToSet(lru) \ {c}
    BY <1>0, <1>2, Removed DEF TakeAnswers, Without, OrderInv
  <2>2. waiting'[c] = <<>> /\ \A d \in Chats \ {c} : waiting'[d] = waiting[d]
    BY <1>0, <1>2 DEF TakeAnswers
  <2>3. Len(<<>>) <= PendingAnswers  BY <1>0
  <2> QED  BY <2>1, <2>2, <2>3 DEF OrderInv
<1>3. CASE TurnEnds
  <2> DEFINE c == turn.chat
             s == turn.taken \o waiting[c]
  <2>1. CASE PutBack /\ turn.taken # <<>>
    <3>1. turn.taken \in Seq(Items) /\ c \in Chats  BY DEF TurnTypes, Turns
    <3>2. s \in Seq(Items) /\ Len(s) = Len(turn.taken) + Len(waiting[c])
      BY <1>0, <3>1, ConcatProperties
    <3>3. Len(s) \in Nat \ {0}
      <4>1. Len(turn.taken) \in Nat \ {0}
        BY <2>1, <3>1, LenProperties, EmptySeq
      <4>2. Len(waiting[c]) \in Nat
        BY <1>0, <3>1, LenProperties
      <4>3. \A i, j : i \in Nat \ {0} /\ j \in Nat => i + j \in Nat \ {0}
        OBVIOUS
      <4> QED BY <3>2, <4>1, <4>2, <4>3
    <3>4. waiting' = [waiting EXCEPT ![c] = CutAnswers(s)]  BY <2>1 DEF PutBack
    <3> HIDE DEF s
    <3>5. CutAnswers(s) # <<>> /\ Len(CutAnswers(s)) <= PendingAnswers
      <4> DEFINE m == IF Len(s) > PendingAnswers THEN PendingAnswers ELSE Len(s)
      <4>1. m \in 1..Len(s) /\ m <= PendingAnswers  BY <1>0, <3>3
      <4>2. CutAnswers(s) = SubSeq(s, 1, m)  BY DEF CutAnswers
      <4> HIDE DEF m
      <4>3. Len(SubSeq(s, 1, m)) = m
        BY <3>2, <4>1, SubSeqProperties
      <4> QED  BY <4>1, <4>2, <4>3
    <3>6. waiting'[c] = CutAnswers(s) /\ \A d \in Chats \ {c} : waiting'[d] = waiting[d]
      BY <1>0, <3>1, <3>4
    <3>7. Once(lru') /\ ToSet(lru') = ToSet(lru) \cup {c}
      <4>1. CASE waiting[c] = <<>>
        <5>1. c \notin ToSet(lru) /\ lru' = Append(lru, c)  BY <2>1, <3>1, <4>1 DEF PutBack, OrderInv
        <5> QED  BY <1>0, <3>1, <5>1, PutLast DEF OrderInv
      <4>2. CASE waiting[c] # <<>>
        BY <2>1, <3>1, <4>2 DEF PutBack, OrderInv
      <4> QED  BY <4>1, <4>2
    <3> QED  BY <3>1, <3>5, <3>6, <3>7 DEF OrderInv
  <2> QED  BY <1>1, <1>3, <2>1 DEF TurnEnds, answerVars
<1>4. CASE AnswerArrived \/ AnswerContinued
  <2> DEFINE c == askedIn[listener.ask]
  <2>1. Item \in Items /\ c \in Chats  BY <1>4, AnswerFacts DEF AnswerArrived, AnswerContinued
  <2>2. /\ Behind(c) \in Seq(Chats) /\ Once(Behind(c)) /\ ToSet(Behind(c)) = ToSet(lru) \cup {c}
    BY <1>0, <2>1, Renewed DEF Behind, Without, OrderInv
  <2>3. waiting[c] \in Seq(Items) /\ Len(waiting[c]) \in Nat  BY <1>0, <2>1, LenProperties
  <2>4. /\ Append(waiting[c], Item) \in Seq(Items) /\ Append(waiting[c], Item) # <<>>
        /\ Len(Append(waiting[c], Item)) = Len(waiting[c]) + 1
    BY <2>1, <2>3, AppendProperties
  <2>5. Room(c) => Len(waiting[c]) + 1 <= PendingAnswers
    BY <1>0, <2>3 DEF Room
  <2>6. ~Room(c) => waiting[c] # <<>>
    BY <1>0, <2>3 DEF Room
  <2>7. CASE AnswerArrived
    <3> DEFINE w == IF Room(c) THEN [waiting EXCEPT ![c] = Append(@, Item)] ELSE waiting
    <3>1. Trim(w, Behind(c))  BY <2>7 DEF AnswerArrived
    <3>2. w \in [Chats -> Seq(Items)]  BY <1>0, <2>1, <2>4
    <3>3. /\ w[c] = IF Room(c) THEN Append(waiting[c], Item) ELSE waiting[c]
          /\ \A d \in Chats \ {c} : w[d] = waiting[d]
      BY <1>0, <2>1
    <3> HIDE DEF w
    <3>4. w[c] # <<>> /\ Len(w[c]) <= PendingAnswers
      BY <2>1, <2>4, <2>5, <2>6, <3>3 DEF OrderInv
    <3>5. \A d \in Chats : /\ Len(w[d]) <= PendingAnswers
                           /\ w[d] # <<>> <=> d \in ToSet(Behind(c))
      BY <2>1, <2>2, <3>3, <3>4 DEF OrderInv
    <3> QED  BY <2>2, <3>1, <3>2, <3>5, TrimOrder
  <2>8. CASE AnswerContinued
    <3>1. lru' = Behind(c)  BY <2>8 DEF AnswerContinued
    <3> DEFINE same == {i \in DOMAIN waiting[c] : waiting[c][i].ask = listener.ask
                                                  /\ waiting[c][i].who = listener.who}
    <3>2. \/ \E i \in same : waiting' = [waiting EXCEPT ![c][i].lines = @ \cup {listener.n}]
          \/ Room(c) /\ waiting' = [waiting EXCEPT ![c] = Append(@, Item)]
          \/ ~Room(c) /\ UNCHANGED waiting
      BY <2>8 DEF AnswerContinued
    <3> HIDE DEF c
    <3>3. /\ waiting'[c] # <<>> /\ Len(waiting'[c]) <= PendingAnswers
          /\ \A d \in Chats \ {c} : waiting'[d] = waiting[d]
      <4>1. ASSUME NEW i \in same, waiting' = [waiting EXCEPT ![c][i].lines = @ \cup {listener.n}]
            PROVE  /\ waiting'[c] # <<>> /\ Len(waiting'[c]) = Len(waiting[c])
                   /\ \A d \in Chats \ {c} : waiting'[d] = waiting[d]
        <5>1. i \in 1..Len(waiting[c])  BY <2>3, LenProperties
        <5>2. waiting' = [waiting EXCEPT ![c] = Joined(waiting[c], i, listener.n)]
          BY <1>0, <2>1, <4>1 DEF Joined
        <5> DEFINE y == [waiting[c][i] EXCEPT !.lines = @ \cup {listener.n}]
        <5>3. Joined(waiting[c], i, listener.n) = [waiting[c] EXCEPT ![i] = y]
          BY DEF Joined
        <5> HIDE DEF y
        <5>4. Len([waiting[c] EXCEPT ![i] = y]) = Len(waiting[c])
          BY <2>3, <5>1, LenProperties, SeqDef
        <5> QED BY <1>0, <2>1, <2>3, <5>1, <5>2, <5>3, <5>4
      <4>2. CASE \E i \in same : waiting' = [waiting EXCEPT ![c][i].lines = @ \cup {listener.n}]
        BY <2>1, <4>1, <4>2 DEF OrderInv
      <4>3. CASE Room(c) /\ waiting' = [waiting EXCEPT ![c] = Append(@, Item)]
        BY <1>0, <2>1, <2>4, <2>5, <4>3
      <4>4. CASE ~Room(c) /\ UNCHANGED waiting
        BY <2>1, <2>6, <4>4 DEF OrderInv
      <4> QED  BY <3>2, <4>2, <4>3, <4>4
    <3> QED  BY <2>1, <2>2, <3>1, <3>3 DEF OrderInv
  <2> QED  BY <1>4, <2>7, <2>8
<1>5. CASE AgentTurn
  BY <1>1, <1>2, <1>5, AskFacts DEF AgentTurn, answerVars
<1>6. CASE \E c \in Chats : TurnTakes(c)  BY <1>2, <1>6 DEF TurnTakes
<1>7. CASE Reboot
  <2>1. lru' = <<>> /\ \A c \in Chats : waiting'[c] = <<>>  BY <1>7 DEF Reboot
  <2>2. Once(<<>>) /\ ToSet(<<>>) = {} /\ Len(<<>>) = 0  BY DEF Once, ToSet
  <2> QED  BY <1>0, <2>1, <2>2 DEF OrderInv
<1>8. CASE \/ \E a \in Asks : TimePasses(a)
           \/ \E w \in Talkers : SecondsPass(w)
           \/ \E w \in Talkers, t \in Asks \cup {NoAsk}, b \in BOOLEAN : HearLine(w, t, b)
           \/ OpenAsk \/ AskRefused \/ PostAsk \/ PostFails \/ Judge \/ Rules \/ Tick
           \/ UNCHANGED meshVars
  BY <1>1, <1>8 DEF TimePasses, SecondsPass, HearLine, OpenAsk, AskRefused, PostAsk, PostFails,
                    Judge, Rules, Tick, meshVars, answerVars
<1> QED
  BY <1>3, <1>4, <1>5, <1>6, <1>7, <1>8 DEF MeshNext, TurnStep, WorkerStep

\* Only asks that were made are overdue, posted or shown.
MadeInv ==
  /\ overdue \subseteq Made /\ posted \subseteq Made /\ shown \subseteq Made
  /\ boots \in 0..MaxBoots

\* No step makes an ask overdue, posted or shown that was not opened.
LEMMA MadeStep ==
  ASSUME MeshInv, MeshInv', MadeInv, [MeshNext]_meshVars
  PROVE  MadeInv'
<1>1. Made \subseteq Made'
  <2>1. CASE UNCHANGED askedIn  BY <2>1 DEF Made
  <2>2. CASE OpenAsk
    <3>1. NewAsk \notin Made /\ NewAsk \in Asks
      BY <2>2, NewAskIsNext DEF OpenAsk, MeshInv, MeshTypes, BookTypes
    <3>2. UNCHANGED askedIn \/ askedIn' = [askedIn EXCEPT ![NewAsk] = turn.chat]
      BY <2>2 DEF OpenAsk
    <3> QED BY <3>1, <3>2 DEF Made, MeshInv, MeshTypes, BookTypes
  <2> QED  BY <2>1, <2>2 DEF MeshNext, TurnStep, WorkerStep, TimePasses, SecondsPass, TurnTakes,
       AskRefused, PostAsk, PostFails, TurnEnds, HearLine, Judge, Rules, AnswerArrived,
       AnswerContinued, AgentTurn, Tick, Reboot, meshVars, askVars
<1>2. \A a \in Asks : book'[a] = "expired" => a \in Made'
  BY DEF MeshInv, BookInv
<1>3. CASE UNCHANGED <<overdue, posted, shown, boots>>
  BY <1>1, <1>3 DEF MadeInv
<1>4. CASE \E a \in Asks : TimePasses(a)
  BY <1>1, <1>4 DEF TimePasses, MadeInv
<1>5. CASE PostAsk
  <2>1. turn.ask \in Made  BY <1>5 DEF PostAsk, MeshInv, MeshTypes, TurnTypes
  <2> QED  BY <1>1, <1>5, <2>1 DEF PostAsk, MadeInv
<1>6. CASE Tick
  BY <1>1, <1>2, <1>6 DEF Tick, MadeInv
<1>7. CASE Reboot
  <2>1. boots' \in 0..MaxBoots  BY <1>7, MeshAssumption DEF Reboot, MadeInv
  <2> QED  BY <1>1, <1>2, <1>7, <2>1 DEF Reboot, MadeInv
<1> QED  BY <1>3, <1>4, <1>5, <1>6, <1>7 DEF MeshNext, TurnStep, WorkerStep, SecondsPass, TurnTakes,
       OpenAsk, AskRefused, PostFails, TurnEnds, HearLine, Judge, Rules, AnswerArrived,
       AnswerContinued, AgentTurn, meshVars, askVars

\* Every variable keeps its type: a conversation is in the order (_mesh_answers) exactly
\* when it has answers waiting, and never has more of them than MESH_PENDING_ANSWERS.
THEOREM MeshTypeCorrect == MeshSpec => []MeshTypeOK
<1>1. MeshInit => OrderInv /\ MadeInv
  <2>1. ASSUME MeshInit PROVE OrderInv
    <3>1. lru = <<>> /\ \A c \in Chats : waiting[c] = <<>>  BY <2>1 DEF MeshInit
    <3>2. Once(<<>>) /\ ToSet(<<>>) = {} /\ Len(<<>>) = 0 /\ PendingAnswers \in Nat
      BY AskFacts DEF Once, ToSet
    <3> QED  BY <3>1, <3>2 DEF OrderInv
  <2>2. ASSUME MeshInit PROVE MadeInv
    BY <2>2, MeshAssumption DEF MeshInit, MadeInv
  <2> QED  BY <2>1, <2>2
<1>2. MeshInv /\ MeshInv' /\ OrderInv /\ MadeInv /\ [MeshNext]_meshVars => OrderInv' /\ MadeInv'
  BY OrderStep, MadeStep
<1>3. MeshInv /\ OrderInv /\ MadeInv => MeshTypeOK
  <2> SUFFICES ASSUME MeshInv, OrderInv, MadeInv PROVE MeshTypeOK  OBVIOUS
  <2> USE DEF MeshInv, MeshTypes
  <2>1. turn.at \in {"none", "turn", "posting", "agent"} /\ turn.ask \in Asks \cup {NoAsk}
    BY DEF TurnTypes, Turns
  <2>2. listener.at \in Places
    BY DEF ListenerTypes, Listeners
  <2>3. told \in [Asks -> 0..2]
    BY DEF BookTypes, BookInv
  <2>4. ASSUME NEW c \in Chats
        PROVE  /\ \A i \in DOMAIN waiting[c] : IsItem(waiting[c][i])
               /\ waiting[c] # <<>> <=> \E k \in DOMAIN lru : lru[k] = c
    <3>1. waiting[c] \in Seq(Items) /\ lru \in Seq(Chats)  BY DEF AnswerTypes
    <3>2. \A i \in Items : IsItem(i)  BY DEF Items, IsItem
    <3>3. ToSet(lru) = {lru[k] : k \in DOMAIN lru}  BY DEF ToSet
    <3> QED  BY <3>1, <3>2, <3>3, ElementOfSeq, LenProperties DEF OrderInv
  <2> QED  BY <2>1, <2>2, <2>3, <2>4
           DEF MeshTypeOK, BookTypes, ListenerTypes, OrderInv, MadeInv, Places
<1> QED  BY <1>1, <1>2, <1>3, MeshInvHolds, PTL DEF MeshSpec
===============================================================================

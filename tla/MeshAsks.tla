------------------------------ MODULE MeshAsks ------------------------------
(***************************************************************************)
(* embodiment.mesh_asks.AskBook and its users in daemon.app: a turn asks   *)
(* the chat a question and ends; answers come hours later, or never, as    *)
(* chat lines which one worker thread matches to an ask -- by a model that *)
(* judges, else by rules -- and leaves for the next turn of the            *)
(* conversation that asked.  The book is one file, saved after each change *)
(* by a replace that may fail; the daemon may die and come back.           *)
(*                                                                         *)
(* Grain: one action is one critical section of the book's lock or of the  *)
(* app's, or one call to the chat or to the judge.  One channel; texts and *)
(* the labels on an answer (late, ambiguous, rule) are left out; expiry,   *)
(* the five seconds of a continuation and the rate cap are choices of the  *)
(* clock.                                                                  *)
(***************************************************************************)
EXTENDS Naturals, Sequences, FiniteSets, SequencesExt

CONSTANTS
  MaxAsks,          \* bound: asks opened in a run
  MaxLines,         \* bound: chat lines heard in a run
  MaxBoots,         \* bound: how often the daemon comes back
  Talkers,          \* nicks in the channel
  Chats,            \* conversations of the operator
  AgentChat,        \* the conversation of the agents' turns, which the operator may join
  NoAsk,            \* no ask
  MaxOpenAsks,      \* asks open at once
  MaxKeptAsks,      \* closed ones kept
  PendingAnswers,   \* MESH_PENDING_ANSWERS, of one conversation
  ChatsKept,        \* MESH_CONVERSATIONS_KEPT, with answers waiting
  SavesFail         \* may the file not be replaced?

ASSUME MeshAssumption ==
  /\ {MaxAsks, MaxLines, MaxBoots} \subseteq Nat
  /\ {MaxOpenAsks, MaxKeptAsks, PendingAnswers, ChatsKept} \subseteq Nat \ {0}
  /\ NoAsk \notin Nat /\ AgentChat \in Chats /\ "nobody" \notin Chats /\ SavesFail \in BOOLEAN

VARIABLES
  book, kept,       \* the status of each ask: in memory, and in the file
  askedIn,           \* the conversation each ask is of
  overdue,          \* asks whose time is over
  lastAnswer,       \* the ask that each nick answered in the last five seconds
  turn,             \* the turn that holds the conversation lock
  listener,         \* the worker: where it is, and the line it handles
  waiting,          \* _mesh_answers: per conversation, the answers no turn has read
  lru,              \* ... and its order
  shown,            \* _mesh_expired
  \* history
  posted,           \* asks that reached the chat
  told,             \* how often each ask was announced expired
  used,             \* lines that a turn used
  boots

askVars == <<book, kept, askedIn, overdue, lastAnswer>>
answerVars == <<waiting, lru>>
meshVars == <<askVars, turn, listener, answerVars, shown, posted, told, used, boots>>

Asks == 1..MaxAsks
Statuses == {"none", "open", "answered", "expired", "failed"}
Made == {a \in Asks : askedIn[a] # "nobody"}
Open(b) == {a \in Asks : b[a] = "open"}

NoTurn == [at |-> "none", chat |-> AgentChat, ask |-> NoAsk, taken |-> <<>>]
Listening(n, place) == [at |-> place, n |-> n, who |-> "", thread |-> NoAsk, addressed |-> FALSE,
                        picks |-> {}, ask |-> NoAsk]

MeshInit ==
  /\ book = [a \in Asks |-> "none"] /\ kept = book
  /\ askedIn = [a \in Asks |-> "nobody"] /\ overdue = {}
  /\ lastAnswer = [w \in Talkers |-> NoAsk]
  /\ turn = NoTurn /\ listener = Listening(0, "idle")
  /\ waiting = [c \in Chats |-> <<>>] /\ lru = <<>>
  /\ shown = {} /\ posted = {} /\ told = [a \in Asks |-> 0] /\ used = {} /\ boots = 0

\* _save: a temporary file replaces the old one, or it does not.
SaveAsks(b) == (kept' = b) \/ (SavesFail /\ UNCHANGED kept)

\* _expire.
Expire(b) == [a \in Asks |-> IF b[a] = "open" /\ a \in overdue THEN "expired" ELSE b[a]]

\* The clock passes an ask's expires_at; the five seconds after an answer.
TimePasses(a) ==
  /\ a \in Made \ overdue
  /\ overdue' = overdue \cup {a}
  /\ UNCHANGED <<book, kept, askedIn, lastAnswer, turn, listener, answerVars, shown, posted, told, used, boots>>
SecondsPass(w) ==
  /\ lastAnswer[w] # NoAsk
  /\ lastAnswer' = [lastAnswer EXCEPT ![w] = NoAsk]
  /\ UNCHANGED <<book, kept, askedIn, overdue, turn, listener, answerVars, shown, posted, told, used, boots>>

(***************************************************************************)
(* A turn: it takes the answers that wait for its conversation, may ask    *)
(* once, and uses the answers or puts them back.                           *)
(***************************************************************************)

\* The order of the conversations when one is popped, or is about to move to the end.
Without(c) == RemoveFirst(lru, c)

\* _mesh_begin: the answers are popped.
TakeAnswers(c, mesh) ==
  /\ turn' = [at |-> IF mesh THEN "agent" ELSE "turn", chat |-> c, ask |-> NoAsk,
              taken |-> waiting[c]]
  /\ waiting' = [waiting EXCEPT ![c] = <<>>]
  /\ lru' = Without(c)

TurnTakes(c) ==
  /\ turn.at = "none"
  /\ TakeAnswers(c, FALSE)
  /\ UNCHANGED <<askVars, listener, shown, posted, told, used, boots>>

NewAsk == CHOOSE a \in Asks : a \notin Made /\ \A d \in Asks \ Made : a <= d

\* The oldest closed asks past the number kept go.
Pruned(b, a) ==
  LET saved == {d \in Asks : b[d] # "none"} IN
    [d \in Asks |-> IF /\ b[d] \notin {"none", "open"}
                       /\ Cardinality({e \in saved : e >= d}) > MaxKeptAsks
                    THEN "none" ELSE b[d]]

\* Mutant: goes on when the save has failed.
BadOpenAsk ==
  /\ turn.at = "turn" /\ turn.ask = NoAsk /\ Made # Asks
  /\ Cardinality(Open(Expire(book))) < MaxOpenAsks
  /\ LET a == NewAsk IN
       /\ book' = Pruned([Expire(book) EXCEPT ![a] = "open"], a)
       /\ askedIn' = [askedIn EXCEPT ![a] = turn.chat]
       /\ turn' = [turn EXCEPT !.ask = a, !.at = "posting"]
       /\ SaveAsks(book')
  /\ UNCHANGED <<overdue, lastAnswer, listener, answerVars, shown, posted, told, used, boots>>

\* open_ask, for a turn that has not asked and was not begun by the mesh: saved
\* before it is posted, or not opened.
OpenAsk ==
  /\ turn.at = "turn" /\ turn.ask = NoAsk /\ Made # Asks
  /\ Cardinality(Open(Expire(book))) < MaxOpenAsks
  /\ LET a == NewAsk
         b == Pruned([Expire(book) EXCEPT ![a] = "open"], a)
     IN \/ /\ book' = b /\ kept' = b
           /\ askedIn' = [askedIn EXCEPT ![a] = turn.chat]
           /\ turn' = [turn EXCEPT !.ask = a, !.at = "posting"]
        \/ /\ SavesFail
           /\ book' = [b EXCEPT ![a] = "none"]
           /\ UNCHANGED <<kept, askedIn, turn>>
  /\ UNCHANGED <<overdue, lastAnswer, listener, answerVars, shown, posted, told, used, boots>>

AskRefused ==
  /\ turn.at = "turn" /\ turn.ask = NoAsk
  /\ Cardinality(Open(Expire(book))) >= MaxOpenAsks
  /\ book' = Expire(book)
  /\ UNCHANGED <<kept, askedIn, overdue, lastAnswer, turn, listener, answerVars, shown, posted, told, used, boots>>

\* The poster: the thread is created and the book looked at ...
PostAsk ==
  /\ turn.at = "posting"
  /\ posted' = posted \cup {turn.ask}
  /\ book' = Expire(book)
  /\ turn' = [turn EXCEPT !.at = "turn"]
  /\ UNCHANGED <<kept, askedIn, overdue, lastAnswer, listener, answerVars, shown, told, used, boots>>

\* ... or it is not, and fail() closes the ask if nobody has answered it.
PostFails ==
  /\ turn.at = "posting"
  /\ IF book[turn.ask] = "open"
     THEN book' = [book EXCEPT ![turn.ask] = "failed"] /\ SaveAsks(book')
     ELSE UNCHANGED <<book, kept>>
  /\ turn' = [turn EXCEPT !.at = "turn"]
  /\ UNCHANGED <<askedIn, overdue, lastAnswer, listener, answerVars, shown, posted, told, used, boots>>

CutAnswers(s) == SubSeq(s, 1, IF Len(s) > PendingAnswers THEN PendingAnswers ELSE Len(s))

\* Mutant: puts the answers back over those that came meanwhile.
BadPutBackOver ==
  /\ waiting' = [waiting EXCEPT ![turn.chat] = turn.taken]
  /\ lru' = IF waiting[turn.chat] = <<>> THEN Append(lru, turn.chat) ELSE lru

\* Mutant: puts the answers back after those that came meanwhile.
BadPutBack ==
  /\ waiting' = [waiting EXCEPT ![turn.chat] = CutAnswers(@ \o turn.taken)]
  /\ lru' = IF waiting[turn.chat] = <<>> THEN Append(lru, turn.chat) ELSE lru

\* ... at the front, and the newest over the number kept go.
PutBack ==
  /\ waiting' = [waiting EXCEPT ![turn.chat] = CutAnswers(turn.taken \o @)]
  /\ lru' = IF waiting[turn.chat] = <<>> THEN Append(lru, turn.chat) ELSE lru

Lines(items) == {l \in 1..MaxLines : \E i \in DOMAIN items : l \in items[i].lines}

\* end_turn and _mesh_end: a turn that answered has used what it had taken.
TurnEnds ==
  /\ turn.at \in {"turn", "agent"}
  /\ IF turn.ask # NoAsk /\ book[turn.ask] # "none" THEN SaveAsks(book) ELSE UNCHANGED kept
  /\ \/ /\ used' = used \cup Lines(turn.taken) /\ UNCHANGED answerVars
     \/ /\ turn.taken # <<>> /\ PutBack /\ UNCHANGED used
  /\ turn' = NoTurn
  /\ listener' = IF turn.at = "agent" THEN Listening(listener.n, "tick") ELSE listener
  /\ UNCHANGED <<book, askedIn, overdue, lastAnswer, shown, posted, told, boots>>

(***************************************************************************)
(* The worker.                                                             *)
(***************************************************************************)
LastOf(w) == lastAnswer[w]

\* continuation: a plain line of a nick that has answered just now.
Continues(w, thread, addressed) ==
  /\ thread = NoAsk /\ ~addressed
  /\ lastAnswer[w] # NoAsk /\ book[lastAnswer[w]] = "answered"

\* candidates: the asks that listen in the channel, and the thread's own.
Candidates(b, thread) ==
  {a \in Asks : \/ a = thread /\ b[a] \notin {"none", "failed"}
                \/ b[a] \in {"open", "answered"} /\ a \notin overdue}

Unmatched(place) == IF listener.addressed THEN "agent" ELSE place

HearLine(w, thread, addressed) ==
  /\ listener.at = "idle" /\ listener.n < MaxLines
  /\ thread # NoAsk => thread \in posted
  /\ LET Heard(place, picks, ask) ==
           [at |-> place, n |-> listener.n + 1, who |-> w, thread |-> thread,
            addressed |-> addressed, picks |-> picks, ask |-> ask] IN
       \/ \* a line that only reports on its sender
          /\ listener' = Listening(listener.n + 1, IF addressed THEN "agent" ELSE "tick")
          /\ UNCHANGED <<book, kept>>
       \/ /\ Continues(w, thread, addressed)
          /\ SaveAsks(book)
          /\ listener' = Heard("continued", {}, lastAnswer[w])
          /\ UNCHANGED book
       \/ /\ ~Continues(w, thread, addressed)
          /\ book' = Expire(book)
          /\ IF book' = book THEN UNCHANGED kept ELSE SaveAsks(book')
          /\ LET picks == Candidates(book', thread) IN
               listener' = Heard(IF picks = {} THEN "rules" ELSE "judge", picks, NoAsk)
  /\ UNCHANGED <<askedIn, overdue, lastAnswer, turn, answerVars, shown, posted, told, used, boots>>

\* _record_answer.
RecordAnswer(b, a) ==
  /\ book' = [b EXCEPT ![a] = "answered"] /\ SaveAsks(book')
  /\ lastAnswer' = [lastAnswer EXCEPT ![listener.who] = a]
  /\ listener' = [Listening(listener.n, "arrived") EXCEPT !.who = listener.who, !.ask = a]

\* Mutant: takes the judge's word.
BadAttach(a) == RecordAnswer(Expire(book), a)

\* attach: the ask may have failed or gone since it was a candidate.
Attach(a) ==
  LET b == Expire(book) IN
    \/ b[a] \notin {"none", "failed"} /\ RecordAnswer(b, a)
    \/ /\ b[a] \in {"none", "failed"}
       /\ book' = b /\ listener' = Listening(listener.n, Unmatched("tick"))
       /\ UNCHANGED <<kept, lastAnswer>>

\* The judge: an ask, no ask, or no verdict.
Judge ==
  /\ listener.at = "judge"
  /\ \/ \E a \in listener.picks : Attach(a)
     \/ /\ listener' = Listening(listener.n, Unmatched("tick"))
        /\ UNCHANGED <<book, kept, lastAnswer>>
     \/ /\ listener' = [listener EXCEPT !.at = "rules", !.picks = {}]
        /\ UNCHANGED <<book, kept, lastAnswer>>
  /\ UNCHANGED <<askedIn, overdue, turn, answerVars, shown, posted, told, used, boots>>

\* match_answer: the thread's ask, else the newest open one if the line is
\* addressed to the daemon.
Matches(b) ==
  IF listener.thread # NoAsk /\ b[listener.thread] \in {"open", "expired", "answered"} THEN {listener.thread}
  ELSE IF listener.addressed THEN {a \in Open(b) : \A d \in Open(b) : d <= a}
  ELSE {}

Rules ==
  /\ listener.at = "rules"
  /\ LET b == Expire(book) IN
       \/ \E a \in Matches(b) : RecordAnswer(b, a)
       \/ /\ Matches(b) = {}
          /\ IF listener.thread # NoAsk \/ listener.addressed
             THEN book' = b /\ IF b = book THEN UNCHANGED kept ELSE SaveAsks(b)
             ELSE UNCHANGED <<book, kept>>
          /\ listener' = Listening(listener.n, Unmatched("tick"))
          /\ UNCHANGED lastAnswer
  /\ UNCHANGED <<askedIn, overdue, turn, answerVars, shown, posted, told, used, boots>>

Item == [ask |-> listener.ask, who |-> listener.who, lines |-> {listener.n}]
Behind(c) == Append(Without(c), c)
Room(c) == Len(waiting[c]) < PendingAnswers
\* The conversations over the number kept go, the one longest without an answer first.
Trim(w, order) ==
  LET over == IF Len(order) > ChatsKept THEN Len(order) - ChatsKept ELSE 0 IN
    /\ waiting' = [c \in Chats |-> IF \E k \in 1..over : order[k] = c THEN <<>> ELSE w[c]]
    /\ lru' = SubSeq(order, over + 1, Len(order))

\* _mesh_answer_arrived.
AnswerArrived ==
  /\ listener.at = "arrived"
  /\ LET c == askedIn[listener.ask] IN
       Trim(IF Room(c) THEN [waiting EXCEPT ![c] = Append(@, Item)] ELSE waiting, Behind(c))
  /\ listener' = Listening(listener.n, "tick")
  /\ UNCHANGED <<askVars, turn, shown, posted, told, used, boots>>

\* _mesh_answer_continued: joined to the answer if it still waits.
AnswerContinued ==
  /\ listener.at = "continued"
  /\ LET c == askedIn[listener.ask]
         same == {i \in DOMAIN waiting[c] : waiting[c][i].ask = listener.ask /\ waiting[c][i].who = listener.who}
     IN /\ \/ \E i \in same : /\ \A j \in same : j <= i
                              /\ waiting' = [waiting EXCEPT ![c][i].lines = @ \cup {listener.n}]
           \/ same = {} /\ Room(c) /\ waiting' = [waiting EXCEPT ![c] = Append(@, Item)]
           \/ same = {} /\ ~Room(c) /\ UNCHANGED waiting
        /\ lru' = Behind(c)
  /\ listener' = Listening(listener.n, "tick")
  /\ UNCHANGED <<askVars, turn, shown, posted, told, used, boots>>

\* _mesh_agent_turn: refused by the rate cap, no conversation for it, the other
\* turn too long, or a turn of its own.
AgentTurn ==
  /\ listener.at = "agent"
  /\ \/ /\ listener' = Listening(listener.n, "tick") /\ UNCHANGED <<turn, answerVars>>
     \/ /\ turn.at = "none"
        /\ TakeAnswers(AgentChat, TRUE)
        /\ listener' = Listening(listener.n, "talking")
  /\ UNCHANGED <<askVars, shown, posted, told, used, boots>>

\* Mutant: looks at the statuses as they are.
BadTickStale ==
  /\ listener.at \in {"idle", "tick"}
  /\ LET new == {a \in Asks : book[a] = "expired"} \ shown IN
       /\ shown' = shown \cup new
       /\ told' = [a \in Asks |-> told[a] + IF a \in new THEN 1 ELSE 0]
  /\ listener' = Listening(listener.n, "idle")
  /\ UNCHANGED <<book, kept, askedIn, overdue, lastAnswer, turn, answerVars, posted, used, boots>>

\* _mesh_tick: every expired ask is announced once.
Tick ==
  /\ listener.at \in {"idle", "tick"}
  /\ book' = Expire(book)
  /\ LET new == {a \in Asks : book'[a] = "expired"} \ shown IN
       /\ shown' = shown \cup new
       /\ told' = [a \in Asks |-> told[a] + IF a \in new THEN 1 ELSE 0]
  /\ listener' = Listening(listener.n, "idle")
  /\ UNCHANGED <<kept, askedIn, overdue, lastAnswer, turn, answerVars, posted, used, boots>>

(***************************************************************************)
(* The daemon dies and comes back: _load, and _start_mesh, for which what  *)
(* has expired by now is no news.                                          *)
(***************************************************************************)
Reboot ==
  /\ boots < MaxBoots
  /\ boots' = boots + 1
  /\ book' = Expire(kept)
  /\ shown' = {a \in Asks : book'[a] = "expired"}
  /\ lastAnswer' = [w \in Talkers |-> NoAsk]
  /\ turn' = NoTurn /\ listener' = Listening(listener.n, "idle")
  /\ waiting' = [c \in Chats |-> <<>>] /\ lru' = <<>>
  /\ UNCHANGED <<kept, askedIn, overdue, posted, told, used>>

TurnStep == \/ \E c \in Chats : TurnTakes(c)
            \/ OpenAsk \/ AskRefused \/ PostAsk \/ PostFails \/ TurnEnds
WorkerStep == \/ \E w \in Talkers, t \in Asks \cup {NoAsk}, b \in BOOLEAN : HearLine(w, t, b)
           \/ Judge \/ Rules \/ AnswerArrived \/ AnswerContinued \/ AgentTurn
MeshNext == \/ TurnStep \/ WorkerStep \/ Tick \/ Reboot
            \/ \E a \in Asks : TimePasses(a)
            \/ \E w \in Talkers : SecondsPass(w)

MeshSpec == MeshInit /\ [][MeshNext]_meshVars

\* The worker's loop goes round, its calls return, and turns end.
MeshFairness ==
  /\ WF_meshVars(Tick)
  /\ WF_meshVars(Judge \/ Rules \/ AnswerArrived \/ AnswerContinued \/ AgentTurn)
  /\ WF_meshVars(PostAsk \/ PostFails) /\ WF_meshVars(TurnEnds)

(***************************************************************************)
(* Properties.                                                             *)
(***************************************************************************)
IsItem(i) == /\ i.ask \in Asks /\ i.who \in Talkers
             /\ i.lines \subseteq 1..MaxLines /\ i.lines # {}

MeshTypeOK ==
  /\ book \in [Asks -> Statuses] /\ kept \in [Asks -> Statuses]
  /\ askedIn \in [Asks -> Chats \cup {"nobody"}]
  /\ overdue \subseteq Made /\ posted \subseteq Made /\ shown \subseteq Made
  /\ lastAnswer \in [Talkers -> Asks \cup {NoAsk}]
  /\ turn.at \in {"none", "turn", "posting", "agent"} /\ turn.ask \in Asks \cup {NoAsk}
  /\ listener.at \in {"idle", "tick", "judge", "rules", "arrived", "continued", "agent", "talking"}
  /\ \A c \in Chats : /\ Len(waiting[c]) <= PendingAnswers
                         /\ \A i \in DOMAIN waiting[c] : IsItem(waiting[c][i])
                         /\ waiting[c] # <<>> <=> \E k \in DOMAIN lru : lru[k] = c
  /\ told \in [Asks -> 0..2] /\ boots \in 0..MaxBoots

\* The answers of a conversation that no turn has used: what its turn has taken,
\* and what waits.
Taken(c) == IF turn.at # "none" /\ turn.chat = c THEN turn.taken ELSE <<>>
Unused(c) == Taken(c) \o waiting[c]

First(i) == CHOOSE l \in i.lines : \A m \in i.lines : l <= m

\* However arrivals, turns that fail and turns that answer mix: no answer is
\* read twice, and the next turn reads a conversation's in the order they came.
AnswersOnceInOrder ==
  \A c \in Chats :
    /\ \A i, j \in DOMAIN Unused(c) :
         i < j => /\ First(Unused(c)[i]) < First(Unused(c)[j])
                  /\ Unused(c)[i].lines \cap Unused(c)[j].lines = {}
    /\ Lines(Unused(c)) \cap used = {}

\* An answer that waits for a turn, or that a turn has taken, stays until a turn
\* uses it, unless the daemon dies, older answers fill its conversation's list, or
\* too many conversations have answers waiting.
AnswerKept ==
  [][\A c \in Chats : \A l \in Lines(Unused(c)) :
       \/ l \in Lines(Unused(c)') \/ l \in used' \/ boots' # boots
       \/ /\ Len(waiting'[c]) = PendingAnswers
          /\ \A i \in DOMAIN waiting'[c] : First(waiting'[c][i]) < l
       \/ waiting'[c] = <<>> /\ Len(lru') = ChatsKept]_meshVars

\* An ask that still listens survives a crash: its status is in the file.
OpenIsDurable == \A a \in Asks : book[a] = "open" => kept[a] = "open"

\* An ask that failed is never matched, whatever the judge picked before it did.
FailedNeverMatched ==
  [][\A a \in Asks : book[a] = "failed" => book'[a] \in {"failed", "none"} \/ boots' # boots]_meshVars

\* An ask is announced expired at most once, over every life of the daemon.
AnnouncedOnce == \A a \in Asks : told[a] <= 1

\* The book outlives the daemon: what it listens for is in the file before a crash, and
\* what it announced is not announced again after one.
AsksSurvive == OpenIsDurable /\ AnnouncedOnce

\* An ask whose time is over does not stay open: it is shown as expired, or it was
\* answered, or its post failed.
ExpiryShown == \A a \in Asks : (a \in overdue /\ book[a] = "open") ~>
                               (a \in shown \/ book[a] \notin {"open", "expired"})
=============================================================================

---------------------------- MODULE ChatRequests ----------------------------
(***************************************************************************)
(* A typed question, from the page to the conversation and back: the chat  *)
(* page (web/src), which remembers the questions it has no answer for; the *)
(* text lane of http.server, a pool with few workers and a bound on what   *)
(* is outstanding, whose routes wait for so long and then answer without;  *)
(* daemon.app, which keeps each named question's result; and the lock that *)
(* a typed or a spoken turn holds on the conversation.  Pages are left,    *)
(* requests cut off, and the server closed or killed.                      *)
(*                                                                         *)
(* Grain: one action is one critical section, or one message between page  *)
(* and server.  Waits time out whenever what they wait for is not so.      *)
(* Each question is asked on a page of its own; one conversation.          *)
(***************************************************************************)
EXTENDS Naturals, Sequences, FiniteSets, SequencesExt

CONSTANTS
  Questions,        \* request ids
  Voice,            \* a spoken turn
  Free,             \* nobody has the conversation
  TextWorkers,      \* threads of the text lane
  MaxInflight,      \* its calls outstanding
  MaxResults,       \* results kept
  MaxSpoken,        \* bound: spoken turns
  MaxLives          \* bound: how often the server comes back

ASSUME ChatAssumption ==
  /\ {TextWorkers, MaxInflight, MaxResults} \subseteq Nat \ {0}
  /\ {MaxSpoken, MaxLives} \subseteq Nat
  /\ Voice # Free /\ {Voice, Free} \cap Questions = {}

VARIABLES
  page,             \* what the page shows for each question
  post,             \* where its request is, as the server's route sees it
  job,              \* its call on the text lane
  queue,            \* calls no worker has taken: <<"chat" | "poll" | "stale", q>>
  inflight,         \* the lane's count
  poll,             \* is a poll of the page outstanding
  results, keptOrder,   \* _chat_results, and its order
  floor,            \* who holds the conversation
  spoken,           \* turns spoken so far
  log,              \* the session's records: <<"user" | "reply" | "refusal", who>>
  serving,          \* "up", or "closing" after shutdown()
  lives,            \* how often the server has come back
  forgotten         \* questions whose result the bound or a restart dropped

serverVars == <<job, queue, inflight, results, keptOrder>>
chatVars == <<page, post, serverVars, poll, floor, spoken, log, serving, lives, forgotten>>

Running == {q \in Questions : job[q] \in {"begun", "talking"}}

ChatInit ==
  /\ page = [q \in Questions |-> "unasked"] /\ post = [q \in Questions |-> "none"]
  /\ job = [q \in Questions |-> "none"] /\ queue = <<>> /\ inflight = 0
  /\ poll = [q \in Questions |-> FALSE]
  /\ results = [q \in Questions |-> "none"] /\ keptOrder = <<>>
  /\ floor = Free /\ spoken = 0 /\ log = <<>>
  /\ serving = "up" /\ lives = 0 /\ forgotten = {}

\* What a page that still listens makes of the answer to its request.
Hears(q, what) == page' = [page EXCEPT ![q] = IF @ = "sent" THEN what ELSE @]

(***************************************************************************)
(* The page: Chat.tsx and pendingChats.ts.                                 *)
(***************************************************************************)
Ask(q) ==
  /\ page[q] = "unasked"
  /\ page' = [page EXCEPT ![q] = "sent"] /\ post' = [post EXCEPT ![q] = "flying"]
  /\ UNCHANGED <<serverVars, poll, floor, spoken, log, serving, lives, forgotten>>

\* Left with the request on its way: the next visit finds it pending.
PageLeft(q) ==
  /\ page[q] = "sent"
  /\ page' = [page EXCEPT ![q] = "waiting"]
  /\ UNCHANGED <<post, serverVars, poll, floor, spoken, log, serving, lives, forgotten>>

\* The request never arrives: a network error, which leaves it pending too.
PostLost(q) ==
  /\ post[q] = "flying"
  /\ post' = [post EXCEPT ![q] = "lost"]
  /\ Hears(q, "waiting")
  /\ UNCHANGED <<serverVars, poll, floor, spoken, log, serving, lives, forgotten>>

\* GET /api/chat/{id}, on the text lane like the chat itself; refused when the
\* lane is full or closed, and asked again.
PollSent(q) ==
  /\ page[q] = "waiting" /\ ~poll[q]
  /\ serving = "up" /\ inflight < MaxInflight
  /\ inflight' = inflight + 1
  /\ queue' = Append(queue, <<"poll", q>>)
  /\ poll' = [poll EXCEPT ![q] = TRUE]
  /\ UNCHANGED <<page, post, job, results, keptOrder, floor, spoken, log, serving, lives, forgotten>>

\* Every worker was busy for as long: the route answers 503, its call stays in
\* the queue.
PollTimesOut(q) ==
  /\ Cardinality(Running) = TextWorkers
  /\ poll[q] /\ Contains(queue, <<"poll", q>>)
  /\ queue' = [i \in DOMAIN queue |-> IF queue[i] = <<"poll", q>> THEN <<"stale", q>> ELSE queue[i]]
  /\ poll' = [poll EXCEPT ![q] = FALSE]
  /\ UNCHANGED <<page, post, job, inflight, results, keptOrder, floor, spoken, log, serving, lives, forgotten>>

(***************************************************************************)
(* The server's routes and its text lane.                                  *)
(***************************************************************************)

\* Mutant: the count is not given back when the pool is closed.
BadPostArrives(q) ==
  /\ post[q] = "flying"
  /\ \/ /\ post' = [post EXCEPT ![q] = "answered"] /\ Hears(q, "failed")
        /\ inflight' = IF inflight < MaxInflight THEN inflight + 1 ELSE inflight
        /\ UNCHANGED <<job, queue>>
     \/ /\ serving = "up" /\ inflight < MaxInflight
        /\ inflight' = inflight + 1
        /\ queue' = Append(queue, <<"chat", q>>)
        /\ job' = [job EXCEPT ![q] = "queued"]
        /\ post' = [post EXCEPT ![q] = "waits"] /\ UNCHANGED page
  /\ UNCHANGED <<poll, results, keptOrder, floor, spoken, log, serving, lives, forgotten>>

\* The settings are applied, the call is admitted and submitted -- or one of the
\* three refuses; a submission to a closed pool gives the count back.
PostArrives(q) ==
  /\ post[q] = "flying"
  /\ \/ /\ post' = [post EXCEPT ![q] = "answered"] /\ Hears(q, "failed")
        /\ UNCHANGED <<job, queue, inflight>>
     \/ /\ serving = "up" /\ inflight < MaxInflight
        /\ inflight' = inflight + 1
        /\ queue' = Append(queue, <<"chat", q>>)
        /\ job' = [job EXCEPT ![q] = "queued"]
        /\ post' = [post EXCEPT ![q] = "waits"] /\ UNCHANGED page
  /\ UNCHANGED <<poll, results, keptOrder, floor, spoken, log, serving, lives, forgotten>>

\* Mutant: keeps every result.
BadKeep(q, what) ==
  /\ keptOrder' = Append(RemoveFirst(keptOrder, q), q)
  /\ results' = [results EXCEPT ![q] = what] /\ forgotten' = forgotten \ {q}

\* _keep_chat_result: the newest at the end, the oldest over the bound go.
Keep(q, what) ==
  LET order == Append(RemoveFirst(keptOrder, q), q) IN
    IF Len(order) <= MaxResults
    THEN /\ keptOrder' = order /\ results' = [results EXCEPT ![q] = what]
         /\ forgotten' = forgotten \ {q}
    ELSE /\ keptOrder' = Tail(order)
         /\ results' = [results EXCEPT ![q] = what, ![Head(order)] = "none"]
         /\ forgotten' = (forgotten \ {q}) \cup {Head(order)}

\* A worker takes the oldest call: a chat begins ...
ChatTaken ==
  /\ queue # <<>> /\ Cardinality(Running) < TextWorkers
  /\ Head(queue)[1] = "chat"
  /\ LET q == Head(queue)[2] IN
       /\ job' = [job EXCEPT ![q] = "begun"]
       /\ Keep(q, "pending")
  /\ queue' = Tail(queue)
  /\ UNCHANGED <<page, post, inflight, poll, floor, spoken, log, serving, lives>>

\* What the page makes of a result.
Shown(q) == CASE results[q] = "none" -> "unknown"
              [] results[q] = "pending" -> "waiting"
              [] results[q] = "ok" -> "answered"
              [] results[q] = "failed" -> "failed"

\* ... a poll looks, and is answered if its route still waits.
PollTaken ==
  /\ queue # <<>> /\ Cardinality(Running) < TextWorkers
  /\ Head(queue)[1] # "chat"
  /\ LET q == Head(queue)[2] IN
       IF Head(queue)[1] = "poll"
       THEN /\ page' = [page EXCEPT ![q] = IF @ = "waiting" THEN Shown(q) ELSE @]
            /\ poll' = [poll EXCEPT ![q] = FALSE]
       ELSE UNCHANGED <<page, poll>>
  /\ queue' = Tail(queue) /\ inflight' = inflight - 1
  /\ UNCHANGED <<post, job, results, keptOrder, floor, spoken, log, serving, lives, forgotten>>

RouteAnswers(q) ==
  /\ post[q] = "waits" /\ job[q] \in {"ok", "failed"}
  /\ post' = [post EXCEPT ![q] = "answered"]
  /\ Hears(q, IF job[q] = "ok" THEN "answered" ELSE "failed")
  /\ UNCHANGED <<serverVars, poll, floor, spoken, log, serving, lives, forgotten>>

\* 202: it runs on, kept by its id.  A cancelled call never counts as done: wait()
\* is told of a cancellation by a worker, and no worker will take this call.
RouteTimesOut(q) ==
  /\ post[q] = "waits" /\ job[q] \in {"queued", "begun", "talking", "cancelled"}
  /\ post' = [post EXCEPT ![q] = "answered"]
  /\ Hears(q, "waiting")
  /\ UNCHANGED <<serverVars, poll, floor, spoken, log, serving, lives, forgotten>>

(***************************************************************************)
(* The turns, on the text lane's workers and on the turn thread.           *)
(***************************************************************************)

\* Mutant: only what succeeded is kept.
BadEnds(q, how) ==
  /\ job' = [job EXCEPT ![q] = how]
  /\ inflight' = inflight - 1
  /\ IF how = "ok" THEN Keep(q, how) ELSE UNCHANGED <<results, keptOrder, forgotten>>

\* _control_chat has its result, kept whether it succeeded, failed or raised -- or its
\* turn had an answer but was unavailable (_chat_outcome); the call is done.
Ends(q, how) ==
  /\ job' = [job EXCEPT ![q] = how]
  /\ inflight' = inflight - 1
  /\ Keep(q, how)

\* Mutant: a typed turn looks at the lock and does not take it.
BadTurnBegins(q) ==
  /\ job[q] = "begun" /\ floor = Free
  /\ job' = [job EXCEPT ![q] = "talking"]
  /\ log' = Append(log, <<"user", q>>)
  /\ UNCHANGED <<floor, page, post, queue, inflight, results, keptOrder, poll, spoken, serving, lives, forgotten>>

TurnBegins(q) ==
  /\ job[q] = "begun" /\ floor = Free
  /\ floor' = q /\ job' = [job EXCEPT ![q] = "talking"]
  /\ log' = Append(log, <<"user", q>>)
  /\ UNCHANGED <<page, post, queue, inflight, results, keptOrder, poll, spoken, serving, lives, forgotten>>

\* Busy: nothing is written.  Or there is no such conversation or persona.
TurnRefused(q) ==
  /\ job[q] = "begun"
  /\ Ends(q, "failed")
  /\ UNCHANGED <<page, post, queue, poll, floor, spoken, log, serving, lives>>

\* The reply is written; or the fixed text that says that the chosen role refused, as the
\* assistant's record of a question that fails; or the turn raised and nothing is.
TurnReplies(q) ==
  /\ job[q] = "talking"
  /\ \/ log' = Append(log, <<"reply", q>>) /\ Ends(q, "ok")
     \/ log' = Append(log, <<"refusal", q>>) /\ Ends(q, "failed")
     \/ UNCHANGED log /\ Ends(q, "failed")
  /\ floor' = Free
  /\ UNCHANGED <<page, post, queue, poll, spoken, serving, lives>>

VoiceBegins ==
  /\ floor = Free /\ spoken < MaxSpoken
  /\ floor' = Voice /\ spoken' = spoken + 1
  /\ log' = Append(log, <<"user", Voice>>)
  /\ UNCHANGED <<page, post, serverVars, poll, serving, lives, forgotten>>

VoiceReplies ==
  /\ floor = Voice
  /\ floor' = Free
  /\ log' = Append(log, <<"reply", Voice>>)
  /\ UNCHANGED <<page, post, serverVars, poll, spoken, serving, lives, forgotten>>

(***************************************************************************)
(* shutdown() cancels what no worker has taken; what runs runs on.  And    *)
(* the process goes, with what it kept, and comes back.                    *)
(***************************************************************************)
Shutdown ==
  /\ serving = "up" /\ lives < MaxLives
  /\ serving' = "closing"
  /\ job' = [q \in Questions |-> IF job[q] = "queued" THEN "cancelled" ELSE job[q]]
  /\ inflight' = inflight - Len(queue) /\ queue' = <<>>
  /\ poll' = [q \in Questions |-> FALSE]
  /\ UNCHANGED <<page, post, results, keptOrder, floor, spoken, log, lives, forgotten>>

Restart ==
  /\ lives < MaxLives
  /\ lives' = lives + 1 /\ serving' = "up"
  /\ post' = [q \in Questions |-> IF post[q] = "waits" THEN "lost" ELSE post[q]]
  /\ page' = [q \in Questions |-> IF post[q] = "waits" /\ page[q] = "sent" THEN "waiting" ELSE page[q]]
  /\ job' = [q \in Questions |-> IF job[q] = "none" THEN "none" ELSE "gone"]
  /\ queue' = <<>> /\ inflight' = 0 /\ poll' = [q \in Questions |-> FALSE]
  /\ results' = [q \in Questions |-> "none"] /\ keptOrder' = <<>>
  /\ forgotten' = forgotten \cup {q \in Questions : job[q] # "none"}
  /\ floor' = Free
  /\ UNCHANGED <<spoken, log>>

ChatNext ==
  \/ \E q \in Questions :
       \/ Ask(q) \/ PageLeft(q) \/ PostLost(q) \/ PollSent(q) \/ PollTimesOut(q)
       \/ PostArrives(q) \/ RouteAnswers(q) \/ RouteTimesOut(q)
       \/ TurnBegins(q) \/ TurnRefused(q) \/ TurnReplies(q)
  \/ ChatTaken \/ PollTaken \/ VoiceBegins \/ VoiceReplies \/ Shutdown \/ Restart

ChatSpec == ChatInit /\ [][ChatNext]_chatVars

\* Requests arrive or are lost, workers take calls, turns and routes end, and a
\* page that waits goes on asking.  A server that was closed is started again.
ChatFairness ==
  /\ \A q \in Questions :
       /\ WF_chatVars(PostLost(q) \/ PostArrives(q) \/ RouteAnswers(q) \/ RouteTimesOut(q))
       /\ WF_chatVars(TurnBegins(q) \/ TurnRefused(q) \/ TurnReplies(q))
       /\ WF_chatVars(PollSent(q))
  /\ WF_chatVars(ChatTaken \/ PollTaken) /\ WF_chatVars(VoiceReplies)
  /\ WF_chatVars(Restart /\ serving = "closing")

(***************************************************************************)
(* Properties.                                                             *)
(***************************************************************************)
ChatTypeOK ==
  /\ page \in [Questions -> {"unasked", "sent", "waiting", "answered", "failed", "unknown"}]
  /\ post \in [Questions -> {"none", "flying", "waits", "answered", "lost"}]
  /\ job \in [Questions -> {"none", "queued", "begun", "talking", "ok", "failed", "cancelled", "gone"}]
  /\ poll \in [Questions -> BOOLEAN]
  /\ results \in [Questions -> {"none", "pending", "ok", "failed"}]
  /\ ToSet(keptOrder) = {q \in Questions : results[q] # "none"} /\ Len(keptOrder) <= MaxResults
  /\ floor \in Questions \cup {Voice, Free} /\ serving \in {"up", "closing"}
  /\ spoken \in 0..MaxSpoken /\ lives \in 0..MaxLives /\ forgotten \subseteq Questions

\* The lane counts what is outstanding, exactly: what is queued, what runs, and
\* what was abandoned by its route -- across refusals, time-outs, cancellation.
LaneExact == inflight = Len(queue) + Cardinality(Running) /\ inflight <= MaxInflight

\* Turns do not interleave: what the assistant wrote in the session follows what it
\* answers, typed or spoken, with nothing of another turn between.  And page and session
\* agree for good: a question the page calls answered has its reply in the conversation,
\* one it calls failed has none, now or later, but the notice of a refusal at most.
RepliesFollow ==
  /\ \A i \in DOMAIN log : log[i][1] # "user" => i > 1 /\ log[i - 1] = <<"user", log[i][2]>>
  /\ \A q \in Questions : /\ page[q] = "failed" => ~Contains(log, <<"reply", q>>)
                          /\ page[q] = "answered" => Contains(log, <<"reply", q>>)

\* Every question comes to something on the page: an answer, a failure, or word
\* that there is none.
QuestionsSettle ==
  \A q \in Questions : page[q] \in {"sent", "waiting"} ~> page[q] \in {"answered", "failed", "unknown"}
=============================================================================

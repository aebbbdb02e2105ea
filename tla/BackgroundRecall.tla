-------------------------- MODULE BackgroundRecall --------------------------
(***************************************************************************)
(* embodiment.daemon.recall_events.BackgroundRecall and Unprompted, with   *)
(* the seams DaemonApp binds to them: a spoken turn replies sentence by    *)
(* sentence while its recall runs on a job of its own; a memory that comes *)
(* late may become one follow-up.  Around it: the turn queue, the floor,   *)
(* superseding and barge-in of daemon/app.py, and of voice.py the flags    *)
(* that stop a sentence and what the endpoint still has to play.           *)
(*                                                                         *)
(* Threads: the turn worker, one recall job per turn, the ear, the closer. *)
(* Grain: one action per critical section, per read of another thread's    *)
(* flag and per call that leaves the process.  Time is left out: a wait    *)
(* may end early, a window may have passed.  What a completion says is     *)
(* left out; only how many sentences are still to be spoken is kept.       *)
(***************************************************************************)
EXTENDS Naturals, FiniteSets

CONSTANTS
  Contradicts,      \* is a contradicts judge injected (TRUE lets it answer)
  QueueSize,        \* turn_queue_size
  MaxTurns,         \* bound: transcripts accepted
  Lengths,          \* bound: how many sentences a completion for each turn may have
  MaxSpeeches       \* bound: speech_started events

ASSUME RecallAssumption ==
  /\ Contradicts \in BOOLEAN
  /\ QueueSize \in Nat \ {0} /\ MaxTurns \in Nat
  /\ MaxSpeeches \in Nat
  /\ \A t \in 1..MaxTurns : Lengths[t] # {} /\ Lengths[t] \subseteq Nat \ {0}

Turns == 1..MaxTurns

\* What a sentence is part of: the reply of a turn, or its follow-up.
Reply(t)    == <<"reply", t>>
FollowUp(t) == <<"follow_up", t>>
Labels      == {Reply(t) : t \in Turns} \cup {FollowUp(t) : t \in Turns}

Landings == {"before_first_sentence", "during_reply", "follow_up", "dropped"}

VARIABLES
  \* the turn worker
  pc, remaining,    \* where it is; sentences of the reply still to speak
  \* each turn
  replying, spoken, \* is the reply running; sentences spoken
  pending,          \* the arrival waiting for the reply loop: none, useful, useless
  classified,       \* was the arrival claimed
  job, found,       \* where the recall job is, and what it found
  late, lateOn,     \* where the late arrival is, and on which thread
  words,            \* sentences of the follow-up still to speak
  uttered,          \* has the follow-up spoken
  \* BackgroundRecall
  latest, inReply,  \* _latest_turn, _replying
  waiting, tally,   \* _pending, _landed
  speakingLock,     \* Unprompted._speaking
  closed,           \* _closed
  \* DaemonApp
  queued, inFlight, serial, superseded, floorTaken, stopping,
  \* Voice
  voicing, interrupted,   \* _speaking, _interrupted
  mouth,            \* for each label, where its voice.speak is
  audible,          \* labels of which the endpoint holds audio
  \* the ear
  ear, speeches, heard,
  \* history
  counted,          \* how often each arrival was counted
  used,             \* was the memory given to the reply
  overrun           \* sentences the superseded turn began since

worker   == <<pc, remaining>>
turns    == <<replying, spoken, pending, classified>>
jobs     == <<job, found>>
lates    == <<late, lateOn, words, uttered>>
recalls  == <<latest, inReply>>
counters == <<waiting, tally, counted>>
app      == <<queued, inFlight, serial, superseded, floorTaken, stopping>>
voice    == <<voicing, interrupted, mouth, audible>>
ears     == <<ear, speeches, heard>>
history  == <<used, overrun>>
vars     == <<worker, turns, jobs, lates, recalls, counters, speakingLock, closed, app, voice,
              ears, history>>

Init ==
  /\ pc = "idle" /\ remaining = 0
  /\ replying = [t \in Turns |-> FALSE] /\ spoken = [t \in Turns |-> 0]
  /\ pending = [t \in Turns |-> "none"] /\ classified = [t \in Turns |-> FALSE]
  /\ job = [t \in Turns |-> "none"] /\ found = [t \in Turns |-> "none"]
  /\ late = [t \in Turns |-> "none"] /\ lateOn = [t \in Turns |-> "job"]
  /\ words = [t \in Turns |-> 0] /\ uttered = [t \in Turns |-> FALSE]
  /\ latest = 0 /\ inReply = 0 /\ waiting = 0 /\ tally = [l \in Landings |-> 0]
  /\ speakingLock = FALSE /\ closed = FALSE
  /\ queued = 0 /\ inFlight = 0 /\ serial = 0 /\ superseded = 0
  /\ floorTaken = FALSE /\ stopping = FALSE
  /\ voicing = FALSE /\ interrupted = FALSE
  /\ mouth = [l \in Labels |-> "quiet"] /\ audible = {}
  /\ ear = "listening" /\ speeches = 0 /\ heard = 0
  /\ counted = [t \in Turns |-> 0] /\ used = [t \in Turns |-> FALSE] /\ overrun = 0

-----------------------------------------------------------------------------
(* The floor.  On the turn's own thread: was this turn superseded?  Off    *)
(* it: does anyone speak, is any turn in flight or waiting, do we stop?    *)

Superseded == superseded = serial
AnyoneElse == floorTaken \/ stopping \/ inFlight > 0 \/ queued > 0
FloorHeld(thread) == IF thread = "turn" THEN Superseded ELSE AnyoneElse

\* _count_locked: an arrival lands in exactly one of the four counters.
Count(t, landing) ==
  /\ tally' = [tally EXCEPT ![landing] = @ + 1]
  /\ waiting' = IF waiting = 0 THEN 0 ELSE waiting - 1
  /\ counted' = [counted EXCEPT ![t] = @ + 1]

-----------------------------------------------------------------------------
(* One sentence through Voice.speak.                                       *)

\* It forgets the interruption of an earlier sentence.
Begin(l) ==
  /\ mouth[l] = "quiet" /\ mouth' = [mouth EXCEPT ![l] = "synth"]
  /\ interrupted' = FALSE /\ voicing' = TRUE
  /\ UNCHANGED audible

\* The audio is there: an interruption since Begin drops it.
Synthesized(l) ==
  /\ mouth[l] = "synth"
  /\ mouth' = [mouth EXCEPT ![l] = IF interrupted THEN "done" ELSE "play"]
  /\ UNCHANGED <<voicing, interrupted, audible>>

Play(l) ==
  /\ mouth[l] = "play" /\ mouth' = [mouth EXCEPT ![l] = "done"]
  /\ audible' = audible \cup {l}
  /\ UNCHANGED <<voicing, interrupted>>

OnTurnThread(l) == l[1] = "reply" \/ lateOn[l[2]] = "turn"

Spoken(l) ==
  /\ mouth[l] = "done" /\ voicing' = FALSE
  /\ mouth' = [mouth EXCEPT ![l] = IF OnTurnThread(l) THEN "check" ELSE "quiet"]
  /\ UNCHANGED <<interrupted, audible>>

\* Mutant: no second look after the sentence was queued.
BadCheck(l) ==
  /\ mouth[l] = "check" /\ mouth' = [mouth EXCEPT ![l] = "quiet"]
  /\ UNCHANGED <<voicing, interrupted, audible>>

\* _voice_speak, back from the voice: a turn superseded meanwhile is stopped.
Check(l) ==
  /\ mouth[l] = "check"
  /\ mouth' = [mouth EXCEPT ![l] = IF Superseded THEN "hush" ELSE "quiet"]
  /\ UNCHANGED <<voicing, interrupted, audible>>

\* on_speech_started: the flag, then the endpoint.
Hush(l) ==
  \/ /\ mouth[l] = "hush" /\ mouth' = [mouth EXCEPT ![l] = "stop"]
     /\ interrupted' = TRUE
     /\ UNCHANGED <<voicing, audible>>
  \/ /\ mouth[l] = "stop" /\ mouth' = [mouth EXCEPT ![l] = "quiet"]
     /\ audible' = {}
     /\ UNCHANGED <<voicing, interrupted>>

Mouth(l) ==
  /\ Synthesized(l) \/ Play(l) \/ Spoken(l) \/ Check(l) \/ Hush(l)
  /\ UNCHANGED <<worker, turns, jobs, lates, recalls, counters, speakingLock, closed, app, ears,
                 history>>

PlayedOut(l) ==
  /\ l \in audible /\ audible' = audible \ {l}
  /\ UNCHANGED <<worker, turns, jobs, lates, recalls, counters, speakingLock, closed, app,
                 voicing, interrupted, mouth, ears, history>>

-----------------------------------------------------------------------------
(* The turn worker.                                                        *)

\* _turn_worker looks at the stop flag, then waits on the queue.  That it looks
\* again whenever a wait ends with nothing changes nothing here: once stopping,
\* nothing is queued any more.
Dequeue ==
  /\ \/ pc = "idle" /\ ~stopping /\ pc' = "get" /\ UNCHANGED queued
     \/ pc = "get" /\ queued > 0 /\ pc' = "heard" /\ queued' = queued - 1
  /\ UNCHANGED <<remaining, turns, jobs, lates, recalls, counters, speakingLock, closed,
                 inFlight, serial, superseded, floorTaken, stopping, voice, ears, history>>

\* _run_heard: from here on the turn can be superseded.
Accept ==
  /\ pc = "heard" /\ pc' = "accepted"
  /\ inFlight' = inFlight + 1 /\ serial' = serial + 1 /\ overrun' = 0
  /\ UNCHANGED <<remaining, turns, jobs, lates, recalls, counters, speakingLock, closed, queued,
                 superseded, floorTaken, stopping, voice, ears, used>>

\* BackgroundRecall.run_turn, which after close() answers nothing; a job that
\* cannot be started (_start_recall) is a recall that failed.
RunTurn ==
  /\ pc = "accepted"
  /\ \/ /\ closed /\ pc' = "ended"
        /\ UNCHANGED <<replying, classified, job, recalls, counters>>
     \/ /\ ~closed /\ pc' = "headStart"
        /\ replying' = [replying EXCEPT ![serial] = TRUE]
        /\ latest' = serial /\ inReply' = inReply + 1
        /\ \/ /\ job' = [job EXCEPT ![serial] = "recalling"] /\ waiting' = waiting + 1
              /\ UNCHANGED <<classified, tally, counted>>
           \/ /\ job' = [job EXCEPT ![serial] = "done"]
              /\ classified' = [classified EXCEPT ![serial] = TRUE]
              /\ tally' = [tally EXCEPT !["dropped"] = @ + 1]
              /\ counted' = [counted EXCEPT ![serial] = @ + 1]
              /\ UNCHANGED waiting
  /\ UNCHANGED <<remaining, spoken, pending, found, lates, speakingLock, closed, app, voice, ears,
                 history>>

\* The first completion, with or without a memory; an unusable one is
\* replaced by the fallback sentence.
Complete == pc' = "floor" /\ remaining' \in Lengths[serial]

\* _wait_head_start: the wait is over, by an arrival or by time.  With the
\* floor taken the arrival is left to the reply loop.
HeadStart ==
  /\ pc = "headStart"
  /\ IF classified[serial] \/ Superseded THEN Complete
                                         ELSE pc' = "headTake" /\ UNCHANGED remaining
  /\ UNCHANGED <<turns, jobs, lates, recalls, counters, speakingLock, closed, app, voice, ears,
                 history>>

\* Mutant: looks at the arrival without claiming it.
BadTake ==
  LET t == serial IN
  /\ pending[t] = "useful"
  /\ Count(t, IF spoken[t] > 0 THEN "during_reply" ELSE "before_first_sentence")
  /\ used' = [used EXCEPT ![t] = TRUE]
  /\ UNCHANGED <<pending, classified>>

\* _take: the reply loop claims the arrival of its turn, if there is one.
Take ==
  LET t == serial IN
  /\ pending[t] # "none" /\ ~classified[t]
  /\ pending' = [pending EXCEPT ![t] = "none"]
  /\ classified' = [classified EXCEPT ![t] = TRUE]
  /\ IF pending[t] = "useless"
     THEN Count(t, "dropped") /\ UNCHANGED used
     ELSE /\ Count(t, IF spoken[t] > 0 THEN "during_reply" ELSE "before_first_sentence")
          /\ used' = [used EXCEPT ![t] = TRUE]

TakeNothing ==
  /\ pending[serial] = "none" \/ classified[serial]
  /\ UNCHANGED <<pending, classified, counters, used>>

HeadTake ==
  /\ pc = "headTake" /\ Complete
  /\ Take \/ TakeNothing
  /\ UNCHANGED <<replying, spoken, jobs, lates, recalls, speakingLock, closed, app, voice, ears,
                 overrun>>

\* Mutant: the floor is looked at only before the first sentence.
BadFloor ==
  /\ pc = "floor"
  /\ pc' = IF Superseded /\ spoken[serial] = 0 THEN "finish" ELSE "take"
  /\ UNCHANGED <<remaining, turns, jobs, lates, recalls, counters, speakingLock, closed, app,
                 voice, ears, history>>

\* Each sentence: is the floor free, did a memory land?
Floor ==
  /\ pc = "floor"
  /\ pc' = IF Superseded THEN "finish" ELSE "take"
  /\ UNCHANGED <<remaining, turns, jobs, lates, recalls, counters, speakingLock, closed, app,
                 voice, ears, history>>

TakeUp ==
  /\ pc = "take"
  /\ \/ Take /\ pc' = IF pending[serial] = "useful" THEN "use" ELSE "say"
     \/ TakeNothing /\ pc' = "say"
  /\ UNCHANGED <<remaining, replying, spoken, jobs, lates, recalls, speakingLock, closed, app,
                 voice, ears, overrun>>

Loop(n) == remaining' = n /\ pc' = IF n = 0 THEN "finish" ELSE "floor"

\* Mutant: a remainder that could not be completed is an empty one.
BadUse ==
  /\ pc = "use" /\ \E n \in {0} \cup Lengths[serial] : Loop(n)
  /\ UNCHANGED <<turns, jobs, lates, recalls, counters, speakingLock, closed, app, voice, ears,
                 history>>

\* _use: a second completion replaces what is unspoken, or fails and leaves
\* it; or the memory contradicts what was spoken, and the reply restarts
\* unless the floor was taken while the judge thought.
Use ==
  /\ pc = "use"
  /\ \/ \E n \in {remaining} \cup Lengths[serial] : Loop(n)
     \/ Contradicts /\ spoken[serial] > 0 /\ Superseded /\ Loop(0)
     \/ Contradicts /\ spoken[serial] > 0 /\ ~Superseded /\ pc' = "restart" /\ UNCHANGED remaining
  /\ UNCHANGED <<turns, jobs, lates, recalls, counters, speakingLock, closed, app, voice, ears,
                 history>>

\* _restart: stop_playback is the barge-in path; a restart that could not be
\* completed says nothing more.
Restart ==
  /\ \/ pc = "restart" /\ pc' = "restartStop" /\ interrupted' = TRUE
        /\ UNCHANGED <<audible, remaining>>
     \/ pc = "restartStop" /\ pc' = "restarted" /\ audible' = {}
        /\ UNCHANGED <<interrupted, remaining>>
     \/ /\ pc = "restarted" /\ \E n \in {0} \cup Lengths[serial] : Loop(n)
        /\ UNCHANGED <<interrupted, audible>>
  /\ UNCHANGED <<turns, jobs, lates, recalls, counters, speakingLock, closed, app, voicing,
                 mouth, ears, history>>

Say ==
  /\ pc = "say" /\ pc' = "saying" /\ Begin(Reply(serial))
  /\ remaining' = remaining - 1
  /\ overrun' = IF Superseded THEN overrun + 1 ELSE overrun
  /\ UNCHANGED <<turns, jobs, lates, recalls, counters, speakingLock, closed, app, ears, used>>

Said ==
  /\ pc = "saying" /\ mouth[Reply(serial)] = "quiet" /\ Loop(remaining)
  /\ spoken' = [spoken EXCEPT ![serial] = @ + 1]
  /\ UNCHANGED <<replying, pending, classified, jobs, lates, recalls, counters, speakingLock,
                 closed, app, voice, ears, history>>

\* _finish: an arrival the reply loop did not take goes the late path, on
\* this thread.
Finish ==
  LET t == serial IN
  /\ pc = "finish" /\ remaining' = 0
  /\ replying' = [replying EXCEPT ![t] = FALSE] /\ inReply' = inReply - 1
  /\ pending' = [pending EXCEPT ![t] = "none"]
  /\ IF pending[t] # "none" /\ ~classified[t]
     THEN /\ pc' = "late" /\ late' = [late EXCEPT ![t] = "claim"]
          /\ lateOn' = [lateOn EXCEPT ![t] = "turn"] /\ found' = [found EXCEPT ![t] = pending[t]]
     ELSE pc' = "ended" /\ UNCHANGED <<late, lateOn, found>>
  /\ UNCHANGED <<spoken, classified, job, words, uttered, latest, counters,
                 speakingLock, closed, app, voice, ears, history>>

EndTurn ==
  /\ pc = "ended" /\ pc' = "idle" /\ inFlight' = inFlight - 1
  /\ UNCHANGED <<remaining, turns, jobs, lates, recalls, counters, speakingLock, closed, queued,
                 serial, superseded, floorTaken, stopping, voice, ears, history>>

Worker ==
  \/ Dequeue \/ Accept \/ RunTurn \/ HeadStart \/ HeadTake \/ Floor \/ TakeUp \/ Use \/ Restart
  \/ Say \/ Said \/ Finish \/ EndTurn

-----------------------------------------------------------------------------
(* The recall job of turn t.                                               *)

\* Mutant: the reply's end is not looked at under the lock.
BadLands(t) ==
  /\ job[t] = "recalling"
  /\ \E f \in {"useful", "useless"} : pending' = [pending EXCEPT ![t] = f]
  /\ job' = [job EXCEPT ![t] = "done"]
  /\ UNCHANGED <<worker, replying, spoken, classified, found, lates, recalls,
                 counters, speakingLock, closed, app, voice, ears, history>>

\* It comes back, with a memory or without.  A reply that still runs gets the
\* arrival; otherwise it is late.
Lands(t) ==
  /\ job[t] = "recalling"
  /\ \E f \in {"useful", "useless"} :
       IF replying[t] /\ ~closed
       THEN /\ pending' = [pending EXCEPT ![t] = f] /\ job' = [job EXCEPT ![t] = "done"]
            /\ UNCHANGED <<late, found>>
       ELSE /\ job' = [job EXCEPT ![t] = "late"] /\ late' = [late EXCEPT ![t] = "claim"]
            /\ found' = [found EXCEPT ![t] = f]
            /\ UNCHANGED pending
  /\ UNCHANGED <<worker, replying, spoken, classified, lateOn, words, uttered, recalls,
                 counters, speakingLock, closed, app, voice, ears, history>>

-----------------------------------------------------------------------------
(* The late path, on the thread lateOn[t]: claim the arrival, then offer   *)
(* it as unprompted speech: gates, completion, floor again, sentences.     *)

GoLate(t, step) ==
  /\ late' = [late EXCEPT ![t] = step]
  /\ UNCHANGED <<lateOn, words, uttered>>

Still == UNCHANGED <<worker, jobs, recalls, closed, app, ears, used, overrun>>

\* Below the threshold or outside the window, an arrival is dropped whatever
\* else holds.
ClaimSteps(t) ==
  IF classified[t] THEN {"over"}
  ELSE {"drop"} \cup IF ~closed /\ found[t] = "useful" THEN {"relevant"} ELSE {}

LateClaim(t) ==
  /\ late[t] = "claim"
  /\ classified' = [classified EXCEPT ![t] = TRUE]
  /\ \E step \in ClaimSteps(t) : GoLate(t, step)
  /\ UNCHANGED <<replying, spoken, pending, counters, speakingLock, voice>> /\ Still

\* Only the newest turn may follow up.
Relevant(t) ==
  /\ late[t] = "relevant"
  /\ GoLate(t, IF latest = t THEN "gateFloor" ELSE "drop")
  /\ UNCHANGED <<turns, counters, speakingLock, voice>> /\ Still

GateFloor(t) ==
  /\ late[t] = "gateFloor"
  /\ GoLate(t, IF FloorHeld(lateOn[t]) THEN "drop" ELSE "gateBusy")
  /\ UNCHANGED <<turns, counters, speakingLock, voice>> /\ Still

GateBusy(t) ==
  /\ late[t] = "gateBusy"
  /\ GoLate(t, IF inReply > 0 THEN "drop" ELSE "compose")
  /\ UNCHANGED <<turns, counters, speakingLock, voice>> /\ Still

\* The completion of the follow-up may fail, or say nothing.
Compose(t) ==
  /\ late[t] = "compose"
  /\ \/ GoLate(t, "drop")
     \/ /\ late' = [late EXCEPT ![t] = "floorAgain"]
        /\ \E n \in Lengths[t] : words' = [words EXCEPT ![t] = n]
        /\ UNCHANGED <<lateOn, uttered>>
  /\ UNCHANGED <<turns, counters, speakingLock, voice>> /\ Still

FloorAgain(t) ==
  /\ late[t] = "floorAgain"
  /\ GoLate(t, IF FloorHeld(lateOn[t]) THEN "drop" ELSE "acquire")
  /\ UNCHANGED <<turns, counters, speakingLock, voice>> /\ Still

Acquire(t) ==
  /\ late[t] = "acquire"
  /\ IF speakingLock THEN GoLate(t, "drop") /\ UNCHANGED speakingLock
     ELSE GoLate(t, "sayFloor") /\ speakingLock' = TRUE
  /\ UNCHANGED <<turns, counters, voice>> /\ Still

SayFloor(t) ==
  /\ late[t] = "sayFloor"
  /\ GoLate(t, IF words[t] = 0 \/ FloorHeld(lateOn[t]) THEN "release" ELSE "say")
  /\ UNCHANGED <<turns, counters, speakingLock, voice>> /\ Still

SayFollowUp(t) ==
  /\ late[t] = "say" /\ Begin(FollowUp(t))
  /\ late' = [late EXCEPT ![t] = "saying"] /\ words' = [words EXCEPT ![t] = @ - 1]
  /\ UNCHANGED <<lateOn, uttered>>
  /\ UNCHANGED <<turns, counters, speakingLock>> /\ Still

SaidFollowUp(t) ==
  /\ late[t] = "saying" /\ mouth[FollowUp(t)] = "quiet"
  /\ late' = [late EXCEPT ![t] = "sayFloor"] /\ uttered' = [uttered EXCEPT ![t] = TRUE]
  /\ UNCHANGED <<lateOn, words>>
  /\ UNCHANGED <<turns, counters, speakingLock, voice>> /\ Still

Release(t) ==
  /\ late[t] = "release" /\ speakingLock' = FALSE
  /\ GoLate(t, IF uttered[t] THEN "land" ELSE "drop")
  /\ UNCHANGED <<turns, counters, voice>> /\ Still

\* Then the thread leaves the late path.
LateCount(t) ==
  /\ late[t] \in {"drop", "land"} /\ late' = [late EXCEPT ![t] = "over"]
  /\ words' = [words EXCEPT ![t] = 0]
  /\ Count(t, IF late[t] = "drop" THEN "dropped" ELSE "follow_up")
  /\ IF lateOn[t] = "turn" THEN pc' = "ended" /\ UNCHANGED job
                           ELSE job' = [job EXCEPT ![t] = "done"] /\ UNCHANGED pc
  /\ UNCHANGED <<remaining, turns, found, lateOn, uttered, recalls, speakingLock, closed, app,
                 voice, ears, history>>

Late(t) ==
  \/ LateClaim(t) \/ Relevant(t) \/ GateFloor(t) \/ GateBusy(t) \/ Compose(t)
  \/ FloorAgain(t) \/ Acquire(t) \/ SayFloor(t) \/ SayFollowUp(t) \/ SaidFollowUp(t) \/ Release(t)
  \/ LateCount(t)

-----------------------------------------------------------------------------
(* The ear: one event at a time, each with all it does.                    *)

SpeechStarted ==
  /\ ear = "listening" /\ speeches < MaxSpeeches
  /\ speeches' = speeches + 1 /\ floorTaken' = TRUE /\ ear' = "supersede"
  /\ UNCHANGED <<worker, turns, jobs, lates, recalls, counters, speakingLock, closed, queued,
                 inFlight, serial, superseded, stopping, voice, heard, history>>

Supersede ==
  /\ ear = "supersede" /\ ear' = "probe"
  /\ superseded' = IF inFlight > 0 THEN serial ELSE superseded
  /\ UNCHANGED <<worker, turns, jobs, lates, recalls, counters, speakingLock, closed, queued,
                 inFlight, serial, floorTaken, stopping, voice, speeches, heard, history>>

\* _barge_in: does the voice speak, does the endpoint play?  If either, the
\* flag, then the endpoint.
BargeIn ==
  /\ \/ /\ ear = "probe" /\ ear' = IF voicing THEN "hush" ELSE "probePlaying"
        /\ UNCHANGED <<interrupted, audible>>
     \/ /\ ear = "probePlaying" /\ ear' = IF audible # {} THEN "hush" ELSE "listening"
        /\ UNCHANGED <<interrupted, audible>>
     \/ ear = "hush" /\ ear' = "stop" /\ interrupted' = TRUE /\ UNCHANGED audible
     \/ ear = "stop" /\ ear' = "listening" /\ audible' = {} /\ UNCHANGED interrupted
  /\ UNCHANGED <<worker, turns, jobs, lates, recalls, counters, speakingLock, closed, app,
                 voicing, mouth, speeches, heard, history>>

SpeechStopped ==
  /\ ear = "listening" /\ floorTaken /\ floorTaken' = FALSE
  /\ UNCHANGED <<worker, turns, jobs, lates, recalls, counters, speakingLock, closed, queued,
                 inFlight, serial, superseded, stopping, voice, ears, history>>

\* A transcript frees the floor and is queued, unless we stop or the queue
\* is full.
Transcript ==
  /\ ear = "listening" /\ heard < MaxTurns
  /\ heard' = heard + 1 /\ floorTaken' = FALSE
  /\ queued' = IF stopping \/ queued = QueueSize THEN queued ELSE queued + 1
  /\ UNCHANGED <<worker, turns, jobs, lates, recalls, counters, speakingLock, closed,
                 inFlight, serial, superseded, stopping, voice, ear, speeches, history>>

Ear == SpeechStarted \/ Supersede \/ BargeIn \/ SpeechStopped \/ Transcript

\* DaemonApp.close says it is stopping, and later closes the recalls.
Close ==
  \/ /\ ~stopping /\ stopping' = TRUE
     /\ UNCHANGED <<worker, turns, jobs, lates, recalls, counters, speakingLock, closed, queued,
                    inFlight, serial, superseded, floorTaken, voice, ears, history>>
  \/ /\ stopping /\ ~closed /\ closed' = TRUE
     /\ UNCHANGED <<worker, turns, jobs, lates, recalls, counters, speakingLock, app, voice,
                    ears, history>>

-----------------------------------------------------------------------------
Next ==
  \/ Worker
  \/ \E t \in Turns : Lands(t) \/ Late(t)
  \/ \E l \in Labels : Mouth(l) \/ PlayedOut(l)
  \/ Ear \/ Close

Spec == Init /\ [][Next]_vars

-----------------------------------------------------------------------------
(* Properties.                                                             *)

Places == {"idle", "get", "heard", "accepted", "headStart", "headTake", "floor",
           "take", "use", "restart", "restartStop", "restarted", "say", "saying", "finish",
           "late", "ended"}
LatePlaces == {"none", "claim", "relevant", "gateFloor", "gateBusy", "compose", "floorAgain",
               "acquire", "sayFloor", "say", "saying", "release", "drop", "land", "over"}
MouthPlaces == {"quiet", "synth", "play", "done", "check", "hush", "stop"}

TypeOK ==
  /\ pc \in Places /\ remaining \in Nat
  /\ replying \in [Turns -> BOOLEAN] /\ spoken \in [Turns -> Nat]
  /\ pending \in [Turns -> {"none", "useful", "useless"}] /\ classified \in [Turns -> BOOLEAN]
  /\ job \in [Turns -> {"none", "recalling", "late", "done"}]
  /\ found \in [Turns -> {"none", "useful", "useless"}]
  /\ late \in [Turns -> LatePlaces] /\ lateOn \in [Turns -> {"turn", "job"}]
  /\ words \in [Turns -> Nat] /\ uttered \in [Turns -> BOOLEAN]
  /\ latest \in 0..serial /\ inReply \in 0..1 /\ inFlight \in 0..1 /\ serial \in 0..heard
  /\ waiting \in 0..MaxTurns /\ tally \in [Landings -> 0..MaxTurns]
  /\ queued \in 0..QueueSize /\ superseded \in 0..serial
  /\ mouth \in [Labels -> MouthPlaces] /\ audible \subseteq Labels
  /\ ear \in {"listening", "supersede", "probe", "probePlaying", "hush", "stop"}
  /\ speeches \in 0..MaxSpeeches /\ heard \in 0..MaxTurns
  /\ counted \in [Turns -> Nat] /\ used \in [Turns -> BOOLEAN] /\ overrun \in Nat
  /\ speakingLock \in BOOLEAN /\ closed \in BOOLEAN /\ floorTaken \in BOOLEAN
  /\ stopping \in BOOLEAN /\ voicing \in BOOLEAN /\ interrupted \in BOOLEAN

\* Every recall that comes back, fails or cannot be started is counted once,
\* whichever thread ends up with it: twice never, and not never either once its
\* job, its reply and its late path are over.  _pending is the number still out.
RecallsCounted ==
  /\ \A t \in Turns : counted[t] <= 1
  /\ waiting = Cardinality({t \in Turns : job[t] # "none" /\ counted[t] = 0})
  /\ \A t \in Turns : job[t] = "done" /\ ~replying[t] /\ late[t] \in {"none", "over"}
                        => counted[t] = 1
  /\ tally["before_first_sentence"] + tally["during_reply"] + tally["follow_up"]
       + tally["dropped"] = Cardinality({t \in Turns : counted[t] = 1})

\* A memory is spoken of once: in the reply that took it up, or, once that
\* reply is over, in a follow-up.
MemorySpokenOnce ==
  \A t \in Turns : mouth[FollowUp(t)] # "quiet" \/ uttered[t] => ~used[t] /\ ~replying[t]

\* Nothing of a superseded turn stays in the speaker: either it was stopped,
\* or the thread that will stop it is at it.
Stopping(l) == mouth[l] \in {"play", "done", "check", "hush", "stop"}
Barging     == ear \in {"probe", "probePlaying", "hush", "stop"}
SupersededSilenced ==
  superseded # 0 /\ Reply(superseded) \in audible => Stopping(Reply(superseded)) \/ Barging

\* Once superseded, a turn starts at most the sentence it was about to.
SupersededStops == overrun <= 1

\* A turn that was neither superseded nor refused by close() spoke.
NeverSilent == pc = "finish" /\ spoken[serial] = 0 => Superseded
=============================================================================

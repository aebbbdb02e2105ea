----------------------------- MODULE RecallProofs -----------------------------
(***************************************************************************)
(* Theorems about BackgroundRecall, for any number of turns, speeches and  *)
(* sentences: types, every recall counted once, every memory spoken once;  *)
(* a superseded turn stops and is silenced, and no other turn ends without *)
(* a word.                                                                 *)
(***************************************************************************)
EXTENDS BackgroundRecall, FiniteSetTheorems, TLAPS

(***************************************************************************)
(* Counting.                                                               *)
(***************************************************************************)
\* TypeOK with weaker bounds for what is counted.
Types ==
  /\ pc \in Places /\ remaining \in Nat
  /\ replying \in [Turns -> BOOLEAN] /\ spoken \in [Turns -> Nat]
  /\ pending \in [Turns -> {"none", "useful", "useless"}] /\ classified \in [Turns -> BOOLEAN]
  /\ job \in [Turns -> {"none", "recalling", "late", "done"}]
  /\ found \in [Turns -> {"none", "useful", "useless"}]
  /\ late \in [Turns -> LatePlaces] /\ lateOn \in [Turns -> {"turn", "job"}]
  /\ words \in [Turns -> Nat] /\ uttered \in [Turns -> BOOLEAN]
  /\ serial \in Nat /\ latest \in 0..serial
  /\ waiting \in Nat /\ tally \in [Landings -> Nat]
  /\ queued \in 0..QueueSize /\ superseded \in 0..serial
  /\ mouth \in [Labels -> MouthPlaces] /\ audible \subseteq Labels
  /\ ear \in {"listening", "supersede", "probe", "probePlaying", "hush", "stop"}
  /\ speeches \in 0..MaxSpeeches /\ heard \in 0..MaxTurns
  /\ counted \in [Turns -> Nat] /\ used \in [Turns -> BOOLEAN] /\ overrun \in Nat
  /\ speakingLock \in BOOLEAN /\ closed \in BOOLEAN /\ floorTaken \in BOOLEAN
  /\ stopping \in BOOLEAN /\ voicing \in BOOLEAN /\ interrupted \in BOOLEAN

\* Where the worker is inside a reply, and where it has no turn in hand.
ReplyPlaces == {"headStart", "headTake", "floor", "take", "use", "restart", "restartStop",
                "restarted", "say", "saying", "finish"}
Waiting     == {"idle", "get", "heard"}

\* The turn worker runs one turn at a time, the last one it accepted.
WorkerInv ==
  /\ serial + queued + (IF pc = "heard" THEN 1 ELSE 0) <= heard
  /\ pc \notin Waiting => serial # 0
  /\ inFlight = IF pc \in Waiting THEN 0 ELSE 1
  /\ inReply = IF pc \in ReplyPlaces THEN 1 ELSE 0
  /\ pc \in {"floor", "take", "use", "say"} => remaining # 0

\* Where the arrival of turn t is, and that nobody else has it.
Arrival(t) ==
  /\ replying[t] <=> t = serial /\ pc \in ReplyPlaces
  /\ (t > serial \/ (t = serial /\ pc = "accepted")) => job[t] = "none"
  /\ job[t] \in {"none", "recalling"} =>
       pending[t] = "none" /\ late[t] = "none" /\ counted[t] = 0 /\ ~used[t] /\ ~classified[t]
  /\ pending[t] # "none" => replying[t] /\ ~classified[t] /\ job[t] = "done" /\ late[t] = "none"
  /\ late[t] \in {"none", "claim"} => counted[t] = (IF classified[t] THEN 1 ELSE 0)
  /\ late[t] = "claim" => ~classified[t]
  /\ late[t] \notin {"none", "claim"} =>
       classified[t] /\ counted[t] = (IF late[t] = "over" THEN 1 ELSE 0)
  /\ late[t] # "none" => ~used[t]
  /\ late[t] # "none" /\ replying[t] => closed /\ late[t] \in {"claim", "drop", "over"}
  /\ used[t] => classified[t]
  /\ job[t] = "done" /\ late[t] = "none" => pending[t] # "none" \/ classified[t]

\* On which thread its late path runs.
LateInv(t) ==
  /\ late[t] = "none" => lateOn[t] = "job"
  /\ job[t] = "late" => lateOn[t] = "job" /\ late[t] \notin {"none", "over"}
  /\ lateOn[t] = "job" /\ late[t] \notin {"none", "over"} => job[t] = "late"
  /\ lateOn[t] = "turn" /\ late[t] \notin {"none", "over"} => t = serial /\ pc = "late"
  /\ lateOn[t] = "turn" => job[t] = "done"
  /\ late[t] = "say" => words[t] # 0
  /\ mouth[FollowUp(t)] # "quiet" => late[t] = "saying"
  /\ uttered[t] => late[t] \notin {"none", "claim"} /\ ~replying[t]

\* The arrivals still out, and those counted.
Out     == {t \in Turns : job[t] # "none" /\ counted[t] = 0}
Counted == {t \in Turns : counted[t] = 1}
Tallies == tally["before_first_sentence"] + tally["during_reply"] + tally["follow_up"]
             + tally["dropped"]

\* _pending counts the arrivals still out, the four landings those counted.
CountInv == waiting = Cardinality(Out) /\ Tallies = Cardinality(Counted)

\* The inductive invariant.
IInv == Types /\ WorkerInv /\ (\A t \in Turns : Arrival(t) /\ LateInv(t)) /\ CountInv
-----------------------------------------------------------------------------
\* The turn in hand is one of the turns.
LEMMA SerialTurn ==
  ASSUME Types, WorkerInv, pc \notin Waiting
  PROVE  serial \in Turns
BY RecallAssumption DEF Types, WorkerInv, Turns

\* A completion that is used has sentences.
LEMMA SomeWords == ASSUME NEW t \in Turns PROVE Lengths[t] \subseteq Nat \ {0}
BY RecallAssumption DEF Turns

-----------------------------------------------------------------------------
(* What the steps of the ear, of the voice and of the late path leave alone. *)

\* The ear and close() touch no turn, no job, no count: at most a transcript is queued.
LEMMA EarFrame ==
  ASSUME Ear \/ Close
  PROVE  /\ UNCHANGED <<worker, turns, jobs, lates, recalls, counters, inFlight, serial, mouth,
                        history>>
         /\ closed => closed'
         /\ \/ UNCHANGED <<heard, queued>>
            \/ heard' = heard + 1 /\ queued' \in {queued, queued + 1}
<1>. USE DEF ears, app
<1>1. CASE SpeechStarted  BY <1>1 DEF SpeechStarted, voice
<1>2. CASE Supersede      BY <1>2 DEF Supersede, voice
<1>3. CASE BargeIn        BY <1>3 DEF BargeIn, app
<1>4. CASE SpeechStopped  BY <1>4 DEF SpeechStopped, voice
<1>5. CASE Transcript     BY <1>5 DEF Transcript, voice
<1>6. CASE Close          BY <1>6 DEF Close, app, voice
<1>. QED  BY <1>1, <1>2, <1>3, <1>4, <1>5, <1>6 DEF Ear

\* The voice changes only what it keeps itself.
LEMMA VoiceFrame ==
  ASSUME NEW l \in Labels, Mouth(l) \/ PlayedOut(l)
  PROVE  UNCHANGED <<worker, turns, jobs, lates, recalls, counters, speakingLock, closed, app, ears,
                     history>>
BY DEF Mouth, PlayedOut

\* The late path, until it counts, leaves the worker, the jobs and the counts alone.
LEMMA LateFrame ==
  ASSUME NEW t \in Turns, Late(t), ~LateCount(t)
  PROVE  UNCHANGED <<worker, replying, spoken, pending, jobs, lateOn, recalls, counters, closed,
                     app, ears, history>>
<1>. USE DEF GoLate, Still, turns, history
<1>1. CASE LateClaim(t)     BY <1>1 DEF LateClaim
<1>2. CASE Relevant(t)      BY <1>2 DEF Relevant
<1>3. CASE GateFloor(t)     BY <1>3 DEF GateFloor
<1>4. CASE GateBusy(t)      BY <1>4 DEF GateBusy
<1>5. CASE Compose(t)       BY <1>5 DEF Compose
<1>6. CASE FloorAgain(t)    BY <1>6 DEF FloorAgain
<1>7. CASE Acquire(t)       BY <1>7 DEF Acquire
<1>8. CASE SayFloor(t)      BY <1>8 DEF SayFloor
<1>9. CASE SayFollowUp(t)   BY <1>9 DEF SayFollowUp
<1>10. CASE SaidFollowUp(t)  BY <1>10 DEF SaidFollowUp
<1>11. CASE Release(t)       BY <1>11 DEF Release
<1>. QED  BY <1>1, <1>2, <1>3, <1>4, <1>5, <1>6, <1>7, <1>8, <1>9, <1>10, <1>11 DEF Late

-----------------------------------------------------------------------------
(* Types. *)

\* Counting an arrival keeps the counters numbers.
LEMMA CountTypes ==
  ASSUME Types, NEW t \in Turns, NEW l \in Landings, Count(t, l)
  PROVE  waiting' \in Nat /\ tally' \in [Landings -> Nat] /\ counted' \in [Turns -> Nat]
<1>1. waiting' \in Nat
  BY DEF Types, Count
<1>2. tally' \in [Landings -> Nat]
  BY DEF Types, Count
<1>3. counted' \in [Turns -> Nat]
  BY DEF Types, Count
<1>. QED  BY <1>1, <1>2, <1>3

\* What _take writes is well typed.
LEMMA TakeTypes ==
  ASSUME Types, serial \in Turns, Take
  PROVE  /\ pending' \in [Turns -> {"none", "useful", "useless"}]
         /\ classified' \in [Turns -> BOOLEAN] /\ used' \in [Turns -> BOOLEAN]
         /\ waiting' \in Nat /\ tally' \in [Landings -> Nat] /\ counted' \in [Turns -> Nat]
<1>1. PICK l \in Landings : Count(serial, l)
  BY DEF Take, Landings
<1>2. waiting' \in Nat /\ tally' \in [Landings -> Nat] /\ counted' \in [Turns -> Nat]
  BY <1>1, CountTypes
<1>3. pending' \in [Turns -> {"none", "useful", "useless"}]
  BY DEF Types, Take
<1>4. classified' \in [Turns -> BOOLEAN] /\ used' \in [Turns -> BOOLEAN]
  BY DEF Types, Take
<1>. QED  BY <1>2, <1>3, <1>4

\* What the first step of Voice.speak writes is well typed.
LEMMA BeginTypes ==
  ASSUME Types, NEW l \in Labels, Begin(l)
  PROVE  mouth' \in [Labels -> MouthPlaces] /\ voicing' \in BOOLEAN /\ interrupted' \in BOOLEAN
BY DEF Types, Begin, MouthPlaces

\* What run_turn writes is well typed.
LEMMA RunTurnTypes ==
  ASSUME Types, WorkerInv, RunTurn
  PROVE  Types'
<1>1. serial \in Turns  BY SerialTurn DEF RunTurn, Waiting
<1>2. pc' \in Places /\ latest' \in 0..serial' /\ serial' = serial
  BY DEF Types, RunTurn, Places, app, recalls
<1>3. replying' \in [Turns -> BOOLEAN] /\ classified' \in [Turns -> BOOLEAN]
  BY <1>1 DEF Types, RunTurn
<1>4. job' \in [Turns -> {"none", "recalling", "late", "done"}]
  BY <1>1 DEF Types, RunTurn
<1>5. waiting' \in Nat /\ counted' \in [Turns -> Nat]
  BY <1>1 DEF Types, RunTurn, counters
<1>6. tally' \in [Landings -> Nat]
  BY DEF Types, RunTurn, counters, Landings
<1>. QED
  BY <1>2, <1>3, <1>4, <1>5, <1>6 DEF Types, RunTurn, lates, app, voice, ears, history

\* What the head start writes is well typed.
LEMMA HeadStartTypes ==
  ASSUME Types, WorkerInv, HeadStart
  PROVE  Types'
<1>1. serial \in Turns  BY SerialTurn DEF HeadStart, Waiting
<1>2. pc' \in Places /\ remaining' \in Nat
  BY <1>1, SomeWords DEF Types, HeadStart, Complete, Places
<1>. QED
  BY <1>2 DEF Types, HeadStart, turns, jobs, lates, recalls, counters, app, voice, ears, history

\* What the end of the head start writes is well typed.
LEMMA HeadTakeTypes ==
  ASSUME Types, WorkerInv, HeadTake
  PROVE  Types'
<1>1. serial \in Turns  BY SerialTurn DEF HeadTake, Waiting
<1>2. pc' \in Places /\ remaining' \in Nat
  BY <1>1, SomeWords DEF HeadTake, Complete, Places
<1>3. CASE Take
  BY <1>1, <1>2, <1>3, TakeTypes
     DEF Types, HeadTake, jobs, lates, recalls, app, voice, ears
<1>4. CASE TakeNothing
  BY <1>2, <1>4
     DEF Types, HeadTake, TakeNothing, jobs, lates, recalls, counters, app, voice, ears
<1>. QED  BY <1>3, <1>4 DEF HeadTake

\* What taking up a memory writes is well typed.
LEMMA TakeUpTypes ==
  ASSUME Types, WorkerInv, TakeUp
  PROVE  Types'
<1>1. serial \in Turns  BY SerialTurn DEF TakeUp, Waiting
<1>2. pc' \in Places
  BY DEF TakeUp, Places
<1>3. CASE Take
  BY <1>1, <1>2, <1>3, TakeTypes
     DEF Types, TakeUp, jobs, lates, recalls, app, voice, ears
<1>4. CASE TakeNothing
  BY <1>2, <1>4
     DEF Types, TakeUp, TakeNothing, jobs, lates, recalls, counters, app, voice, ears
<1>. QED  BY <1>3, <1>4 DEF TakeUp

\* What _use writes is well typed.
LEMMA UseTypes ==
  ASSUME Types, WorkerInv, Use
  PROVE  Types'
<1>1. serial \in Turns  BY SerialTurn DEF Use, Waiting
<1>2. pc' \in Places /\ remaining' \in Nat
  BY <1>1, SomeWords DEF Types, Use, Loop, Places
<1>. QED
  BY <1>2 DEF Types, Use, turns, jobs, lates, recalls, counters, app, voice, ears, history

\* What _restart writes is well typed.
LEMMA RestartTypes ==
  ASSUME Types, WorkerInv, Restart
  PROVE  Types'
<1>1. serial \in Turns  BY SerialTurn DEF Restart, Waiting
<1>2. pc' \in Places /\ remaining' \in Nat
  BY <1>1, SomeWords DEF Types, Restart, Loop, Places
<1>3. interrupted' \in BOOLEAN /\ audible' \subseteq Labels
  BY DEF Types, Restart
<1>. QED
  BY <1>2, <1>3 DEF Types, Restart, turns, jobs, lates, recalls, counters, app, ears, history

\* What beginning a sentence writes is well typed.
LEMMA SayTypes ==
  ASSUME Types, WorkerInv, Say
  PROVE  Types'
<1>1. serial \in Turns  BY SerialTurn DEF Say, Waiting
<1>2. Reply(serial) \in Labels
  BY <1>1 DEF Labels
<1>3. mouth' \in [Labels -> MouthPlaces] /\ voicing' \in BOOLEAN /\ interrupted' \in BOOLEAN
  BY <1>2, BeginTypes DEF Say
<1>4. pc' \in Places /\ remaining' \in Nat /\ overrun' \in Nat
  BY DEF Types, WorkerInv, Say, Places
<1>. QED
  BY <1>3, <1>4 DEF Types, Say, Begin, turns, jobs, lates, recalls, counters, app, ears

\* What _finish writes is well typed.
LEMMA FinishTypes ==
  ASSUME Types, WorkerInv, Finish
  PROVE  Types'
<1>1. serial \in Turns  BY SerialTurn DEF Finish, Waiting
<1>2. pc' \in Places /\ remaining' \in Nat
  BY DEF Finish, Places
<1>3. /\ replying' \in [Turns -> BOOLEAN]
      /\ pending' \in [Turns -> {"none", "useful", "useless"}]
  BY <1>1 DEF Types, Finish
<1>4. /\ late' \in [Turns -> LatePlaces] /\ lateOn' \in [Turns -> {"turn", "job"}]
      /\ found' \in [Turns -> {"none", "useful", "useless"}]
  BY <1>1 DEF Types, Finish, LatePlaces
<1>. QED
  BY <1>2, <1>3, <1>4 DEF Types, Finish, counters, app, voice, ears, history

\* What composing the follow-up writes is well typed.
LEMMA ComposeTypes ==
  ASSUME Types, NEW t \in Turns, Compose(t)
  PROVE  Types'
<1>1. late' \in [Turns -> LatePlaces] 
  BY DEF Types, Compose, GoLate, LatePlaces
<1>2. words' \in [Turns -> Nat]
  BY SomeWords DEF Types, Compose, GoLate
<1>. QED
  BY <1>1, <1>2 DEF Types, Compose, GoLate, Still, worker, turns, jobs, recalls, counters, app,
     voice, ears

\* What beginning a sentence of it writes is well typed.
LEMMA SayFollowUpTypes ==
  ASSUME Types, NEW t \in Turns, LateInv(t), SayFollowUp(t)
  PROVE  Types'
<1>1. FollowUp(t) \in Labels  BY DEF Labels
<1>2. mouth' \in [Labels -> MouthPlaces] /\ voicing' \in BOOLEAN /\ interrupted' \in BOOLEAN
  BY <1>1, BeginTypes DEF SayFollowUp
<1>3. words' \in [Turns -> Nat] /\ late' \in [Turns -> LatePlaces]
  BY DEF Types, LateInv, SayFollowUp, LatePlaces
<1>. QED
  BY <1>2, <1>3 DEF Types, SayFollowUp, Begin, Still, worker, turns, jobs, recalls, counters, app,
     ears

\* What counting a late arrival writes is well typed.
LEMMA LateCountTypes ==
  ASSUME Types, NEW t \in Turns, LateCount(t)
  PROVE  Types'
<1>1. PICK l \in Landings : Count(t, l)
  BY DEF LateCount, Landings
<1>2. waiting' \in Nat /\ tally' \in [Landings -> Nat] /\ counted' \in [Turns -> Nat]
  BY <1>1, CountTypes
<1>3. /\ words' \in [Turns -> Nat] /\ late' \in [Turns -> LatePlaces]
      /\ job' \in [Turns -> {"none", "recalling", "late", "done"}] /\ pc' \in Places
  BY DEF Types, LateCount, LatePlaces, Places
<1>. QED
  BY <1>2, <1>3 DEF Types, LateCount, turns, recalls, app, voice, ears, history

\* What Voice.speak writes is well typed.
LEMMA MouthTypes ==
  ASSUME Types, NEW l \in Labels, Mouth(l)
  PROVE  Types'
<1>1. mouth' \in [Labels -> MouthPlaces] /\ voicing' \in BOOLEAN /\ interrupted' \in BOOLEAN
  BY DEF Types, Mouth, Synthesized, Play, Spoken, Check, Hush, MouthPlaces
<1>2. audible' \subseteq Labels
  BY DEF Types, Mouth, Synthesized, Play, Spoken, Check, Hush
<1>. QED
  BY <1>1, <1>2 DEF Types, Mouth, worker, turns, jobs, lates, recalls, counters, app, ears, history

\* What a transcript writes is well typed.
LEMMA TranscriptTypes ==
  ASSUME Types, Transcript
  PROVE  Types'
<1>1. heard' \in 0..MaxTurns /\ floorTaken' = FALSE
  BY RecallAssumption DEF Types, Transcript
<1>2. queued' \in 0..QueueSize
  BY RecallAssumption DEF Types, Transcript
<1>. QED
  BY <1>1, <1>2 DEF Types, Transcript, worker, turns, jobs, lates, recalls, counters, voice, history

\* What ending a sentence writes is well typed.
LEMMA SaidTypes ==
  ASSUME Types, WorkerInv, Said
  PROVE  Types'
<1>1. pc' \in Places /\ remaining' \in Nat
  BY DEF Types, Said, Loop, Places
<1>2. spoken' \in [Turns -> Nat]
  <2>1. spoken \in [Turns -> Nat] /\ spoken' = [spoken EXCEPT ![serial] = @ + 1]
    BY DEF Types, Said
  <2>2. serial \in Turns  BY SerialTurn DEF Said, Waiting
  <2>. QED  BY <2>1, <2>2
<1>. QED
  BY <1>1, <1>2 DEF Types, Said, jobs, lates, recalls, counters, app, voice, ears, history

\* Every step keeps the types.
LEMMA TypesStep ==
  ASSUME Types, WorkerInv, \A t \in Turns : LateInv(t), Next
  PROVE  Types'
<1>1. CASE Dequeue
  BY <1>1, RecallAssumption DEF Dequeue, Places, WorkerInv, Types, turns, jobs, lates, recalls,
     counters, voice, ears, history
<1>2. CASE Accept
  BY <1>2, RecallAssumption DEF Accept, Places, WorkerInv, Types, turns, jobs, lates, recalls,
     counters, voice, ears
<1>3. CASE RunTurn
  BY <1>3, RunTurnTypes
<1>4. CASE HeadStart
  BY <1>4, HeadStartTypes
<1>5. CASE HeadTake
  BY <1>5, HeadTakeTypes
<1>6. CASE Floor
  BY <1>6 DEF Floor, Places, Types, turns, jobs, lates, recalls, counters, app, voice, ears,
     history
<1>7. CASE TakeUp
  BY <1>7, TakeUpTypes
<1>8. CASE Use
  BY <1>8, UseTypes
<1>9. CASE Restart
  BY <1>9, RestartTypes
<1>10. CASE Say
  BY <1>10, SayTypes
<1>11. CASE Said
  BY <1>11, SaidTypes
<1>12. CASE Finish
  BY <1>12, FinishTypes
<1>13. CASE EndTurn
  BY <1>13 DEF EndTurn, Places, WorkerInv, Types, turns, jobs, lates, recalls, counters, voice,
     ears, history
<1>14. ASSUME NEW t \in Turns, Lands(t) PROVE Types'
  BY <1>14 DEF Lands, LatePlaces, Types, worker, recalls, counters, app, voice, ears, history
<1>15. ASSUME NEW t \in Turns, LateClaim(t) PROVE Types'
  BY <1>15 DEF LateClaim, ClaimSteps, LatePlaces, GoLate, Still, Types, worker, jobs, recalls,
     counters, app, voice, ears
<1>16. ASSUME NEW t \in Turns, Relevant(t) PROVE Types'
  BY <1>16 DEF Relevant, LatePlaces, GoLate, Still, Types, worker, turns, jobs, recalls,
     counters, app, voice, ears
<1>17. ASSUME NEW t \in Turns, GateFloor(t) PROVE Types'
  BY <1>17 DEF GateFloor, LatePlaces, GoLate, Still, Types, worker, turns, jobs, recalls,
     counters, app, voice, ears
<1>18. ASSUME NEW t \in Turns, GateBusy(t) PROVE Types'
  BY <1>18 DEF GateBusy, LatePlaces, GoLate, Still, Types, worker, turns, jobs, recalls,
     counters, app, voice, ears
<1>19. ASSUME NEW t \in Turns, Compose(t) PROVE Types'
  BY <1>19, ComposeTypes
<1>20. ASSUME NEW t \in Turns, FloorAgain(t) PROVE Types'
  BY <1>20 DEF FloorAgain, LatePlaces, GoLate, Still, Types, worker, turns, jobs, recalls,
     counters, app, voice, ears
<1>21. ASSUME NEW t \in Turns, Acquire(t) PROVE Types'
  BY <1>21 DEF Acquire, LatePlaces, GoLate, Still, Types, worker, turns, jobs, recalls,
     counters, app, voice, ears
<1>22. ASSUME NEW t \in Turns, SayFloor(t) PROVE Types'
  BY <1>22 DEF SayFloor, LatePlaces, LateInv, GoLate, Still, Types, worker, turns, jobs,
     recalls, counters, app, voice, ears
<1>23. ASSUME NEW t \in Turns, SayFollowUp(t) PROVE Types'
  BY <1>23, SayFollowUpTypes
<1>24. ASSUME NEW t \in Turns, SaidFollowUp(t) PROVE Types'
  BY <1>24 DEF SaidFollowUp, LatePlaces, GoLate, Still, Types, worker, turns, jobs, recalls,
     counters, app, voice, ears
<1>25. ASSUME NEW t \in Turns, Release(t) PROVE Types'
  BY <1>25 DEF Release, LatePlaces, GoLate, Still, Types, worker, turns, jobs, recalls,
     counters, app, voice, ears
<1>26. ASSUME NEW t \in Turns, LateCount(t) PROVE Types'
  BY <1>26, LateCountTypes
<1>27. ASSUME NEW l \in Labels, Mouth(l) PROVE Types'
  BY <1>27, MouthTypes
<1>28. ASSUME NEW l \in Labels, PlayedOut(l) PROVE Types'
  BY <1>28 DEF PlayedOut, Types, worker, turns, jobs, lates, recalls, counters, app, ears,
     history
<1>29. CASE SpeechStarted
  BY <1>29, RecallAssumption DEF SpeechStarted, Types, worker, turns, jobs, lates, recalls,
     counters, voice, history
<1>30. CASE Supersede
  BY <1>30 DEF Supersede, Types, worker, turns, jobs, lates, recalls, counters, voice, history
<1>31. CASE BargeIn
  BY <1>31 DEF BargeIn, Types, worker, turns, jobs, lates, recalls, counters, app, history
<1>32. CASE SpeechStopped
  BY <1>32 DEF SpeechStopped, Types, worker, turns, jobs, lates, recalls, counters, voice, ears,
     history
<1>33. CASE Transcript
  BY <1>33, TranscriptTypes
<1>34. CASE Close
  BY <1>34 DEF Close, Types, worker, turns, jobs, lates, recalls, counters, app, voice, ears,
     history
<1>. QED BY <1>1, <1>2, <1>3, <1>4, <1>5, <1>6, <1>7, <1>8, <1>9, <1>10, <1>11, <1>12, <1>13,
        <1>14, <1>15, <1>16, <1>17, <1>18, <1>19, <1>20, <1>21, <1>22, <1>23, <1>24, <1>25,
        <1>26, <1>27, <1>28, <1>29, <1>30, <1>31, <1>32, <1>33, <1>34 DEF Next, Worker, Late,
        Ear

-----------------------------------------------------------------------------
(* The turn worker runs one turn at a time, and speaks only sentences there are. *)

\* run_turn begins a reply, or after close() ends the turn.
LEMMA RunTurnWorker ==
  ASSUME Types, WorkerInv, RunTurn
  PROVE  WorkerInv'
<1>1. /\ pc = "accepted" /\ inReply = 0 /\ inFlight = 1
      /\ UNCHANGED <<heard, queued, serial, inFlight, remaining>>
  BY DEF RunTurn, WorkerInv, ReplyPlaces, Waiting, app, ears
<1>2. \/ pc' = "ended" /\ inReply' = 0
      \/ pc' = "headStart" /\ inReply' = 1
  BY <1>1 DEF RunTurn, recalls
<1>. QED  BY <1>1, <1>2 DEF WorkerInv, ReplyPlaces, Waiting

\* Every step keeps the worker at one turn.
LEMMA WorkerStep ==
  ASSUME Types, WorkerInv, \A t \in Turns : LateInv(t), Next
  PROVE  WorkerInv'
<1>1. CASE Dequeue
  BY <1>1 DEF Dequeue, Types, WorkerInv, Waiting, ReplyPlaces, recalls, ears
<1>2. CASE Accept
  BY <1>2 DEF Accept, Types, WorkerInv, Waiting, ReplyPlaces, recalls, ears
<1>3. CASE RunTurn
  BY <1>3, RunTurnWorker
<1>4. CASE HeadStart
  BY <1>4, SerialTurn, SomeWords DEF HeadStart, Complete, Types, WorkerInv, Waiting,
     ReplyPlaces, recalls, app, ears
<1>5. CASE HeadTake
  BY <1>5, SerialTurn, SomeWords DEF HeadTake, Complete, Types, WorkerInv, Waiting, ReplyPlaces,
     recalls, app, ears
<1>6. CASE Floor
  BY <1>6 DEF Floor, Types, WorkerInv, Waiting, ReplyPlaces, recalls, app, ears
<1>7. CASE TakeUp
  BY <1>7 DEF TakeUp, Types, WorkerInv, Waiting, ReplyPlaces, recalls, app, ears
<1>8. CASE Use
  BY <1>8, SerialTurn, SomeWords DEF Use, Loop, Types, WorkerInv, Waiting, ReplyPlaces, recalls,
     app, ears
<1>9. CASE Restart
  BY <1>9, SerialTurn, SomeWords DEF Restart, Loop, Types, WorkerInv, Waiting, ReplyPlaces,
     recalls, app, ears
<1>10. CASE Say
  BY <1>10 DEF Say, Types, WorkerInv, Waiting, ReplyPlaces, recalls, app, ears
<1>11. CASE Said
  BY <1>11 DEF Said, Loop, Types, WorkerInv, Waiting, ReplyPlaces, recalls, app, ears
<1>12. CASE Finish
  BY <1>12 DEF Finish, Types, WorkerInv, Waiting, ReplyPlaces, app, ears
<1>13. CASE EndTurn
  BY <1>13 DEF EndTurn, Types, WorkerInv, Waiting, ReplyPlaces, recalls, ears
<1>14. ASSUME NEW t \in Turns, Lands(t) PROVE WorkerInv'
  BY <1>14 DEF Lands, WorkerInv, Waiting, ReplyPlaces, worker, recalls, app, ears
<1>15. ASSUME NEW t \in Turns, Late(t), ~LateCount(t) PROVE WorkerInv'
  BY <1>15, LateFrame DEF WorkerInv, Waiting, ReplyPlaces, worker, recalls, app, ears
<1>16. ASSUME NEW t \in Turns, LateCount(t) PROVE WorkerInv'
  BY <1>16 DEF LateCount, LateInv, WorkerInv, Waiting, ReplyPlaces, recalls, app, ears
<1>17. ASSUME NEW l \in Labels, Mouth(l) \/ PlayedOut(l) PROVE WorkerInv'
  BY <1>17, VoiceFrame DEF WorkerInv, Waiting, ReplyPlaces, worker, recalls, app, ears
<1>18. CASE Ear \/ Close
  BY <1>18, EarFrame DEF Types, WorkerInv, Waiting, ReplyPlaces, worker, recalls
<1>. QED BY <1>1, <1>2, <1>3, <1>4, <1>5, <1>6, <1>7, <1>8, <1>9, <1>10, <1>11, <1>12, <1>13,
        <1>14, <1>15, <1>16, <1>17, <1>18 DEF Next, Worker, Late

-----------------------------------------------------------------------------
(* Who has the arrival of turn u. *)

\* A turn just accepted has no recall yet.
LEMMA AcceptArrival ==
  ASSUME Types, WorkerInv, NEW u \in Turns, Arrival(u), Accept
  PROVE  Arrival(u)'
<1>1. /\ pc = "heard" /\ pc' = "accepted" /\ serial' = serial + 1 /\ ~replying[u]
      /\ UNCHANGED <<replying, pending, classified, job, late, counted, used, closed>>
  BY DEF Accept, Arrival, ReplyPlaces, turns, jobs, lates, counters
<1>2. u > serial' \/ u = serial' => u > serial
  BY <1>1 DEF Types, Turns
<1>3. replying'[u] <=> u = serial' /\ pc' \in ReplyPlaces
  BY <1>1 DEF ReplyPlaces
<1>. QED  BY <1>1, <1>2, <1>3 DEF Arrival

\* run_turn starts the recall of its turn, or counts one that could not be started.
LEMMA RunTurnArrival ==
  ASSUME Types, WorkerInv, NEW u \in Turns, Arrival(u), RunTurn
  PROVE  Arrival(u)'
<1>1. /\ serial \in Turns /\ serial' = serial /\ pc = "accepted" /\ pc' \in {"ended", "headStart"}
      /\ UNCHANGED <<pending, late, closed, used>>
  BY SerialTurn DEF RunTurn, Waiting, app, lates, history
<1>2. CASE u # serial
  <2>1. UNCHANGED <<replying[u], classified[u], job[u], counted[u]>>
    BY <1>1, <1>2 DEF RunTurn, Types, counters
  <2>. QED  BY <1>1, <1>2, <2>1 DEF Arrival
<1>3. CASE u = serial
  <2>. USE <1>3
  <2>1. /\ ~replying[u] /\ job[u] = "none" /\ pending[u] = "none" /\ late[u] = "none"
        /\ counted[u] = 0 /\ ~used[u] /\ ~classified[u]
    BY <1>1 DEF Arrival, ReplyPlaces
  <2>2. CASE closed
    <3>1. pc' = "ended" /\ UNCHANGED <<replying, classified, job, counted>>
      BY <2>2 DEF RunTurn, counters
    <3>. QED  BY <1>1, <2>1, <3>1 DEF Arrival, ReplyPlaces
  <2>3. CASE ~closed
    <3>1. pc' = "headStart" /\ replying'[u]
      BY <1>1, <2>3 DEF RunTurn, Types
    <3>2. \/ job'[u] = "recalling" /\ UNCHANGED <<classified, counted>>
          \/ job'[u] = "done" /\ classified'[u] /\ counted'[u] = 1
      BY <1>1, <2>1, <2>3 DEF RunTurn, Types
    <3>. QED  BY <1>1, <2>1, <3>1, <3>2 DEF Arrival, ReplyPlaces, Turns
  <2>. QED  BY <2>2, <2>3
<1>. QED  BY <1>2, <1>3

\* _take claims and counts the arrival of the turn in hand, and of no other.
LEMMA TakeArrival ==
  ASSUME Types, WorkerInv, NEW u \in Turns, Arrival(u), pc \in ReplyPlaces, pc' \in ReplyPlaces,
         Take, UNCHANGED <<serial, replying, job, late, closed>>
  PROVE  Arrival(u)'
<1>1. serial \in Turns  BY SerialTurn DEF Waiting, ReplyPlaces
<1>2. CASE u # serial
  <2>1. UNCHANGED <<pending[u], classified[u], counted[u], used[u]>>
    BY <1>1, <1>2 DEF Take, Count, Types
  <2>. QED  BY <1>2, <2>1, <1>1 DEF Arrival, Types
<1>3. CASE u = serial
  <2>1. /\ pending[u] # "none" /\ ~classified[u] /\ replying[u] /\ job[u] = "done"
        /\ late[u] = "none" /\ counted[u] = 0
    BY <1>1, <1>3 DEF Take, Arrival
  <2>2. pending'[u] = "none" /\ classified'[u]
    BY <1>1, <1>3 DEF Take, Types
  <2>3. counted'[u] = 1
    <3>1. PICK l : Count(u, l)
      BY <1>3 DEF Take
    <3>. QED  BY <2>1, <3>1 DEF Count, Types
  <2>. QED  BY <1>3, <2>1, <2>2, <2>3 DEF Arrival, ReplyPlaces
<1>. QED  BY <1>2, <1>3

\* The same at the end of the head start.
LEMMA HeadTakeArrival ==
  ASSUME Types, WorkerInv, NEW u \in Turns, Arrival(u), HeadTake
  PROVE  Arrival(u)'
<1>1. /\ pc \in ReplyPlaces /\ pc' \in ReplyPlaces
      /\ UNCHANGED <<serial, replying, job, late, closed>>
  BY DEF HeadTake, Complete, ReplyPlaces, jobs, lates, app
<1>2. CASE Take
  BY <1>1, <1>2, TakeArrival
<1>3. CASE TakeNothing
  BY <1>1, <1>3 DEF TakeNothing, Arrival, counters, ReplyPlaces
<1>. QED  BY <1>2, <1>3 DEF HeadTake

\* The same between two sentences.
LEMMA TakeUpArrival ==
  ASSUME Types, WorkerInv, NEW u \in Turns, Arrival(u), TakeUp
  PROVE  Arrival(u)'
<1>1. /\ pc \in ReplyPlaces /\ pc' \in ReplyPlaces
      /\ UNCHANGED <<serial, replying, job, late, closed>>
  BY DEF TakeUp, ReplyPlaces, jobs, lates, app
<1>2. CASE Take
  BY <1>1, <1>2, TakeArrival
<1>3. CASE TakeNothing
  BY <1>1, <1>3 DEF TakeNothing, Arrival, counters, ReplyPlaces
<1>. QED  BY <1>2, <1>3 DEF TakeUp

\* _finish hands an arrival nobody took to the late path, or leaves none.
LEMMA FinishArrival ==
  ASSUME Types, WorkerInv, NEW u \in Turns, Arrival(u), Finish
  PROVE  Arrival(u)'
<1>1. /\ serial \in Turns /\ serial' = serial /\ pc = "finish" /\ pc' \in {"late", "ended"}
      /\ UNCHANGED <<classified, job, counted, closed, used>>
  BY SerialTurn DEF Finish, Waiting, app, counters, history
<1>2. CASE u # serial
  <2>1. UNCHANGED <<replying[u], pending[u], late[u]>>
    BY <1>1, <1>2 DEF Finish, Types
  <2>. QED  BY <1>1, <1>2, <2>1 DEF Arrival
<1>3. CASE u = serial
  <2>1. replying[u] /\ ~replying'[u] /\ pending'[u] = "none" /\ pc' \notin ReplyPlaces
    BY <1>1, <1>3 DEF Finish, Arrival, Types, ReplyPlaces
  <2>2. CASE pending[u] # "none" /\ ~classified[u]
    <3>1. late'[u] = "claim"
      BY <1>1, <1>3, <2>2 DEF Finish, Types
    <3>. QED  BY <1>1, <1>3, <2>1, <2>2, <3>1 DEF Arrival, ReplyPlaces
  <2>3. CASE ~(pending[u] # "none" /\ ~classified[u])
    <3>1. UNCHANGED late
      BY <1>1, <1>3, <2>3 DEF Finish, Types
    <3>. QED  BY <1>1, <1>3, <2>1, <2>3, <3>1 DEF Arrival, ReplyPlaces
  <2>. QED  BY <2>2, <2>3
<1>. QED  BY <1>2, <1>3

\* The late path counts an arrival that was not counted.
LEMMA LateCountArrival ==
  ASSUME Types, WorkerInv, NEW u \in Turns, Arrival(u), NEW t \in Turns, LateInv(t),
         LateCount(t)
  PROVE  Arrival(u)'
<1>1. PICK l : Count(t, l)
  BY DEF LateCount
<1>2. /\ (pc = "accepted") = (pc' = "accepted")
      /\ (pc \in ReplyPlaces) = (pc' \in ReplyPlaces)
  BY DEF LateCount, LateInv, ReplyPlaces
<1>3. /\ serial' = serial /\ UNCHANGED <<replying, pending, classified, used, closed>>
  BY DEF LateCount, turns, app, history
<1>4. CASE u # t
  <2>1. UNCHANGED <<late[u], job[u], counted[u]>>
    BY <1>1, <1>4 DEF LateCount, Count, Types
  <2>. QED  BY <1>2, <1>3, <1>4, <2>1 DEF Arrival
<1>5. CASE u = t
  <2>1. counted[u] = 0 /\ counted'[u] = 1
    BY <1>1, <1>5 DEF Arrival, LateCount, Count, Types
  <2>2. late'[u] = "over" /\ job'[u] = "done"
    BY <1>5 DEF LateCount, Types, LateInv
  <2>. QED  BY <1>2, <1>3, <1>5, <2>1, <2>2 DEF Arrival, LateCount
<1>. QED  BY <1>4, <1>5

\* The gates of the late path neither claim nor count.
LEMMA GatesArrival ==
  ASSUME Types, NEW u \in Turns, Arrival(u), NEW t \in Turns, LateInv(t),
         Late(t), ~LateClaim(t), ~LateCount(t)
  PROVE  Arrival(u)'
<1>1. /\ late[t] \notin {"none", "claim", "drop", "land", "over"} /\ UNCHANGED classified
      /\ \E step \in LatePlaces \ {"none", "claim", "over"} : late' = [late EXCEPT ![t] = step]
  <2>. USE DEF GoLate, turns, LatePlaces
  <2>1. CASE Relevant(t)
    BY <2>1 DEF Relevant
  <2>2. CASE GateFloor(t)
    BY <2>2 DEF GateFloor
  <2>3. CASE GateBusy(t)
    BY <2>3 DEF GateBusy
  <2>4. CASE Compose(t)
    BY <2>4 DEF Compose
  <2>5. CASE FloorAgain(t)
    BY <2>5 DEF FloorAgain
  <2>6. CASE Acquire(t)
    BY <2>6 DEF Acquire
  <2>7. CASE SayFloor(t)
    BY <2>7 DEF SayFloor
  <2>8. CASE SayFollowUp(t)
    BY <2>8 DEF SayFollowUp
  <2>9. CASE SaidFollowUp(t)
    BY <2>9 DEF SaidFollowUp
  <2>10. CASE Release(t)
    BY <2>10 DEF Release
  <2>. QED  BY <2>1, <2>2, <2>3, <2>4, <2>5, <2>6, <2>7, <2>8, <2>9, <2>10 DEF Late
<1>2. /\ UNCHANGED <<pc, serial, replying, pending, classified, job, counted, closed, used>>
  BY <1>1, LateFrame DEF worker, jobs, counters, app, history
<1>3. CASE u # t
  BY <1>1, <1>2, <1>3 DEF Arrival, Types
<1>4. CASE u = t
  BY <1>1, <1>2, <1>4 DEF Arrival, Types
<1>. QED  BY <1>3, <1>4

\* The late path claims an arrival once.
LEMMA LateClaimArrival ==
  ASSUME Types, NEW u \in Turns, Arrival(u), NEW t \in Turns, LateInv(t), LateClaim(t)
  PROVE  Arrival(u)'
<1>1. /\ late[t] = "claim" /\ classified' = [classified EXCEPT ![t] = TRUE]
      /\ UNCHANGED <<pc, serial, replying, pending, job, counted, closed, used>>
  BY DEF LateClaim, Still, worker, jobs, counters, app
<1>2. PICK step \in ClaimSteps(t) : late' = [late EXCEPT ![t] = step]
  BY DEF LateClaim, GoLate
<1>3. step \in {"over", "drop", "relevant"}
  BY <1>2 DEF ClaimSteps
<1>4. CASE u # t
  BY <1>1, <1>2, <1>4 DEF Arrival, Types
<1>5. CASE u = t
  <2>1. ~classified[t] /\ classified'[t] /\ late'[t] = step
    BY <1>1, <1>2, <1>5 DEF Arrival, Types
  <2>2. step \in {"drop", "relevant"} /\ (closed => step = "drop")
    BY <1>2, <2>1 DEF ClaimSteps
  <2>. QED  BY <1>1, <1>5, <2>1, <2>2 DEF Arrival
<1>. QED  BY <1>4, <1>5

\* Every step keeps every arrival with one owner.
LEMMA ArrivalStep ==
  ASSUME Types, WorkerInv, NEW u \in Turns, \A t \in Turns : Arrival(t) /\ LateInv(t), Next
  PROVE  Arrival(u)'
<1>1. CASE Dequeue
  BY <1>1 DEF Dequeue, Types, Arrival, ReplyPlaces, turns, jobs, lates, counters, history
<1>2. CASE Accept
  BY <1>2, AcceptArrival
<1>3. CASE RunTurn
  BY <1>3, RunTurnArrival
<1>4. CASE HeadStart
  BY <1>4 DEF HeadStart, Complete, Types, Arrival, ReplyPlaces, turns, jobs, lates, counters,
     app, history
<1>5. CASE HeadTake
  BY <1>5, HeadTakeArrival
<1>6. CASE Floor
  BY <1>6 DEF Floor, Types, Arrival, ReplyPlaces, turns, jobs, lates, counters, app, history
<1>7. CASE TakeUp
  BY <1>7, TakeUpArrival
<1>8. CASE Use
  BY <1>8 DEF Use, Loop, Types, Arrival, ReplyPlaces, turns, jobs, lates, counters, app, history
<1>9. CASE Restart
  BY <1>9 DEF Restart, Loop, Types, Arrival, ReplyPlaces, turns, jobs, lates, counters, app,
     history
<1>10. CASE Say
  BY <1>10 DEF Say, Types, Arrival, ReplyPlaces, turns, jobs, lates, counters, app
<1>11. CASE Said
  BY <1>11, SerialTurn DEF Said, Loop, Types, Waiting, Arrival, ReplyPlaces, jobs, lates,
     counters, app, history
<1>12. CASE Finish
  BY <1>12, FinishArrival
<1>13. CASE EndTurn
  BY <1>13 DEF EndTurn, Types, Arrival, ReplyPlaces, turns, jobs, lates, counters, history
<1>14. ASSUME NEW t \in Turns, Lands(t) PROVE Arrival(u)'
  BY <1>14 DEF Lands, Arrival, ReplyPlaces, Types, LateInv, worker, counters, app, history
<1>15. ASSUME NEW t \in Turns, LateClaim(t) PROVE Arrival(u)'
  BY <1>15, LateClaimArrival
<1>16. ASSUME NEW t \in Turns, Late(t), ~LateClaim(t), ~LateCount(t) PROVE Arrival(u)'
  BY <1>16, GatesArrival
<1>17. ASSUME NEW t \in Turns, LateCount(t) PROVE Arrival(u)'
  BY <1>17, LateCountArrival
<1>18. ASSUME NEW l \in Labels, Mouth(l) \/ PlayedOut(l) PROVE Arrival(u)'
  BY <1>18, VoiceFrame DEF Arrival, ReplyPlaces, worker, turns, jobs, lates, counters, app,
     history
<1>19. CASE Ear \/ Close
  BY <1>19, EarFrame DEF Arrival, ReplyPlaces, worker, turns, jobs, lates, counters, history
<1>. QED BY <1>1, <1>2, <1>3, <1>4, <1>5, <1>6, <1>7, <1>8, <1>9, <1>10, <1>11, <1>12, <1>13,
        <1>14, <1>15, <1>16, <1>17, <1>18, <1>19 DEF Next, Worker, Late

-----------------------------------------------------------------------------
(* On which thread the late path of turn u runs, and what it says. *)

\* Every step keeps the late path of every turn on its thread.
LEMMA LateStep ==
  ASSUME Types, WorkerInv, NEW u \in Turns, \A t \in Turns : Arrival(t) /\ LateInv(t), Next
  PROVE  LateInv(u)'
<1>1. CASE Dequeue
  BY <1>1 DEF Dequeue, LateInv, Types, turns, jobs, lates, voice
<1>2. CASE Accept
  BY <1>2 DEF Accept, Arrival, ReplyPlaces, Waiting, LateInv, Types, turns, jobs, lates, voice
<1>3. CASE RunTurn
  BY <1>3, SerialTurn DEF RunTurn, Arrival, ReplyPlaces, Waiting, LateInv, Types, lates, app,
     voice
<1>4. CASE HeadStart
  BY <1>4 DEF HeadStart, Complete, LateInv, Types, turns, jobs, lates, app, voice
<1>5. CASE HeadTake
  BY <1>5 DEF HeadTake, Complete, Take, TakeNothing, LateInv, Types, jobs, lates, app, voice
<1>6. CASE Floor
  BY <1>6 DEF Floor, LateInv, Types, turns, jobs, lates, app, voice
<1>7. CASE TakeUp
  BY <1>7 DEF TakeUp, Take, TakeNothing, LateInv, Types, jobs, lates, app, voice
<1>8. CASE Use
  BY <1>8 DEF Use, Loop, LateInv, Types, turns, jobs, lates, app, voice
<1>9. CASE Restart
  BY <1>9 DEF Restart, Loop, LateInv, Types, turns, jobs, lates, app
<1>10. CASE Say
  BY <1>10 DEF Say, Begin, Labels, Reply, FollowUp, LateInv, Types, turns, jobs, lates, app
<1>11. CASE Said
  BY <1>11 DEF Said, Loop, LateInv, Types, jobs, lates, app, voice
<1>12. CASE Finish
  BY <1>12, SerialTurn DEF Finish, Arrival, ReplyPlaces, Waiting, LateInv, Types, app, voice
<1>13. CASE EndTurn
  BY <1>13 DEF EndTurn, LateInv, Types, turns, jobs, lates, voice
<1>14. ASSUME NEW t \in Turns, Lands(t) PROVE LateInv(u)'
  BY <1>14 DEF Lands, Arrival, LateInv, Types, worker, app, voice
<1>15. ASSUME NEW t \in Turns, LateClaim(t) PROVE LateInv(u)'
  BY <1>15 DEF LateClaim, ClaimSteps, Arrival, GoLate, Still, LateInv, Types, worker, turns,
     jobs, app, voice
<1>16. ASSUME NEW t \in Turns, Relevant(t) PROVE LateInv(u)'
  BY <1>16 DEF Relevant, Arrival, GoLate, Still, LateInv, Types, worker, turns, jobs, app, voice
<1>17. ASSUME NEW t \in Turns, GateFloor(t) PROVE LateInv(u)'
  BY <1>17 DEF GateFloor, Arrival, GoLate, Still, LateInv, Types, worker, turns, jobs, app,
     voice
<1>18. ASSUME NEW t \in Turns, GateBusy(t) PROVE LateInv(u)'
  BY <1>18 DEF GateBusy, Arrival, GoLate, Still, LateInv, Types, worker, turns, jobs, app, voice
<1>19. ASSUME NEW t \in Turns, Compose(t) PROVE LateInv(u)'
  BY <1>19 DEF Compose, Arrival, GoLate, Still, LateInv, Types, worker, turns, jobs, app, voice
<1>20. ASSUME NEW t \in Turns, FloorAgain(t) PROVE LateInv(u)'
  BY <1>20 DEF FloorAgain, Arrival, GoLate, Still, LateInv, Types, worker, turns, jobs, app,
     voice
<1>21. ASSUME NEW t \in Turns, Acquire(t) PROVE LateInv(u)'
  BY <1>21 DEF Acquire, Arrival, GoLate, Still, LateInv, Types, worker, turns, jobs, app, voice
<1>22. ASSUME NEW t \in Turns, SayFloor(t) PROVE LateInv(u)'
  BY <1>22 DEF SayFloor, Arrival, GoLate, Still, LateInv, Types, worker, turns, jobs, app, voice
<1>23. ASSUME NEW t \in Turns, SayFollowUp(t) PROVE LateInv(u)'
  BY <1>23 DEF SayFollowUp, Begin, Arrival, Still, Labels, FollowUp, LateInv, Types, worker,
     turns, jobs, app, voice
<1>24. ASSUME NEW t \in Turns, SaidFollowUp(t) PROVE LateInv(u)'
  BY <1>24 DEF SaidFollowUp, Arrival, Still, LateInv, Types, worker, turns, jobs, app, voice
<1>25. ASSUME NEW t \in Turns, Release(t) PROVE LateInv(u)'
  BY <1>25 DEF Release, Arrival, GoLate, Still, LateInv, Types, worker, turns, jobs, app, voice
<1>26. ASSUME NEW t \in Turns, LateCount(t) PROVE LateInv(u)'
  BY <1>26 DEF LateCount, Arrival, LateInv, Types, worker, turns, jobs, app, voice
<1>27. ASSUME NEW l \in Labels, Mouth(l) \/ PlayedOut(l) PROVE LateInv(u)'
  BY <1>27, VoiceFrame DEF Mouth, PlayedOut, Synthesized, Play, Spoken, Check, Hush, Labels,
     FollowUp, LateInv, Types, worker, turns, jobs, lates, app
<1>28. CASE Ear \/ Close
  BY <1>28, EarFrame DEF LateInv, Types, worker, turns, jobs, lates
<1>. QED BY <1>1, <1>2, <1>3, <1>4, <1>5, <1>6, <1>7, <1>8, <1>9, <1>10, <1>11, <1>12, <1>13,
        <1>14, <1>15, <1>16, <1>17, <1>18, <1>19, <1>20, <1>21, <1>22, <1>23, <1>24, <1>25,
        <1>26, <1>27, <1>28 DEF Next, Worker, Late

-----------------------------------------------------------------------------
(* Every arrival is counted once: the counters and the sets they count. *)

\* Sets of turns are finite, and no larger than the turns accepted.
LEMMA FiniteTurns ==
  ASSUME NEW S, S \subseteq Turns
  PROVE  IsFiniteSet(S) /\ Cardinality(S) \in 0..MaxTurns
<1>1. IsFiniteSet(Turns) /\ Cardinality(Turns) = MaxTurns
  BY RecallAssumption, FS_Interval DEF Turns
<1>2. IsFiniteSet(S) /\ Cardinality(S) <= MaxTurns
  BY <1>1, FS_Subset
<1>. QED  BY <1>2, FS_CardinalityType, RecallAssumption

\* What counts nothing and starts no recall keeps the counts right.
LEMMA SameCount ==
  ASSUME CountInv, UNCHANGED counters,
         \A t \in Turns : job'[t] # "none" <=> job[t] # "none"
  PROVE  CountInv'
<1>1. Out' = Out /\ Counted' = Counted
  BY DEF Out, Counted, counters
<1>. QED  BY <1>1 DEF CountInv, Tallies, counters

\* One arrival more is counted, and one counter goes up.
LEMMA OneMore ==
  ASSUME Types, Tallies = Cardinality(Counted),
         NEW t \in Turns, NEW l \in Landings, counted[t] = 0,
         tally' = [tally EXCEPT ![l] = @ + 1], counted' = [counted EXCEPT ![t] = @ + 1]
  PROVE  Tallies' = Cardinality(Counted')
<1>1. Counted' = Counted \cup {t} /\ t \notin Counted
  BY DEF Types, Counted
<1>2. Cardinality(Counted') = Cardinality(Counted) + 1
  BY <1>1, FiniteTurns, FS_AddElement DEF Counted
<1>3. Tallies' = Tallies + 1
  BY DEF Types, Tallies, Landings
<1>. QED  BY <1>2, <1>3

\* _count_locked keeps the counts right for an arrival that was still out.
LEMMA CountOne ==
  ASSUME Types, CountInv, NEW t \in Turns, NEW l \in Landings, Count(t, l),
         counted[t] = 0, job[t] # "none",
         \A u \in Turns : job'[u] # "none" <=> job[u] # "none"
  PROVE  CountInv'
<1>1. Out' = Out \ {t} /\ t \in Out
  BY DEF Types, Out, Count
<1>2. Cardinality(Out) # 0 /\ Cardinality(Out') = Cardinality(Out) - 1
  BY <1>1, FiniteTurns, FS_RemoveElement, FS_EmptySet DEF Out
<1>3. waiting' = Cardinality(Out')
  BY <1>2 DEF CountInv, Count
<1>4. Tallies' = Cardinality(Counted')
  BY OneMore DEF CountInv, Count
<1>. QED  BY <1>3, <1>4 DEF CountInv

\* _take counts an arrival that was still out.
LEMMA TakeCounts ==
  ASSUME Types, CountInv, serial \in Turns, Arrival(serial), Take, UNCHANGED job
  PROVE  CountInv'
<1>1. PICK l \in Landings : Count(serial, l)
  BY DEF Take, Landings
<1>2. counted[serial] = 0 /\ job[serial] # "none"
  BY DEF Take, Arrival
<1>. QED  BY <1>1, <1>2, CountOne

\* run_turn puts an arrival out, or counts it at once.
LEMMA RunTurnCounts ==
  ASSUME Types, WorkerInv, \A u \in Turns : Arrival(u), CountInv, RunTurn
  PROVE  CountInv'
<1>1. serial \in Turns /\ job[serial] = "none" /\ counted[serial] = 0
  BY SerialTurn DEF RunTurn, Waiting, Arrival
<1>2. CASE closed
  BY <1>2, SameCount DEF RunTurn
<1>3. CASE ~closed /\ UNCHANGED <<tally, counted>>
  <2>1. job' = [job EXCEPT ![serial] = "recalling"] /\ waiting' = waiting + 1
    BY <1>1, <1>3 DEF RunTurn, Types
  <2>2. Out' = Out \cup {serial} /\ serial \notin Out /\ Counted' = Counted
    BY <1>1, <1>3, <2>1 DEF Types, Out, Counted
  <2>3. Cardinality(Out') = Cardinality(Out) + 1
    BY <2>2, FiniteTurns, FS_AddElement DEF Out
  <2>. QED  BY <1>3, <2>1, <2>2, <2>3 DEF CountInv, Tallies
<1>4. CASE ~closed /\ ~UNCHANGED <<tally, counted>>
  <2>1. /\ job' = [job EXCEPT ![serial] = "done"] /\ UNCHANGED waiting
        /\ tally' = [tally EXCEPT !["dropped"] = @ + 1]
        /\ counted' = [counted EXCEPT ![serial] = @ + 1]
    BY <1>4 DEF RunTurn
  <2>2. Out' = Out
    BY <1>1, <2>1 DEF Types, Out
  <2>3. Tallies' = Cardinality(Counted')
    BY <1>1, <2>1, OneMore DEF CountInv, Landings
  <2>. QED  BY <2>1, <2>2, <2>3 DEF CountInv
<1>. QED  BY <1>2, <1>3, <1>4

\* The late path counts an arrival that was still out.
LEMMA LateCountCounts ==
  ASSUME Types, CountInv, NEW t \in Turns, Arrival(t), LateInv(t), LateCount(t)
  PROVE  CountInv'
<1>1. PICK l \in Landings : Count(t, l)
  BY DEF LateCount, Landings
<1>2. counted[t] = 0 /\ job[t] # "none"
  BY DEF LateCount, Arrival
<1>3. \A u \in Turns : job'[u] # "none" <=> job[u] # "none"
  BY <1>2 DEF LateCount, Types
<1>. QED  BY <1>1, <1>2, <1>3, CountOne

\* Every step keeps the counts right.
LEMMA CountStep ==
  ASSUME Types, WorkerInv, \A t \in Turns : Arrival(t) /\ LateInv(t), CountInv, Next
  PROVE  CountInv'
<1>1. CASE Dequeue
  BY <1>1, SameCount DEF Dequeue, jobs
<1>2. CASE Accept
  BY <1>2, SameCount DEF Accept, jobs
<1>3. CASE RunTurn
  BY <1>3, RunTurnCounts
<1>4. CASE HeadStart
  BY <1>4, SameCount DEF HeadStart, jobs
<1>5. CASE HeadTake
  BY <1>5, SerialTurn, TakeCounts, SameCount DEF HeadTake, TakeNothing, Waiting, jobs
<1>6. CASE Floor
  BY <1>6, SameCount DEF Floor, jobs
<1>7. CASE TakeUp
  BY <1>7, SerialTurn, TakeCounts, SameCount DEF TakeUp, TakeNothing, Waiting, jobs
<1>8. CASE Use
  BY <1>8, SameCount DEF Use, jobs
<1>9. CASE Restart
  BY <1>9, SameCount DEF Restart, jobs
<1>10. CASE Say
  BY <1>10, SameCount DEF Say, jobs
<1>11. CASE Said
  BY <1>11, SameCount DEF Said, jobs
<1>12. CASE Finish
  BY <1>12, SameCount DEF Finish
<1>13. CASE EndTurn
  BY <1>13, SameCount DEF EndTurn, jobs
<1>14. ASSUME NEW t \in Turns, Lands(t) PROVE CountInv'
  BY <1>14, SameCount DEF Lands, Types
<1>15. ASSUME NEW t \in Turns, Late(t), ~LateCount(t) PROVE CountInv'
  BY <1>15, LateFrame, SameCount DEF jobs
<1>16. ASSUME NEW t \in Turns, LateCount(t) PROVE CountInv'
  BY <1>16, LateCountCounts
<1>17. ASSUME NEW l \in Labels, Mouth(l) \/ PlayedOut(l) PROVE CountInv'
  BY <1>17, VoiceFrame, SameCount DEF jobs
<1>18. CASE Ear \/ Close
  BY <1>18, EarFrame, SameCount DEF jobs
<1>. QED BY <1>1, <1>2, <1>3, <1>4, <1>5, <1>6, <1>7, <1>8, <1>9, <1>10, <1>11, <1>12, <1>13,
        <1>14, <1>15, <1>16, <1>17, <1>18 DEF Next, Worker, Late

-----------------------------------------------------------------------------
(* The invariant, and what follows from it. *)

\* The invariant holds at the start.
LEMMA InitInv ==
  Init => IInv
<1>. SUFFICES ASSUME Init PROVE IInv
  OBVIOUS
<1>1. Types
  <2>1. pc \in Places /\ late \in [Turns -> LatePlaces] /\ mouth \in [Labels -> MouthPlaces]
    BY DEF Init, Places, LatePlaces, MouthPlaces
  <2>2. /\ tally \in [Landings -> Nat] /\ serial \in Nat /\ latest \in 0..serial
        /\ superseded \in 0..serial /\ queued \in 0..QueueSize /\ audible \subseteq Labels
        /\ speeches \in 0..MaxSpeeches /\ heard \in 0..MaxTurns
    BY RecallAssumption DEF Init
  <2>. QED  BY <2>1, <2>2 DEF Init, Types
<1>2. WorkerInv
  BY DEF Init, WorkerInv, Waiting, ReplyPlaces
<1>3. ASSUME NEW t \in Turns PROVE Arrival(t) /\ LateInv(t)
  BY RecallAssumption DEF Init, Arrival, LateInv, Turns, ReplyPlaces, Labels, FollowUp
<1>4. CountInv
  <2>1. Out = {} /\ Counted = {} /\ waiting = 0 /\ Tallies = 0
    BY DEF Init, Out, Counted, Tallies, Landings
  <2>. QED  BY <2>1, FS_EmptySet DEF CountInv
<1>. QED  BY <1>1, <1>2, <1>3, <1>4 DEF IInv

\* Every step keeps the invariant.
LEMMA NextInv ==
  IInv /\ [Next]_vars => IInv'
<1>. SUFFICES ASSUME IInv, [Next]_vars PROVE IInv'
  OBVIOUS
<1>1. CASE Next
  <2>1. Types' /\ WorkerInv'
    BY <1>1, TypesStep, WorkerStep DEF IInv
  <2>2. \A t \in Turns : Arrival(t)' /\ LateInv(t)'
    BY <1>1, ArrivalStep, LateStep DEF IInv
  <2>3. CountInv'
    BY <1>1, CountStep DEF IInv
  <2>. QED  BY <2>1, <2>2, <2>3 DEF IInv
<1>2. CASE UNCHANGED vars
  <2>. USE <1>2 DEF vars, worker, turns, jobs, lates, recalls, counters, app, voice, ears, history
  <2>1. Types'
    BY DEF IInv, Types
  <2>2. WorkerInv'
    BY DEF IInv, WorkerInv
  <2>3. \A t \in Turns : Arrival(t)' /\ LateInv(t)'
    BY DEF IInv, Arrival, LateInv
  <2>4. CountInv'
    BY SameCount DEF IInv
  <2>. QED  BY <2>1, <2>2, <2>3, <2>4 DEF IInv
<1>. QED  BY <1>1, <1>2

\* It implies the type invariant,
LEMMA InvTypes ==
  IInv => TypeOK
<1>. SUFFICES ASSUME IInv PROVE TypeOK
  OBVIOUS
<1>1. Types  BY DEF IInv
<1>2. Out \subseteq Turns /\ Counted \subseteq Turns
  BY DEF Out, Counted
<1>3. waiting \in 0..MaxTurns
  BY <1>2, FiniteTurns DEF IInv, CountInv
<1>4. tally \in [Landings -> 0..MaxTurns]
  <2>1. Tallies \in 0..MaxTurns
    BY <1>2, FiniteTurns DEF IInv, CountInv
  <2>2. \A l \in Landings : tally[l] \in Nat
    BY <1>1 DEF Types
  <2>3. \A l \in Landings : tally[l] \in 0..MaxTurns
    BY <2>1, <2>2, RecallAssumption DEF Tallies, Landings
  <2>. QED  BY <1>1, <2>3 DEF Types
<1>5. inReply \in 0..1 /\ inFlight \in 0..1
  BY DEF IInv, WorkerInv
<1>6. serial \in 0..heard
  BY <1>1 DEF IInv, WorkerInv, Types
<1>. QED  BY <1>1, <1>3, <1>4, <1>5, <1>6 DEF Types, TypeOK

\* that every recall is counted once,
LEMMA InvCounted ==
  IInv => RecallsCounted
<1>. SUFFICES ASSUME IInv PROVE RecallsCounted
  OBVIOUS
<1>. USE DEF IInv, Types
<1>1. ASSUME NEW t \in Turns PROVE counted[t] <= 1
  <2>1. Arrival(t) /\ late[t] \in LatePlaces /\ classified[t] \in BOOLEAN
    OBVIOUS
  <2>. QED  BY <2>1 DEF Arrival
<1>2. ASSUME NEW t \in Turns, job[t] = "done", ~replying[t], late[t] \in {"none", "over"}
      PROVE  counted[t] = 1
  <2>1. Arrival(t)
    OBVIOUS
  <2>. QED  BY <1>2, <2>1 DEF Arrival
<1>3. /\ waiting = Cardinality({t \in Turns : job[t] # "none" /\ counted[t] = 0})
      /\ tally["before_first_sentence"] + tally["during_reply"] + tally["follow_up"]
            + tally["dropped"] = Cardinality({t \in Turns : counted[t] = 1})
  BY DEF CountInv, Out, Counted, Tallies
<1>. QED  BY <1>1, <1>2, <1>3 DEF RecallsCounted

\* and that every memory is spoken once.
LEMMA InvOnce ==
  IInv => MemorySpokenOnce
<1>. SUFFICES ASSUME IInv, NEW t \in Turns, mouth[FollowUp(t)] # "quiet" \/ uttered[t]
              PROVE  ~used[t] /\ ~replying[t]
  BY DEF MemorySpokenOnce
<1>1. Arrival(t) /\ LateInv(t)
  BY DEF IInv
<1>2. late[t] \notin {"none", "claim"}
  BY <1>1 DEF LateInv
<1>. QED  BY <1>1, <1>2 DEF Arrival, LateInv

\* The invariant holds in every state.
THEOREM RecallIInv == Spec => []IInv
BY InitInv, NextInv, PTL DEF Spec

\* Every state the threads of BackgroundRecall and DaemonApp reach is well typed:
\* one turn in flight at most, and no counter beyond the turns accepted.
THEOREM RecallTypes == Spec => []TypeOK
BY RecallIInv, InvTypes, PTL

\* Every arrival is counted once, by whichever thread ends up with it, and
\* _pending is the number still out.
THEOREM RecallsAreCounted == Spec => []RecallsCounted
BY RecallIInv, InvCounted, PTL

\* A memory is spoken of in the reply or in a follow-up, never in both, and a
\* follow-up never while its reply still runs.
THEOREM MemoriesAreSpokenOnce == Spec => []MemorySpokenOnce
BY RecallIInv, InvOnce, PTL

(***************************************************************************)
(* What the daemon says.                                                   *)
(***************************************************************************)
\* After its last sentence a superseded turn only winds down.
Overrun ==
  /\ overrun <= 1
  /\ overrun = 1 => Superseded /\ pc \in {"saying", "floor", "finish", "late", "ended"} \cup Waiting

\* A reply restarts only when it has spoken, and ends only when it has or must.
Spoke ==
  /\ pc \in {"restart", "restartStop", "restarted"} => spoken[serial] # 0
  /\ NeverSilent

\* Only the turn in hand has a sentence of a reply under way.
ReplyMouth == \A t \in Turns : mouth[Reply(t)] # "quiet" => t = serial /\ pc = "saying"

SpeechInv == Overrun /\ Spoke /\ ReplyMouth /\ SupersededSilenced

-----------------------------------------------------------------------------
\* The turn in hand, as numbers.
LEMMA InHand ==
  ASSUME IInv
  PROVE  /\ serial \in Nat /\ superseded \in Nat /\ superseded <= serial /\ overrun \in Nat
         /\ superseded # 0 => superseded \in Turns
         /\ pc \notin Waiting => serial \in Turns
<1>1. Types /\ WorkerInv  BY DEF IInv
<1>2. serial \in 0..MaxTurns
  BY <1>1, RecallAssumption DEF Types, WorkerInv
<1>. QED  BY <1>1, <1>2, SerialTurn, RecallAssumption DEF Types, Turns

\* Every step keeps the superseded turn from beginning a second sentence.
LEMMA OverrunStep ==
  ASSUME IInv, Overrun, Next
  PROVE  Overrun'
<1>1. CASE Dequeue
  BY <1>1, InHand DEF Dequeue, Overrun, Superseded, Waiting, history
<1>2. CASE Accept
  BY <1>2, InHand DEF Accept, Overrun, Superseded, Waiting
<1>3. CASE RunTurn
  BY <1>3, InHand DEF RunTurn, Overrun, Superseded, Waiting, app, history
<1>4. CASE HeadStart
  BY <1>4, InHand DEF HeadStart, Complete, Overrun, Superseded, Waiting, app, history
<1>5. CASE HeadTake
  BY <1>5, InHand DEF HeadTake, Complete, Take, TakeNothing, Overrun, Superseded, Waiting, app
<1>6. CASE Floor
  BY <1>6, InHand DEF Floor, Overrun, Superseded, Waiting, app, history
<1>7. CASE TakeUp
  BY <1>7, InHand DEF TakeUp, Take, TakeNothing, Overrun, Superseded, Waiting, app
<1>8. CASE Use
  BY <1>8, InHand DEF Use, Loop, Overrun, Superseded, Waiting, app, history
<1>9. CASE Restart
  BY <1>9, InHand DEF Restart, Loop, Overrun, Superseded, Waiting, app, history
<1>10. CASE Say
  BY <1>10, InHand DEF Say, Begin, Overrun, Superseded, Waiting, app
<1>11. CASE Said
  BY <1>11, InHand DEF Said, Loop, Overrun, Superseded, Waiting, app, history
<1>12. CASE Finish
  BY <1>12, InHand DEF Finish, Overrun, Superseded, Waiting, app, history
<1>13. CASE EndTurn
  BY <1>13, InHand DEF EndTurn, Overrun, Superseded, Waiting, history
<1>14. ASSUME NEW t \in Turns, Lands(t) PROVE Overrun'
  BY <1>14, InHand DEF Lands, Overrun, Superseded, Waiting, worker, app, history
<1>15. ASSUME NEW t \in Turns, Late(t), ~LateCount(t) PROVE Overrun'
  BY <1>15, InHand, LateFrame DEF Overrun, Superseded, Waiting, worker, app, history
<1>16. ASSUME NEW t \in Turns, LateCount(t) PROVE Overrun'
  BY <1>16, InHand DEF LateCount, Overrun, Superseded, Waiting, worker, app, history
<1>17. ASSUME NEW l \in Labels, Mouth(l) \/ PlayedOut(l) PROVE Overrun'
  BY <1>17, InHand, VoiceFrame DEF Overrun, Superseded, Waiting, worker, app, history
<1>18. CASE SpeechStarted
  BY <1>18, InHand DEF SpeechStarted, Overrun, Superseded, Waiting, worker, history
<1>19. CASE Supersede
  BY <1>19, InHand DEF Supersede, Overrun, Superseded, Waiting, worker, history
<1>20. CASE BargeIn
  BY <1>20, InHand DEF BargeIn, Overrun, Superseded, Waiting, worker, app, history
<1>21. CASE SpeechStopped
  BY <1>21, InHand DEF SpeechStopped, Overrun, Superseded, Waiting, worker, history
<1>22. CASE Transcript
  BY <1>22, InHand DEF Transcript, Overrun, Superseded, Waiting, worker, history
<1>23. CASE Close
  BY <1>23, InHand DEF Close, Overrun, Superseded, Waiting, worker, app, history
<1>. QED BY <1>1, <1>2, <1>3, <1>4, <1>5, <1>6, <1>7, <1>8, <1>9, <1>10, <1>11, <1>12, <1>13,
        <1>14, <1>15, <1>16, <1>17, <1>18, <1>19, <1>20, <1>21, <1>22, <1>23 DEF Next, Worker,
        Ear

\* Every step keeps a turn from ending silent.
LEMMA SpokeStep ==
  ASSUME IInv, Spoke, Next
  PROVE  Spoke'
<1>1. CASE Dequeue
  BY <1>1, InHand, SomeWords DEF Dequeue, Spoke, NeverSilent, Superseded, turns
<1>2. CASE Accept
  BY <1>2, InHand, SomeWords DEF Accept, Spoke, NeverSilent, Superseded, turns
<1>3. CASE RunTurn
  BY <1>3, InHand, SomeWords DEF RunTurn, Spoke, NeverSilent, Superseded, app
<1>4. CASE HeadStart
  BY <1>4, InHand, SomeWords DEF HeadStart, Complete, Spoke, NeverSilent, Superseded, turns, app
<1>5. CASE HeadTake
  BY <1>5, InHand, SomeWords DEF HeadTake, Complete, Take, TakeNothing, Spoke, NeverSilent,
     Superseded, app
<1>6. CASE Floor
  BY <1>6, InHand, SomeWords DEF Floor, Spoke, NeverSilent, Superseded, turns, app
<1>7. CASE TakeUp
  BY <1>7, InHand, SomeWords DEF TakeUp, Take, TakeNothing, Spoke, NeverSilent, Superseded, app
<1>8. CASE Use
  BY <1>8, InHand, SomeWords DEF Use, Loop, IInv, WorkerInv, Waiting, Spoke, NeverSilent,
     Superseded, turns, app
<1>9. CASE Restart
  BY <1>9, InHand, SomeWords DEF Restart, Loop, Spoke, NeverSilent, Superseded, turns, app
<1>10. CASE Say
  BY <1>10, InHand, SomeWords DEF Say, Begin, Spoke, NeverSilent, Superseded, turns, app
<1>11. CASE Said
  BY <1>11, InHand, SomeWords DEF Said, Loop, IInv, Types, Waiting, Spoke, NeverSilent,
     Superseded, app
<1>12. CASE Finish
  BY <1>12, InHand, SomeWords DEF Finish, Spoke, NeverSilent, Superseded, app
<1>13. CASE EndTurn
  BY <1>13, InHand, SomeWords DEF EndTurn, Spoke, NeverSilent, Superseded, turns
<1>14. ASSUME NEW t \in Turns, Lands(t) PROVE Spoke'
  BY <1>14, InHand, SomeWords DEF Lands, Spoke, NeverSilent, Superseded, worker, app
<1>15. ASSUME NEW t \in Turns, Late(t), ~LateCount(t) PROVE Spoke'
  BY <1>15, InHand, SomeWords, LateFrame DEF Spoke, NeverSilent, Superseded, worker, turns, app
<1>16. ASSUME NEW t \in Turns, LateCount(t) PROVE Spoke'
  BY <1>16, InHand, SomeWords DEF LateCount, Spoke, NeverSilent, Superseded, worker, turns, app
<1>17. ASSUME NEW l \in Labels, Mouth(l) \/ PlayedOut(l) PROVE Spoke'
  BY <1>17, InHand, SomeWords, VoiceFrame DEF Spoke, NeverSilent, Superseded, worker, turns, app
<1>18. CASE SpeechStarted
  BY <1>18, InHand, SomeWords DEF SpeechStarted, Spoke, NeverSilent, Superseded, worker, turns
<1>19. CASE Supersede
  BY <1>19, InHand, SomeWords DEF Supersede, Spoke, NeverSilent, Superseded, worker, turns
<1>20. CASE BargeIn
  BY <1>20, InHand, SomeWords DEF BargeIn, Spoke, NeverSilent, Superseded, worker, turns, app
<1>21. CASE SpeechStopped
  BY <1>21, InHand, SomeWords DEF SpeechStopped, Spoke, NeverSilent, Superseded, worker, turns
<1>22. CASE Transcript
  BY <1>22, InHand, SomeWords DEF Transcript, Spoke, NeverSilent, Superseded, worker, turns
<1>23. CASE Close
  BY <1>23, InHand, SomeWords DEF Close, Spoke, NeverSilent, Superseded, worker, turns, app
<1>. QED BY <1>1, <1>2, <1>3, <1>4, <1>5, <1>6, <1>7, <1>8, <1>9, <1>10, <1>11, <1>12, <1>13,
        <1>14, <1>15, <1>16, <1>17, <1>18, <1>19, <1>20, <1>21, <1>22, <1>23 DEF Next, Worker,
        Ear

\* Every step keeps the sentences of replies with the turn in hand.
LEMMA ReplyMouthStep ==
  ASSUME IInv, ReplyMouth, Next
  PROVE  ReplyMouth'
<1>1. CASE Dequeue
  BY <1>1, InHand DEF Dequeue, ReplyMouth, voice
<1>2. CASE Accept
  BY <1>2, InHand DEF Accept, ReplyMouth, voice
<1>3. CASE RunTurn
  BY <1>3, InHand DEF RunTurn, ReplyMouth, app, voice
<1>4. CASE HeadStart
  BY <1>4, InHand DEF HeadStart, Complete, ReplyMouth, app, voice
<1>5. CASE HeadTake
  BY <1>5, InHand DEF HeadTake, Complete, Take, TakeNothing, ReplyMouth, app, voice
<1>6. CASE Floor
  BY <1>6, InHand DEF Floor, ReplyMouth, app, voice
<1>7. CASE TakeUp
  BY <1>7, InHand DEF TakeUp, Take, TakeNothing, ReplyMouth, app, voice
<1>8. CASE Use
  BY <1>8, InHand DEF Use, Loop, ReplyMouth, app, voice
<1>9. CASE Restart
  BY <1>9, InHand DEF Restart, Loop, ReplyMouth, app
<1>10. CASE Say
  BY <1>10, InHand DEF Say, Begin, IInv, Types, Labels, Reply, Waiting, ReplyMouth, app
<1>11. CASE Said
  BY <1>11, InHand DEF Said, Loop, ReplyMouth, app, voice
<1>12. CASE Finish
  BY <1>12, InHand DEF Finish, ReplyMouth, app, voice
<1>13. CASE EndTurn
  BY <1>13, InHand DEF EndTurn, ReplyMouth, voice
<1>14. ASSUME NEW t \in Turns, Lands(t) PROVE ReplyMouth'
  BY <1>14, InHand DEF Lands, ReplyMouth, worker, app, voice
<1>15. ASSUME NEW t \in Turns, Late(t), ~LateCount(t), ~SayFollowUp(t) PROVE ReplyMouth'
  BY <1>15, InHand, LateFrame DEF Late, LateClaim, Relevant, GateFloor, GateBusy, Compose,
     FloorAgain, Acquire, SayFloor, SaidFollowUp, Release, ReplyMouth, worker, app, voice
<1>16. ASSUME NEW t \in Turns, SayFollowUp(t) PROVE ReplyMouth'
  BY <1>16, InHand DEF SayFollowUp, Begin, Still, IInv, Types, Labels, Reply, FollowUp,
     ReplyMouth, worker, app
<1>17. ASSUME NEW t \in Turns, LateCount(t) PROVE ReplyMouth'
  BY <1>17, InHand DEF LateCount, IInv, LateInv, ReplyMouth, worker, app, voice
<1>18. ASSUME NEW l \in Labels, Mouth(l) \/ PlayedOut(l) PROVE ReplyMouth'
  BY <1>18, InHand DEF Mouth, PlayedOut, Synthesized, Play, Spoken, Check, Hush, IInv, Types,
     Labels, Reply, ReplyMouth, worker, app
<1>19. CASE SpeechStarted
  BY <1>19, InHand DEF SpeechStarted, ReplyMouth, worker, voice
<1>20. CASE Supersede
  BY <1>20, InHand DEF Supersede, ReplyMouth, worker, voice
<1>21. CASE BargeIn
  BY <1>21, InHand DEF BargeIn, ReplyMouth, worker, app
<1>22. CASE SpeechStopped
  BY <1>22, InHand DEF SpeechStopped, ReplyMouth, worker, voice
<1>23. CASE Transcript
  BY <1>23, InHand DEF Transcript, ReplyMouth, worker, voice
<1>24. CASE Close
  BY <1>24, InHand DEF Close, ReplyMouth, worker, app, voice
<1>. QED BY <1>1, <1>2, <1>3, <1>4, <1>5, <1>6, <1>7, <1>8, <1>9, <1>10, <1>11, <1>12, <1>13,
        <1>14, <1>15, <1>16, <1>17, <1>18, <1>19, <1>20, <1>21, <1>22, <1>23, <1>24 DEF Next,
        Worker, Ear

\* Every step keeps the speaker clear of a superseded turn.
LEMMA SilencedStep ==
  ASSUME IInv, ReplyMouth, SupersededSilenced, Next
  PROVE  SupersededSilenced'
<1>1. CASE Dequeue
  BY <1>1, InHand DEF Dequeue, SupersededSilenced, Stopping, Barging, voice, ears
<1>2. CASE Accept
  BY <1>2, InHand DEF Accept, SupersededSilenced, Stopping, Barging, voice, ears
<1>3. CASE RunTurn
  BY <1>3, InHand DEF RunTurn, SupersededSilenced, Stopping, Barging, app, voice, ears
<1>4. CASE HeadStart
  BY <1>4, InHand DEF HeadStart, Complete, SupersededSilenced, Stopping, Barging, app, voice,
     ears
<1>5. CASE HeadTake
  BY <1>5, InHand DEF HeadTake, Complete, Take, TakeNothing, SupersededSilenced, Stopping,
     Barging, app, voice, ears
<1>6. CASE Floor
  BY <1>6, InHand DEF Floor, SupersededSilenced, Stopping, Barging, app, voice, ears
<1>7. CASE TakeUp
  BY <1>7, InHand DEF TakeUp, Take, TakeNothing, SupersededSilenced, Stopping, Barging, app,
     voice, ears
<1>8. CASE Use
  BY <1>8, InHand DEF Use, Loop, SupersededSilenced, Stopping, Barging, app, voice, ears
<1>9. CASE Restart
  BY <1>9, InHand DEF Restart, Loop, SupersededSilenced, Stopping, Barging, app, ears
<1>10. CASE Say
  BY <1>10, InHand DEF Say, Begin, IInv, Types, Labels, Reply, SupersededSilenced, Stopping,
     Barging, app, ears
<1>11. CASE Said
  BY <1>11, InHand DEF Said, Loop, SupersededSilenced, Stopping, Barging, app, voice, ears
<1>12. CASE Finish
  BY <1>12, InHand DEF Finish, SupersededSilenced, Stopping, Barging, app, voice, ears
<1>13. CASE EndTurn
  BY <1>13, InHand DEF EndTurn, SupersededSilenced, Stopping, Barging, voice, ears
<1>14. ASSUME NEW t \in Turns, Lands(t) PROVE SupersededSilenced'
  BY <1>14, InHand DEF Lands, SupersededSilenced, Stopping, Barging, worker, app, voice, ears
<1>15. ASSUME NEW t \in Turns, Late(t), ~LateCount(t), ~SayFollowUp(t) PROVE SupersededSilenced'
  BY <1>15, InHand, LateFrame DEF Late, LateClaim, Relevant, GateFloor, GateBusy, Compose,
     FloorAgain, Acquire, SayFloor, SaidFollowUp, Release, SupersededSilenced, Stopping,
     Barging, worker, app, voice, ears
<1>16. ASSUME NEW t \in Turns, SayFollowUp(t) PROVE SupersededSilenced'
  BY <1>16, InHand DEF SayFollowUp, Begin, Still, SupersededSilenced, Stopping, Barging, worker,
     app, ears
<1>17. ASSUME NEW t \in Turns, LateCount(t) PROVE SupersededSilenced'
  BY <1>17, InHand DEF LateCount, SupersededSilenced, Stopping, Barging, worker, app, voice,
     ears
<1>18. ASSUME NEW l \in Labels, Mouth(l) \/ PlayedOut(l) PROVE SupersededSilenced'
  BY <1>18, InHand DEF Mouth, PlayedOut, Synthesized, Play, Spoken, Check, Hush, ReplyMouth,
     OnTurnThread, Superseded, IInv, Types, Labels, Reply, FollowUp, MouthPlaces,
     SupersededSilenced, Stopping, Barging, worker, app, ears
<1>19. CASE SpeechStarted
  BY <1>19, InHand DEF SpeechStarted, SupersededSilenced, Stopping, Barging, worker, voice
<1>20. CASE Supersede
  BY <1>20, InHand DEF Supersede, SupersededSilenced, Stopping, Barging, worker, voice
<1>21. CASE BargeIn
  BY <1>21, InHand DEF BargeIn, SupersededSilenced, Stopping, Barging, worker, app
<1>22. CASE SpeechStopped
  BY <1>22, InHand DEF SpeechStopped, SupersededSilenced, Stopping, Barging, worker, voice, ears
<1>23. CASE Transcript
  BY <1>23, InHand DEF Transcript, SupersededSilenced, Stopping, Barging, worker, voice
<1>24. CASE Close
  BY <1>24, InHand DEF Close, SupersededSilenced, Stopping, Barging, worker, app, voice, ears
<1>. QED BY <1>1, <1>2, <1>3, <1>4, <1>5, <1>6, <1>7, <1>8, <1>9, <1>10, <1>11, <1>12, <1>13,
        <1>14, <1>15, <1>16, <1>17, <1>18, <1>19, <1>20, <1>21, <1>22, <1>23, <1>24 DEF Next,
        Worker, Ear

-----------------------------------------------------------------------------
\* What holds at the start.
LEMMA InitSpeech ==
  Init => SpeechInv
<1>. SUFFICES ASSUME Init PROVE SpeechInv
  OBVIOUS
<1>1. Overrun /\ SupersededSilenced
  BY DEF Init, Overrun, SupersededSilenced
<1>2. Spoke
  BY DEF Init, Spoke, NeverSilent
<1>3. ReplyMouth
  BY DEF Init, ReplyMouth, Reply, Labels
<1>. QED  BY <1>1, <1>2, <1>3 DEF SpeechInv

\* Every step keeps it.
LEMMA NextSpeech ==
  IInv /\ SpeechInv /\ [Next]_vars => SpeechInv'
<1>. SUFFICES ASSUME IInv, SpeechInv, [Next]_vars PROVE SpeechInv'
  OBVIOUS
<1>1. CASE Next
  BY <1>1, OverrunStep, SpokeStep, ReplyMouthStep, SilencedStep DEF SpeechInv
<1>2. CASE UNCHANGED vars
  <2>. USE <1>2 DEF vars, worker, turns, app, voice, ears, history, SpeechInv
  <2>1. Overrun'             BY DEF Overrun, Superseded
  <2>2. Spoke'               BY DEF Spoke, NeverSilent, Superseded
  <2>3. ReplyMouth'          BY DEF ReplyMouth
  <2>4. SupersededSilenced'  BY DEF SupersededSilenced, Stopping, Barging
  <2>. QED  BY <2>1, <2>2, <2>3, <2>4
<1>. QED  BY <1>1, <1>2

\* It holds in every state.
THEOREM SpeechIInv == Spec => []SpeechInv
BY InitSpeech, NextSpeech, RecallIInv, PTL DEF Spec

\* Once superseded, a turn begins at most the sentence it was about to.
THEOREM SupersededTurnsStop == Spec => []SupersededStops
<1>1. SpeechInv => SupersededStops
  BY DEF SpeechInv, Overrun, SupersededStops
<1>. QED  BY <1>1, SpeechIInv, PTL

\* A turn that run_turn accepted and nobody superseded ends with a sentence spoken.
THEOREM TurnsAreNotSilent == Spec => []NeverSilent
<1>1. SpeechInv => NeverSilent
  BY DEF SpeechInv, Spoke
<1>. QED  BY <1>1, SpeechIInv, PTL

\* Audio of a superseded turn is in the speaker only while somebody is at
\* stopping it: the turn's own thread, or the barge-in.
THEOREM SupersededTurnsAreSilenced == Spec => []SupersededSilenced
<1>1. SpeechInv => SupersededSilenced
  BY DEF SpeechInv
<1>. QED  BY <1>1, SpeechIInv, PTL
==============================================================================

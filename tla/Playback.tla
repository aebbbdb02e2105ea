------------------------------ MODULE Playback ------------------------------
(***************************************************************************)
(* A reply becomes sound: the speaking thread of voice.Voice plays one     *)
(* sentence after another and queues it for the trace; audio.host's        *)
(* HostEndpoint queues it for a player, a child process that is started on *)
(* demand, written to by a writer thread, killed by a barge-in, checked    *)
(* for its device and not started again too soon after a fault; a pacing   *)
(* thread feeds the trace while the endpoint plays; the ear barges in; the *)
(* endpoint and the voice are closed.                                      *)
(*                                                                         *)
(* Grain: one action is one critical section of _counter_lock or _pace_cv, *)
(* one unlocked read or write of a shared field, or one operating system   *)
(* call.  A sentence is one slice.  One reply at a time is spoken (the     *)
(* conversation is held); waits and cool-downs end at any time.  A write   *)
(* to the pipe of a player has no deadline, and a barge-in that closes the *)
(* pipe waits for it: see PlayerReads.                                     *)
(***************************************************************************)
EXTENDS Naturals, Sequences, FiniteSets

CONSTANTS
  MaxSaid,          \* bound: sentences synthesised
  MaxMishaps,       \* bound: barge-ins, closings and faults of a player
  BufferLimit,      \* sentences the endpoint holds
  Closes,           \* is the endpoint closed
  NoPlayer          \* no child process

ASSUME PlaybackAssumption ==
  /\ {MaxSaid, MaxMishaps, BufferLimit} \subseteq Nat /\ Closes \in BOOLEAN
  /\ NoPlayer \notin Nat

Sentence == 1..MaxSaid
Writers == {"first", "second"}
Cutters == {"speaker", "ear", "closer"} \cup Writers

VARIABLES
  said,             \* sentences synthesised so far; the last is the one in hand
  talk,             \* where the speaking thread is
  interrupted,      \* Voice._interrupted
  paceBuffer, traced, untraced,   \* _pace_buffer, what was fed, queued_not_traced
  pacer,            \* the pacing thread: "none", "look" or "take"
  paceStop,
  player,           \* _playback_proc
  chunks, pending,  \* _playback_chunks, _writer_pending
  generation,       \* _playback_generation
  isPlaying,        \* _playing
  cooling,          \* is _out_open_cooldown_until ahead
  writerThread,     \* _writer_thread
  writerStop,
  writer,           \* per writer: [at, proc, gen, slice]
  closed,
  started,          \* players started so far: their numbers are 1..started
  alive,            \* those that live
  unreaped,         \* _unreaped
  doom,             \* per thread: the player it is about to kill, or NoPlayer
  heard,            \* <<player, sentence>>, as the players got them
  pushedTo,         \* the player a sentence was queued for
  ended,            \* players that were barged in on, closed, mistaken, or failed to write to
  faulted,          \* was a device lost, refused or mistaken
  ear,              \* where the barge-in is
  mishaps,          \* barge-ins, closings and faults so far
  closer            \* where close() is

voiceVars == <<said, talk, interrupted>>
paceVars == <<paceBuffer, traced, untraced, pacer, paceStop>>
queueVars == <<player, chunks, pending, generation, isPlaying, doom>>
writerVars == <<writerThread, writerStop, writer>>
childVars == <<started, alive, unreaped>>
historyVars == <<heard, pushedTo, ended>>
actorVars == <<ear, closer, closed>>
faultVars == <<faulted, mishaps>>
playbackVars == <<voiceVars, paceVars, queueVars, writerVars, childVars, historyVars, actorVars, cooling, faultVars>>

IdleWriter == [at |-> "none", proc |-> NoPlayer, gen |-> 0, slice |-> 0]

PlaybackInit ==
  /\ said = 0 /\ talk = "idle" /\ interrupted = FALSE
  /\ paceBuffer = <<>> /\ traced = {} /\ untraced = {} /\ pacer = "none" /\ paceStop = FALSE
  /\ player = NoPlayer /\ chunks = <<>> /\ pending = <<>> /\ generation = 0 /\ isPlaying = FALSE
  /\ doom = [t \in Cutters |-> NoPlayer]
  /\ writerThread = "none" /\ writerStop = FALSE /\ writer = [w \in Writers |-> IdleWriter]
  /\ started = 0 /\ alive = {} /\ unreaped = {}
  /\ heard = <<>> /\ pushedTo = [s \in Sentence |-> NoPlayer] /\ ended = {}
  /\ ear = "idle" /\ closer = "open" /\ closed = FALSE
  /\ cooling = FALSE /\ faulted = FALSE /\ mishaps = 0

(***************************************************************************)
(* Cutting: what stop_playback, a write failure and a device mismatch do   *)
(* under _counter_lock, and the kill after it.                             *)
(***************************************************************************)
Mishap == mishaps < MaxMishaps /\ mishaps' = mishaps + 1
Fault == Mishap /\ faulted' = TRUE

Cut(t) ==
  /\ chunks' = <<>> /\ pending' = <<>>
  /\ generation' = generation + 1 /\ isPlaying' = FALSE
  /\ doom' = [doom EXCEPT ![t] = player] /\ player' = NoPlayer

\* The kill is confirmed, or the child joins _unreaped.
Kill(t) ==
  /\ doom[t] # NoPlayer
  /\ doom' = [doom EXCEPT ![t] = NoPlayer]
  /\ \/ alive' = alive \ {doom[t]} /\ UNCHANGED <<unreaped, mishaps>>
     \/ doom[t] \in alive /\ unreaped' = unreaped \cup {doom[t]} /\ UNCHANGED alive /\ Mishap
  /\ UNCHANGED <<voiceVars, paceVars, player, chunks, pending, generation, isPlaying, writerVars,
                 started, historyVars, actorVars, cooling, faulted>>

\* A killed child is gone at last, and reaped by a later stop.
Reap(p) ==
  /\ p \in unreaped
  /\ unreaped' = unreaped \ {p} /\ alive' = alive \ {p}
  /\ UNCHANGED <<voiceVars, paceVars, queueVars, writerVars, started, historyVars, actorVars, cooling, faultVars>>

(***************************************************************************)
(* The speaking thread: Voice.speak and HostEndpoint.play.                 *)
(***************************************************************************)
At(t, here) == talk = here /\ doom[t] = NoPlayer

Speak ==
  /\ talk = "idle" /\ said < MaxSaid
  /\ interrupted' = FALSE /\ talk' = "check"
  /\ UNCHANGED <<said, paceVars, queueVars, writerVars, childVars, historyVars, actorVars, cooling, faultVars>>

\* Between two sentences: a barge-in, or the end, or the next one is synthesised
\* (or its synthesis fails, and with it the rest of the reply).
NextSentence ==
  /\ At("speaker", "check")
  /\ \/ talk' = "idle"
     \/ ~interrupted /\ said < MaxSaid /\ talk' = "synth"
  /\ UNCHANGED <<said, interrupted, paceVars, queueVars, writerVars, childVars, historyVars, actorVars, cooling, faultVars>>

Synthesised ==
  /\ talk = "synth"
  /\ IF interrupted THEN talk' = "idle" /\ UNCHANGED said
     ELSE talk' = "play" /\ said' = said + 1
  /\ UNCHANGED <<interrupted, paceVars, queueVars, writerVars, childVars, historyVars, actorVars, cooling, faultVars>>

\* play: closed, or no player and not yet time for another, and the sentence is
\* dropped -- the voice does not see it.
PlayLooks ==
  /\ talk = "play"
  /\ talk' = CASE closed -> "pace"
               [] ~closed /\ player # NoPlayer -> "push"
               [] ~closed /\ player = NoPlayer /\ cooling -> "pace"
               [] OTHER -> "open"
  /\ UNCHANGED <<said, interrupted, paceVars, queueVars, writerVars, childVars, historyVars, actorVars, cooling, faultVars>>

\* _start_writer: none is started while there is one.
StartWriter ==
  IF writerThread # "none" THEN UNCHANGED writerVars
  ELSE \E w \in Writers :
         /\ writer[w].at = "none" /\ (w = "second" => writer["first"].at # "none")
         /\ writerThread' = w /\ writerStop' = FALSE
         /\ writer' = [writer EXCEPT ![w] = [IdleWriter EXCEPT !.at = "look"]]

PlayOpens ==
  /\ talk = "open"
  /\ \/ /\ started' = started + 1 /\ alive' = alive \cup {started'}
        /\ player' = started' /\ StartWriter /\ talk' = "verify"
        /\ UNCHANGED <<cooling, faultVars>>
     \/ /\ talk' = "pace" /\ cooling' = TRUE /\ Fault
        /\ UNCHANGED <<started, alive, player, writerVars>>
  /\ UNCHANGED <<said, interrupted, paceVars, chunks, pending, generation, isPlaying, doom, unreaped,
                 historyVars, actorVars>>

\* The player is linked to its device -- or to another one, and is killed at once.
PlayVerified ==
  /\ talk = "verify"
  /\ \/ talk' = "push" /\ UNCHANGED <<queueVars, ended, faultVars>>
     \/ talk' = "mismatch" /\ Cut("speaker") /\ ended' = ended \cup {player} /\ Fault
  /\ UNCHANGED <<said, interrupted, paceVars, writerVars, childVars, heard, pushedTo, actorVars, cooling>>

\* The cool-down comes after the kill.
MismatchHandled ==
  /\ At("speaker", "mismatch") /\ talk' = "pace" /\ cooling' = TRUE
  /\ UNCHANGED <<said, interrupted, paceVars, queueVars, writerVars, childVars, historyVars, actorVars, faultVars>>

\* _enqueue_playback_chunk: the player may be gone again; the buffer may be full.
PushSentence ==
  /\ talk = "push" /\ talk' = "pace"
  /\ IF player = NoPlayer \/ Len(chunks) + Len(pending) >= BufferLimit
     THEN UNCHANGED <<chunks, isPlaying, pushedTo>>
     ELSE /\ chunks' = Append(chunks, said) /\ isPlaying' = TRUE
          /\ pushedTo' = [pushedTo EXCEPT ![said] = player]
  /\ UNCHANGED <<said, interrupted, paceVars, player, pending, generation, doom, writerVars, childVars,
                 heard, ended, actorVars, cooling, faultVars>>

\* Mutant: a sentence that a barge-in overtook is dropped and not counted.
BadPaceSentence ==
  /\ talk = "pace" /\ talk' = "check"
  /\ IF interrupted \/ paceStop
     THEN UNCHANGED <<paceBuffer, pacer>>
     ELSE /\ paceBuffer' = Append(paceBuffer, said)
          /\ pacer' = IF pacer = "none" THEN "look" ELSE pacer
  /\ UNCHANGED <<said, interrupted, traced, untraced, paceStop, queueVars, writerVars, childVars, historyVars,
                 actorVars, cooling, faultVars>>

\* _enqueue_pace and _ensure_pace_thread.
PaceSentence ==
  /\ talk = "pace" /\ talk' = "check"
  /\ IF interrupted \/ paceStop
     THEN untraced' = untraced \cup {said} /\ UNCHANGED <<paceBuffer, pacer>>
     ELSE /\ paceBuffer' = Append(paceBuffer, said)
          /\ pacer' = IF pacer = "none" THEN "look" ELSE pacer
          /\ UNCHANGED untraced
  /\ UNCHANGED <<said, interrupted, traced, paceStop, queueVars, writerVars, childVars, historyVars,
                 actorVars, cooling, faultVars>>

(***************************************************************************)
(* The writer: _writer_loop.                                               *)
(***************************************************************************)

\* One look under the lock: player, generation and the first slice.
WriterLooks(w) ==
  /\ writer[w].at = "look"
  /\ \/ /\ writerStop
        /\ writer' = [writer EXCEPT ![w] = IdleWriter] /\ UNCHANGED <<chunks, pending>>
     \/ /\ ~writerStop /\ player # NoPlayer /\ (pending # <<>> \/ chunks # <<>>)
        /\ IF pending = <<>> THEN pending' = <<Head(chunks)>> /\ chunks' = Tail(chunks)
           ELSE UNCHANGED <<chunks, pending>>
        /\ writer' = [writer EXCEPT ![w] = [at |-> "write", proc |-> player, gen |-> generation,
                                            slice |-> Head(pending')]]
  /\ UNCHANGED <<voiceVars, paceVars, player, generation, isPlaying, doom, writerThread, writerStop,
                 childVars, historyVars, actorVars, cooling, faultVars>>

\* The write, without the lock: the player gets it, or its pipe is closed by whoever
\* kills it, or it is gone by itself.  It takes as long as the player leaves its pipe full.
WriterWrites(w) ==
  /\ writer[w].at = "write"
  /\ LET p == writer[w].proc
         cut == player # p IN
       \/ /\ p \in alive /\ heard' = Append(heard, <<p, writer[w].slice>>)
          /\ writer' = [writer EXCEPT ![w].at = "commit"] /\ UNCHANGED <<alive, ended, faultVars>>
       \/ /\ heard' = heard /\ writer' = [writer EXCEPT ![w].at = "failed"] /\ ended' = ended \cup {p}
          /\ \/ (cut \/ p \notin alive) /\ faulted' = (faulted \/ ~cut) /\ UNCHANGED <<alive, mishaps>>
             \/ ~cut /\ p \in alive /\ alive' = alive \ {p} /\ Fault
  /\ UNCHANGED <<voiceVars, paceVars, queueVars, writerThread, writerStop, started, unreaped, pushedTo,
                 actorVars, cooling>>

WriterCommits(w) ==
  /\ writer[w].at = "commit"
  /\ pending' = IF pending # <<>> /\ Head(pending) = writer[w].slice THEN Tail(pending) ELSE pending
  /\ isPlaying' = (chunks # <<>> \/ pending' # <<>>)
  /\ writer' = [writer EXCEPT ![w].at = "look"]
  /\ UNCHANGED <<voiceVars, paceVars, player, chunks, generation, doom, writerThread, writerStop, childVars,
                 historyVars, actorVars, cooling, faultVars>>

\* Mutant: a failure is attributed to whichever player there is now.
BadWriterFails(w) ==
  /\ writer[w].at = "failed" /\ writer' = [writer EXCEPT ![w].at = "cool"]
  /\ Cut(w)
  /\ UNCHANGED <<voiceVars, paceVars, writerThread, writerStop, childVars, historyVars, actorVars, cooling,
                 faultVars>>

\* _handle_write_failure: one of an older generation touches nothing.
WriterFails(w) ==
  /\ writer[w].at = "failed"
  /\ IF writer[w].gen # generation
     THEN writer' = [writer EXCEPT ![w].at = "look"] /\ UNCHANGED queueVars
     ELSE writer' = [writer EXCEPT ![w].at = "cool"] /\ Cut(w)
  /\ UNCHANGED <<voiceVars, paceVars, writerThread, writerStop, childVars, historyVars, actorVars, cooling,
                 faultVars>>

\* The cool-down comes after the kill: a play in between may start another player.
WriterCools(w) ==
  /\ writer[w].at = "cool" /\ doom[w] = NoPlayer
  /\ writer' = [writer EXCEPT ![w].at = "look"] /\ cooling' = TRUE
  /\ UNCHANGED <<voiceVars, paceVars, queueVars, writerThread, writerStop, childVars, historyVars, actorVars,
                 faultVars>>

CooledDown ==
  /\ cooling /\ cooling' = FALSE
  /\ UNCHANGED <<voiceVars, paceVars, queueVars, writerVars, childVars, historyVars, actorVars, faultVars>>

(***************************************************************************)
(* The pacing thread: _pace_worker and _pace_tick.                         *)
(***************************************************************************)
DropPace == untraced' = untraced \cup {paceBuffer[i] : i \in DOMAIN paceBuffer} /\ paceBuffer' = <<>>

\* Mutant: a buffer nobody plays is kept.
BadPacerLooks ==
  /\ pacer = "look"
  /\ \/ paceBuffer = <<>> /\ paceStop /\ pacer' = "none" /\ UNCHANGED <<paceBuffer, untraced>>
     \/ /\ paceBuffer # <<>> /\ UNCHANGED <<paceBuffer, untraced>>
        /\ isPlaying /\ pacer' = "take"
  /\ UNCHANGED <<voiceVars, traced, paceStop, queueVars, writerVars, childVars, historyVars, actorVars, cooling, faultVars>>

\* Interrupted, stopped or stalled for long: dropped.  Not playing: it waits.
PacerLooks ==
  /\ pacer = "look"
  /\ \/ paceBuffer = <<>> /\ paceStop /\ pacer' = "none" /\ UNCHANGED <<paceBuffer, untraced>>
     \/ /\ paceBuffer # <<>>
        /\ \/ (interrupted \/ paceStop \/ ~isPlaying) /\ DropPace /\ UNCHANGED pacer
           \/ ~(interrupted \/ paceStop) /\ isPlaying /\ pacer' = "take" /\ UNCHANGED <<paceBuffer, untraced>>
  /\ UNCHANGED <<voiceVars, traced, paceStop, queueVars, writerVars, childVars, historyVars, actorVars, cooling, faultVars>>

PacerTakes ==
  /\ pacer = "take" /\ pacer' = "look"
  /\ IF paceBuffer = <<>> THEN UNCHANGED <<paceBuffer, traced>>
     ELSE traced' = traced \cup {Head(paceBuffer)} /\ paceBuffer' = Tail(paceBuffer)
  /\ UNCHANGED <<voiceVars, untraced, paceStop, queueVars, writerVars, childVars, historyVars, actorVars, cooling, faultVars>>

(***************************************************************************)
(* Barge-in: Voice.on_speech_started; and the ends of voice and endpoint.  *)
(***************************************************************************)
BargeIn ==
  /\ ear = "idle" /\ Mishap
  /\ interrupted' = TRUE /\ ear' = "stop"
  /\ UNCHANGED <<said, talk, paceVars, queueVars, writerVars, childVars, historyVars, closer, closed, cooling, faulted>>

EarStops ==
  /\ ear = "stop" /\ ear' = "drop"
  /\ Cut("ear") /\ ended' = ended \cup {player}
  /\ UNCHANGED <<voiceVars, paceVars, writerVars, childVars, heard, pushedTo, closer, closed, cooling,
                 faultVars>>

EarDrops ==
  /\ ear = "drop" /\ doom["ear"] = NoPlayer /\ ear' = "idle"
  /\ DropPace
  /\ UNCHANGED <<voiceVars, traced, pacer, paceStop, queueVars, writerVars, childVars, historyVars,
                 closer, closed, cooling, faultVars>>

\* HostEndpoint.close: the player, then the writer, and only then _closed.
CloseCuts ==
  /\ Closes /\ closer = "open" /\ Mishap
  /\ closer' = "cut"
  /\ Cut("closer") /\ ended' = ended \cup {player}
  /\ UNCHANGED <<voiceVars, paceVars, writerVars, childVars, heard, pushedTo, ear, closed, cooling, faulted>>

CloseStopsWriter ==
  /\ closer = "cut" /\ doom["closer"] = NoPlayer /\ closer' = "join"
  /\ writerStop' = TRUE /\ writerThread' = "none"
  /\ UNCHANGED <<voiceVars, paceVars, queueVars, writer, childVars, historyVars, ear, closed, cooling, faultVars>>

\* The writer is joined; or it was revived by a new one's start, or hangs, and the
\* wait runs out.
CloseEnds ==
  /\ closer = "join" /\ closer' = "closed" /\ closed' = TRUE
  /\ UNCHANGED <<voiceVars, paceVars, queueVars, writerVars, childVars, historyVars, ear, cooling, faultVars>>

\* Voice.close: the flag, then the buffer.
VoiceStops ==
  /\ closed /\ ~paceStop /\ paceStop' = TRUE /\ closer' = "voice"
  /\ UNCHANGED <<voiceVars, paceBuffer, traced, untraced, pacer, queueVars, writerVars, childVars, historyVars,
                 ear, closed, cooling, faultVars>>

VoiceDrops ==
  /\ closer = "voice" /\ closer' = "done" /\ DropPace
  /\ UNCHANGED <<voiceVars, traced, pacer, paceStop, queueVars, writerVars, childVars, historyVars, ear,
                 closed, cooling, faultVars>>

SpeakerStep == NextSentence \/ Synthesised \/ PlayLooks \/ PlayOpens \/ PlayVerified \/ MismatchHandled
               \/ PushSentence \/ PaceSentence
\* A writer, but for the write itself.
WriterGoesOn(w) == WriterLooks(w) \/ WriterCommits(w) \/ WriterFails(w) \/ WriterCools(w)
WriterStep(w) == WriterGoesOn(w) \/ WriterWrites(w)
PacerStep == PacerLooks \/ PacerTakes
EarStep == EarStops \/ EarDrops
CloserStep == CloseStopsWriter \/ CloseEnds \/ VoiceStops \/ VoiceDrops

PlaybackNext ==
  \/ Speak \/ SpeakerStep \/ PacerStep \/ CooledDown
  \/ \E w \in Writers : WriterStep(w)
  \/ BargeIn \/ EarStep \/ CloseCuts \/ CloserStep
  \/ \E t \in Cutters : Kill(t)
  \/ \E p \in unreaped : Reap(p)

PlaybackSpec == PlaybackInit /\ [][PlaybackNext]_playbackVars

\* Barge-in and close shut the pipe before they kill, and that waits for a write to it.
ShutAndKill(t) == Kill(t) /\ \A w \in Writers : writer[w].at = "write" => writer[w].proc # doom[t]

\* Every thread that has something to do goes on, but for a write that nobody reads, and
\* whoever waits for it; nobody has to speak, barge in or close.
PlaybackFairness ==
  /\ WF_playbackVars(SpeakerStep \/ Kill("speaker")) /\ WF_playbackVars(EarStep \/ ShutAndKill("ear"))
  /\ WF_playbackVars(CloserStep \/ ShutAndKill("closer")) /\ WF_playbackVars(PacerStep)
  /\ \A w \in Writers : WF_playbackVars(WriterGoesOn(w) \/ Kill(w))

\* What the code takes on trust: a player that lives empties its pipe, so a write ends.
PlayerReads == \A w \in Writers : WF_playbackVars(WriterWrites(w))

(***************************************************************************)
(* Properties.                                                             *)
(***************************************************************************)
PlaybackTypeOK ==
  /\ said \in 0..MaxSaid /\ interrupted \in BOOLEAN
  /\ talk \in {"idle", "check", "synth", "play", "open", "verify", "mismatch", "push", "pace"}
  /\ paceBuffer \in Seq(Sentence) /\ traced \subseteq Sentence /\ untraced \subseteq Sentence
  /\ pacer \in {"none", "look", "take"} /\ paceStop \in BOOLEAN
  /\ {player} \cup {doom[t] : t \in Cutters} \subseteq 1..started \cup {NoPlayer}
  /\ chunks \in Seq(Sentence) /\ pending \in Seq(Sentence) /\ Len(pending) <= 1
  /\ generation \in Nat /\ {isPlaying, cooling, closed, writerStop} \subseteq BOOLEAN
  /\ writerThread \in Writers \cup {"none"}
  /\ unreaped \subseteq 1..started /\ alive \subseteq 1..started

\* Until the endpoint is closed: what was said is heard in order and once, through
\* the player it was queued for -- nothing from before a barge-in sounds from a player
\* started after it; what was queued for a player is heard or waits, unless that player
\* was barged in on, was linked to another device or failed -- no cut clears what a newer
\* reply has queued; and the write that fails because a barge-in killed its player is not
\* taken for a lost device, which would silence the next reply.
CutsAreClean ==
  /\ closer = "open" =>
       /\ \A i, j \in DOMAIN heard : i < j => heard[i][2] < heard[j][2]
       /\ \A i \in DOMAIN heard : pushedTo[heard[i][2]] = heard[i][1]
       /\ \A s \in Sentence : pushedTo[s] \notin ended \cup {NoPlayer} =>
            s \in {heard[i][2] : i \in DOMAIN heard} \cup {chunks[i] : i \in DOMAIN chunks}
                  \cup {pending[i] : i \in DOMAIN pending}
  /\ cooling => faulted

\* What was handed to play is traced, waits to be, or is counted as not traced --
\* one of them, whatever barge-ins and the end of the voice do.
TraceAccounted ==
  LET queued == {paceBuffer[i] : i \in DOMAIN paceBuffer}
      handed == {s \in 1..said : s # said \/ talk \notin {"play", "open", "verify", "mismatch", "push", "pace"}}
  IN /\ traced \cup untraced \cup queued = handed
     /\ traced \cap untraced = {} /\ queued \cap (traced \cup untraced) = {}

\* Until the endpoint is closed: what is to be traced is traced or dropped, even if the
\* endpoint never plays and its player never reads; and if the player reads what is written
\* to it, what is queued for it is heard or cut, whatever barge-ins and failures do.
QueuesDrain ==
  /\ (paceBuffer # <<>>) ~> (paceBuffer = <<>> \/ closer # "open")
  /\ PlayerReads => ((chunks # <<>>) ~> (chunks = <<>> \/ closer # "open"))
=============================================================================

---------------------------- MODULE PlaybackProofs ----------------------------
(***************************************************************************)
(* Theorems about Playback, for any number of sentences, barge-ins and     *)
(* players and any buffer: cuts are clean, and the trace accounts for      *)
(* every sentence.                                                         *)
(*                                                                         *)
(* The argument about cuts is by generations. Between the writer's look    *)
(* and its commit the lock is free, and anybody may cut; but a cut ends    *)
(* the generation, so what the writer has in hand is either of the         *)
(* generation that stands, and then of the player that stands, or of one   *)
(* that is over, and then its failure is ignored. Order follows because    *)
(* numbers only grow from what was heard, over the writer's slice and the  *)
(* queue, to the sentence in hand.                                         *)
(***************************************************************************)
EXTENDS Playback, SequenceTheorems, TLAPS

\* What a writer and the speaking thread are in the middle of.
Places == {"none", "look", "write", "commit", "failed", "cool"}
WriterStates == [at : Places, proc : Nat \cup {NoPlayer}, gen : Nat, slice : Nat]
Unpushed == talk \in {"play", "open", "verify", "mismatch", "push"}
Handing == talk \in {"play", "open", "verify", "mismatch", "push", "pace"}
\* A sentence that was said, and is not the one on its way to the queue.
Queued(s) == s \in 1..said /\ (Unpushed => s # said)
\* A writer that has a slice in hand.
Busy(w) == writer[w].at \in {"write", "commit", "failed"}

\* The types, with what the threads have in hand.
PlayTypes ==
  /\ PlaybackTypeOK
  /\ started \in Nat /\ doom \in [Cutters -> 1..started \cup {NoPlayer}]
  /\ pushedTo \in [Sentence -> Nat \cup {NoPlayer}]
  /\ heard \in Seq(Nat \X Sentence)
  /\ writer \in [Writers -> WriterStates]
  /\ \A w \in Writers : Busy(w) => writer[w].slice \in Sentence /\ writer[w].proc \in Nat
  /\ Handing => said \in Sentence
  /\ talk = "synth" => said < MaxSaid

\* A slice in a writer's hands belongs to the player of its generation: while the
\* generation stands, so does the player. So a write that fails after a cut is one of an
\* older generation. What failed has ended, and a cool-down is only on its way after a fault.
WritersInv ==
  /\ \A w \in Writers : Busy(w) =>
       /\ writer[w].gen <= generation
       /\ writer[w].gen = generation => player = writer[w].proc
       /\ writer[w].at = "failed" /\ writer[w].gen = generation => faulted
       /\ writer[w].at = "failed" => writer[w].proc \in ended
  /\ \A w \in Writers : writer[w].at = "cool" => faulted
  /\ talk = "open" => player = NoPlayer
  /\ cooling \/ talk = "mismatch" => faulted

\* What waits is in order and meant for the player there is.
ChunksInv ==
  /\ player = NoPlayer => chunks = <<>>
  /\ \A i, j \in 1..Len(chunks) : i < j => chunks[i] < chunks[j]
  /\ \A i \in 1..Len(chunks) : Queued(chunks[i]) /\ pushedTo[chunks[i]] = player
\* What was heard is in order, from the right player, and before all that waits.
HeardInv ==
  /\ \A i \in 1..Len(heard) : Queued(heard[i][2]) /\ pushedTo[heard[i][2]] = heard[i][1]
  /\ \A i, j \in 1..Len(heard) : i < j => heard[i][2] < heard[j][2]
  /\ \A i \in 1..Len(heard), j \in 1..Len(chunks) : heard[i][2] < chunks[j]
\* The slice in the writer's hands comes after what was heard and before what waits; it is
\* pending unless its generation is over.
FirstInv ==
  /\ pending = IF Busy("first") /\ writer["first"].gen = generation
               THEN <<writer["first"].slice>> ELSE <<>>
  /\ Busy("first") =>
       /\ Queued(writer["first"].slice) /\ pushedTo[writer["first"].slice] = writer["first"].proc
       /\ \A j \in 1..Len(chunks) : writer["first"].slice < chunks[j]
       /\ writer["first"].at = "write" =>
            \A i \in 1..Len(heard) : heard[i][2] < writer["first"].slice
\* Until the endpoint is closed there is one writer; a second one starts only when
\* _writer_thread was forgotten by close().
AloneInv ==
  /\ writerStop = FALSE /\ writer["second"].at = "none" /\ writerThread # "second"
  /\ writerThread = "none" => writer["first"].at = "none"
\* What CutsAreClean needs of the queues, until the endpoint is closed.
OrderInv == ChunksInv /\ HeardInv /\ FirstInv /\ AloneInv

\* A sentence that was queued for a player that has not ended is heard or waits; what the
\* writer is about to let go was heard.
WasHeard(s) == \E i \in 1..Len(heard) : heard[i][2] = s
Waits(s) == \/ \E i \in 1..Len(chunks) : chunks[i] = s
            \/ \E i \in 1..Len(pending) : pending[i] = s
KeptInv ==
  /\ \A s \in Sentence : pushedTo[s] \in ended \cup {NoPlayer} \/ WasHeard(s) \/ Waits(s)
  /\ writer["first"].at = "commit" => WasHeard(writer["first"].slice)

\* What TraceAccounted needs: the buffer holds a sentence once.
TraceInv ==
  /\ TraceAccounted
  /\ \A i, j \in 1..Len(paceBuffer) : paceBuffer[i] = paceBuffer[j] => i = j

\* The inductive invariant.
PlayInv == PlayTypes /\ WritersInv /\ (closer = "open" => OrderInv /\ KeptInv) /\ TraceInv

\* What the assumption on the constants says of sentences and threads.
LEMMA SentenceFacts ==
  /\ MaxSaid \in Nat /\ Sentence \subseteq Nat /\ NoPlayer \notin Nat /\ 0 \notin Sentence
  /\ "first" \in Writers /\ "second" \in Writers /\ Writers \subseteq Cutters
  /\ \A w \in Writers : w \in {"first", "second"}
BY PlaybackAssumption DEF Sentence, Writers, Cutters

\* The fields of a writer.
LEMMA StateFacts ==
  ASSUME NEW x \in WriterStates
  PROVE  x.at \in Places /\ x.proc \in Nat \cup {NoPlayer} /\ x.gen \in Nat /\ x.slice \in Nat
BY DEF WriterStates

\* An idle writer, and one that has just started.
LEMMA IdleFacts ==
  /\ IdleWriter \in WriterStates /\ IdleWriter.at = "none"
  /\ [IdleWriter EXCEPT !.at = "look"] \in WriterStates
  /\ [IdleWriter EXCEPT !.at = "look"].at = "look"
BY DEF IdleWriter, WriterStates, Places

\* A writer that goes on keeps its player, generation and slice.
LEMMA MovedState ==
  ASSUME NEW x \in WriterStates, NEW place \in Places
  PROVE  /\ [x EXCEPT !.at = place] \in WriterStates
         /\ [x EXCEPT !.at = place].at = place /\ [x EXCEPT !.at = place].proc = x.proc
         /\ [x EXCEPT !.at = place].gen = x.gen /\ [x EXCEPT !.at = place].slice = x.slice
BY DEF WriterStates

\* The head and the tail of a sequence that is not empty.
LEMMA HeadTail ==
  ASSUME NEW S, NEW s \in Seq(S), s # <<>>
  PROVE  /\ Head(s) \in S /\ Tail(s) \in Seq(S) /\ Len(s) \in Nat \ {0} /\ Len(Tail(s)) = Len(s) - 1
         /\ Head(s) = s[1] /\ \A i \in 1..Len(Tail(s)) : Tail(s)[i] = s[i + 1]
BY HeadTailProperties, LenProperties, EmptySeq

\* A cut leaves empty queues, the next generation and no player.
LEMMA CutTypes ==
  ASSUME PlayTypes, NEW t \in Cutters, Cut(t)
  PROVE  /\ chunks' \in Seq(Sentence) /\ pending' \in Seq(Sentence) /\ Len(pending') <= 1
         /\ generation' \in Nat /\ isPlaying' \in BOOLEAN /\ player' = NoPlayer
         /\ doom' \in [Cutters -> 1..started \cup {NoPlayer}]
<1>1. chunks' = <<>> /\ pending' = <<>> /\ isPlaying' = FALSE /\ player' = NoPlayer  BY DEF Cut
<1>2. <<>> \in Seq(Sentence) /\ Len(<<>>) = 0  BY EmptySeq
<1>3. doom' \in [Cutters -> 1..started \cup {NoPlayer}]
  <2>1. doom \in [Cutters -> 1..started \cup {NoPlayer}]  BY DEF PlayTypes
  <2>2. player \in 1..started \cup {NoPlayer}  BY DEF PlayTypes, PlaybackTypeOK
  <2>3. doom' = [doom EXCEPT ![t] = player]  BY DEF Cut
  <2> QED  BY <2>1, <2>2, <2>3
<1>4. generation' \in Nat  BY DEF Cut, PlayTypes, PlaybackTypeOK
<1>5. Len(pending') <= 1  BY <1>1, <1>2
<1>6. chunks' \in Seq(Sentence) /\ pending' \in Seq(Sentence)  BY <1>1, <1>2
<1> QED  BY <1>1, <1>3, <1>4, <1>5, <1>6
\* The types, a group of variables each.
SpeakTypes ==
  /\ said \in 0..MaxSaid /\ interrupted \in BOOLEAN
  /\ talk \in {"idle", "check", "synth", "play", "open", "verify", "mismatch", "push", "pace"}
  /\ Handing => said \in Sentence
  /\ talk = "synth" => said < MaxSaid
PaceTypes ==
  /\ paceBuffer \in Seq(Sentence) /\ traced \subseteq Sentence /\ untraced \subseteq Sentence
  /\ pacer \in {"none", "look", "take"} /\ paceStop \in BOOLEAN
QueueTypes ==
  /\ player \in 1..started \cup {NoPlayer} /\ doom \in [Cutters -> 1..started \cup {NoPlayer}]
  /\ chunks \in Seq(Sentence) /\ pending \in Seq(Sentence) /\ Len(pending) <= 1
  /\ generation \in Nat /\ isPlaying \in BOOLEAN
ChildTypes == started \in Nat /\ alive \subseteq 1..started /\ unreaped \subseteq 1..started
WriterTypes ==
  /\ writerThread \in Writers \cup {"none"} /\ writerStop \in BOOLEAN
  /\ writer \in [Writers -> WriterStates]
  /\ \A w \in Writers : Busy(w) => writer[w].slice \in Sentence /\ writer[w].proc \in Nat
HistoryTypes == pushedTo \in [Sentence -> Nat \cup {NoPlayer}] /\ heard \in Seq(Nat \X Sentence)
EndTypes == cooling \in BOOLEAN /\ closed \in BOOLEAN

\* The groups are all of PlayTypes.
LEMMA TypesSplit ==
  PlayTypes <=> /\ SpeakTypes /\ PaceTypes /\ QueueTypes /\ ChildTypes /\ WriterTypes
                /\ HistoryTypes /\ EndTypes
BY DEF PlayTypes, PlaybackTypeOK, SpeakTypes, PaceTypes, QueueTypes, ChildTypes, WriterTypes,
       HistoryTypes, EndTypes

\* No step disturbs the types of the speaking thread.
LEMMA SpeakTypesStep ==
  ASSUME PlayTypes, [PlaybackNext]_playbackVars
  PROVE  SpeakTypes'
<1> USE SentenceFacts
<1>0. SpeakTypes  BY TypesSplit
<1>1. CASE Speak \/ NextSentence
  BY <1>0, <1>1 DEF SpeakTypes, Speak, NextSentence, At, Handing
<1>2. CASE Synthesised
  <2>1. said \in 0..MaxSaid /\ talk = "synth" /\ said < MaxSaid /\ MaxSaid \in Nat
    BY <1>0, <1>2 DEF SpeakTypes, Synthesised
  <2>2. \/ talk' = "idle" /\ said' = said
        \/ talk' = "play" /\ said' = said + 1
    BY <1>2 DEF Synthesised
  <2>3. interrupted' = interrupted  BY <1>2 DEF Synthesised
  <2> QED  BY <1>0, <2>1, <2>2, <2>3 DEF SpeakTypes, Handing, Sentence
<1>3. CASE PlayLooks \/ PlayOpens \/ PlayVerified \/ MismatchHandled \/ PushSentence \/ PaceSentence
  <2>1. said' = said /\ interrupted' = interrupted
    BY <1>3 DEF PlayLooks, PlayOpens, PlayVerified, MismatchHandled, PushSentence, PaceSentence
  <2>2. talk \in {"play", "open", "verify", "mismatch", "push", "pace"}
    BY <1>3 DEF PlayLooks, PlayOpens, PlayVerified, MismatchHandled, PushSentence, PaceSentence, At
  <2>3. talk' \in {"open", "verify", "mismatch", "push", "pace", "check"}
    BY <1>3 DEF PlayLooks, PlayOpens, PlayVerified, MismatchHandled, PushSentence, PaceSentence
  <2> QED  BY <1>0, <2>1, <2>2, <2>3 DEF SpeakTypes, Handing
<1>4. CASE BargeIn
  BY <1>0, <1>4 DEF SpeakTypes, BargeIn, Handing
<1>5. CASE \/ PacerStep \/ CooledDown \/ EarStep \/ CloseCuts \/ CloserStep \/ UNCHANGED playbackVars
           \/ \E w \in Writers : WriterStep(w)
           \/ \E t \in Cutters : Kill(t)
           \/ \E p \in unreaped : Reap(p)
  <2>1. UNCHANGED voiceVars
    BY <1>5 DEF PacerStep, PacerLooks, PacerTakes, CooledDown, EarStep, EarStops, EarDrops, CloseCuts,
       CloserStep, CloseStopsWriter, CloseEnds, VoiceStops, VoiceDrops, playbackVars, WriterStep, WriterGoesOn,
       WriterLooks, WriterWrites, WriterCommits, WriterFails, WriterCools, Kill, Reap
  <2> QED  BY <1>0, <2>1 DEF SpeakTypes, voiceVars, Handing
<1> QED  BY <1>1, <1>2, <1>3, <1>4, <1>5 DEF PlaybackNext, SpeakerStep

\* No step disturbs the types of the trace.
LEMMA PaceTypesStep ==
  ASSUME PlayTypes, [PlaybackNext]_playbackVars
  PROVE  PaceTypes'
<1> USE SentenceFacts
<1>0. PaceTypes /\ SpeakTypes  BY TypesSplit
<1>1. {paceBuffer[i] : i \in DOMAIN paceBuffer} \subseteq Sentence /\ <<>> \in Seq(Sentence)
  BY <1>0 DEF PaceTypes
<1>2. CASE PaceSentence
  <2>1. said \in Sentence  BY <1>0, <1>2 DEF PaceSentence, SpeakTypes, Handing
  <2>2. Append(paceBuffer, said) \in Seq(Sentence)  BY <1>0, <2>1 DEF PaceTypes
  <2> QED  BY <1>0, <1>2, <2>1, <2>2 DEF PaceTypes, PaceSentence
<1>3. CASE PacerLooks
  BY <1>0, <1>1, <1>3 DEF PaceTypes, PacerLooks, DropPace
<1>4. CASE PacerTakes
  <2>1. paceBuffer # <<>> => Head(paceBuffer) \in Sentence /\ Tail(paceBuffer) \in Seq(Sentence)
    BY <1>0, HeadTail DEF PaceTypes
  <2> QED  BY <1>0, <1>4, <2>1 DEF PaceTypes, PacerTakes
<1>5. CASE EarDrops \/ VoiceDrops
  BY <1>0, <1>1, <1>5 DEF PaceTypes, EarDrops, VoiceDrops, DropPace
<1>6. CASE VoiceStops
  BY <1>0, <1>6 DEF PaceTypes, VoiceStops
<1>7. CASE \/ Speak \/ NextSentence \/ Synthesised \/ PlayLooks \/ PlayOpens \/ PlayVerified
           \/ MismatchHandled \/ PushSentence \/ CooledDown \/ BargeIn \/ EarStops \/ CloseCuts
           \/ CloseStopsWriter \/ CloseEnds \/ UNCHANGED playbackVars
           \/ \E w \in Writers : WriterStep(w)
           \/ \E t \in Cutters : Kill(t)
           \/ \E p \in unreaped : Reap(p)
  <2>1. UNCHANGED paceVars
    BY <1>7 DEF Speak, NextSentence, Synthesised, PlayLooks, PlayOpens, PlayVerified, MismatchHandled,
       PushSentence, CooledDown, BargeIn, EarStops, CloseCuts, CloseStopsWriter, CloseEnds,
       playbackVars, WriterStep, WriterGoesOn, WriterLooks, WriterWrites, WriterCommits, WriterFails, WriterCools, Kill, Reap
  <2> QED  BY <1>0, <2>1 DEF PaceTypes, paceVars
<1> QED
  BY <1>2, <1>3, <1>4, <1>5, <1>6, <1>7 DEF PlaybackNext, SpeakerStep, PacerStep, EarStep, CloserStep

\* No step disturbs the types of the players, and their number only grows.
LEMMA ChildTypesStep ==
  ASSUME PlayTypes, [PlaybackNext]_playbackVars
  PROVE  ChildTypes' /\ started <= started'
<1>0. ChildTypes /\ WriterTypes /\ QueueTypes  BY TypesSplit
<1>1. CASE PlayOpens
  <2>1. UNCHANGED unreaped /\ \/ started' = started + 1 /\ alive' = alive \cup {started'}
                              \/ UNCHANGED <<started, alive>>
    BY <1>1 DEF PlayOpens
  <2>2. started \in Nat /\ alive \subseteq 1..started /\ unreaped \subseteq 1..started
    BY <1>0 DEF ChildTypes
  <2>3. started' \in Nat /\ started <= started'  BY <2>1, <2>2
  <2>4. 1..started \subseteq 1..started'  BY <2>2, <2>3
  <2>5. started' = started + 1 => started' \in 1..started'  BY <2>2
  <2> QED  BY <2>1, <2>2, <2>3, <2>4, <2>5 DEF ChildTypes
<1>2. ASSUME NEW t \in Cutters, Kill(t) PROVE ChildTypes' /\ started <= started'
  <2>1. doom[t] \in 1..started  BY <1>0, <1>2 DEF QueueTypes, Kill
  <2>2. started' = started /\ alive' \subseteq alive /\ unreaped' \subseteq unreaped \cup {doom[t]}
    BY <1>2 DEF Kill
  <2>3. started <= started  BY <1>0 DEF ChildTypes
  <2> QED  BY <1>0, <2>1, <2>2, <2>3 DEF ChildTypes
<1>3. ASSUME NEW p \in unreaped, Reap(p) PROVE ChildTypes' /\ started <= started'
  BY <1>0, <1>3 DEF ChildTypes, Reap
<1>4. ASSUME NEW w \in Writers, WriterWrites(w) PROVE ChildTypes' /\ started <= started'
  <2>1. alive' \subseteq alive /\ UNCHANGED <<started, unreaped>>
    BY <1>4 DEF WriterWrites
  <2> QED  BY <1>0, <2>1 DEF ChildTypes
<1>5. CASE \/ Speak \/ NextSentence \/ Synthesised \/ PlayLooks \/ PlayVerified \/ MismatchHandled
           \/ PushSentence \/ PaceSentence \/ PacerStep \/ CooledDown \/ BargeIn \/ EarStep \/ CloseCuts
           \/ CloserStep \/ UNCHANGED playbackVars
           \/ \E w \in Writers : WriterLooks(w) \/ WriterCommits(w) \/ WriterFails(w) \/ WriterCools(w)
  <2>1. UNCHANGED childVars
    BY <1>5 DEF Speak, NextSentence, Synthesised, PlayLooks, PlayVerified, MismatchHandled,
       PushSentence, PaceSentence, PacerStep, PacerLooks, PacerTakes, CooledDown, BargeIn, EarStep,
       EarStops, EarDrops, CloseCuts, CloserStep, CloseStopsWriter, CloseEnds, VoiceStops, VoiceDrops,
       playbackVars, WriterLooks, WriterCommits, WriterFails, WriterCools
  <2> QED  BY <1>0, <2>1 DEF ChildTypes, childVars
<1> QED
  BY <1>1, <1>2, <1>3, <1>4, <1>5 DEF PlaybackNext, SpeakerStep, WriterStep, WriterGoesOn

\* No step disturbs the types of the cool-down and the end.
LEMMA EndTypesStep ==
  ASSUME PlayTypes, [PlaybackNext]_playbackVars
  PROVE  EndTypes'
<1>0. EndTypes  BY TypesSplit
<1>1. CASE PlayOpens \/ MismatchHandled \/ CooledDown \/ CloseEnds \/ \E w \in Writers : WriterCools(w)
  <2>1. cooling' \in {cooling, TRUE, FALSE} /\ closed' \in {closed, TRUE}
    BY <1>1 DEF PlayOpens, MismatchHandled, CooledDown, CloseEnds, WriterCools, actorVars
  <2> QED  BY <1>0, <2>1 DEF EndTypes
<1>2. CASE \/ Speak \/ NextSentence \/ Synthesised \/ PlayLooks \/ PlayVerified
           \/ PushSentence \/ PaceSentence \/ PacerStep \/ BargeIn \/ EarStep \/ CloseCuts
           \/ CloseStopsWriter \/ VoiceStops \/ VoiceDrops \/ UNCHANGED playbackVars
           \/ \E w \in Writers : WriterLooks(w) \/ WriterWrites(w) \/ WriterCommits(w) \/ WriterFails(w)
           \/ \E t \in Cutters : Kill(t)
           \/ \E p \in unreaped : Reap(p)
  <2>1. cooling' = cooling /\ closed' = closed
    BY <1>2 DEF Speak, NextSentence, Synthesised, PlayLooks, PlayVerified,
       PushSentence, PaceSentence, PacerStep, PacerLooks, PacerTakes, BargeIn, EarStep,
       EarStops, EarDrops, CloseCuts, CloseStopsWriter, VoiceStops, VoiceDrops,
       playbackVars, WriterLooks, WriterWrites, WriterCommits, WriterFails, Kill, Reap, actorVars
  <2> QED  BY <1>0, <2>1 DEF EndTypes
<1> QED
  BY <1>1, <1>2 DEF PlaybackNext, SpeakerStep, WriterStep, WriterGoesOn, CloserStep

\* No step disturbs the types of the queues.
LEMMA QueueTypesStep ==
  ASSUME PlayTypes, [PlaybackNext]_playbackVars
  PROVE  QueueTypes'
<1> USE SentenceFacts
<1>0. QueueTypes /\ ChildTypes /\ SpeakTypes  BY TypesSplit
<1>1. started' \in Nat /\ 1..started \subseteq 1..started'
  BY <1>0, ChildTypesStep DEF ChildTypes
<1>2. ASSUME NEW t \in Cutters, Cut(t) PROVE QueueTypes'
  BY <1>1, <1>2, CutTypes DEF QueueTypes
<1>3. CASE PlayOpens
  <2>1. UNCHANGED <<doom, chunks, pending, generation, isPlaying>>
    BY <1>3 DEF PlayOpens
  <2>2. player' = player \/ (player' = started' /\ started' = started + 1)
    BY <1>3 DEF PlayOpens
  <2>3. player' \in 1..started' \cup {NoPlayer}
    BY <1>0, <1>1, <2>2 DEF QueueTypes, ChildTypes
  <2> QED  BY <1>0, <1>1, <2>1, <2>3 DEF QueueTypes
<1>4. CASE PlayVerified
  BY <1>0, <1>1, <1>2, <1>4 DEF PlayVerified, QueueTypes, queueVars, Cutters
<1>5. CASE PushSentence
  <2>1. UNCHANGED <<player, doom, pending, generation>>  BY <1>5 DEF PushSentence
  <2>2. said \in Sentence  BY <1>0, <1>5 DEF PushSentence, SpeakTypes, Handing
  <2>3. chunks' \in {chunks, Append(chunks, said)} /\ isPlaying' \in {isPlaying, TRUE}
    BY <1>5 DEF PushSentence
  <2>4. chunks \in Seq(Sentence) /\ isPlaying \in BOOLEAN  BY <1>0 DEF QueueTypes
  <2>5. Append(chunks, said) \in Seq(Sentence)  BY <2>2, <2>4
  <2>6. chunks' \in Seq(Sentence)  BY <2>3, <2>4, <2>5
  <2>7. isPlaying' \in BOOLEAN  BY <2>3, <2>4
  <2> QED  BY <1>0, <1>1, <2>1, <2>6, <2>7 DEF QueueTypes
<1>6. ASSUME NEW w \in Writers, WriterLooks(w) PROVE QueueTypes'
  <2>1. UNCHANGED <<player, doom, generation, isPlaying>>  BY <1>6 DEF WriterLooks
  <2>2. \/ UNCHANGED <<chunks, pending>>
        \/ chunks # <<>> /\ pending' = <<Head(chunks)>> /\ chunks' = Tail(chunks)
    BY <1>6 DEF WriterLooks
  <2>3. chunks' \in Seq(Sentence) /\ pending' \in Seq(Sentence) /\ Len(pending') <= 1
    <3>1. chunks # <<>> => Head(chunks) \in Sentence /\ Tail(chunks) \in Seq(Sentence)
      BY <1>0, HeadTail DEF QueueTypes
    <3>2. chunks \in Seq(Sentence) /\ pending \in Seq(Sentence) /\ Len(pending) <= 1  BY <1>0 DEF QueueTypes
    <3>3. CASE UNCHANGED <<chunks, pending>>  BY <3>2, <3>3
    <3>4. CASE chunks # <<>> /\ pending' = <<Head(chunks)>> /\ chunks' = Tail(chunks)
      <4> DEFINE first == Head(chunks)
      <4>1. first \in Sentence  BY <3>1, <3>4
      <4> HIDE DEF first
      <4>2. <<first>> \in Seq(Sentence) /\ Len(<<first>>) = 1  BY <4>1
      <4> QED  BY <3>1, <3>4, <4>2 DEF first
    <3> QED  BY <2>2, <3>3, <3>4
  <2> QED  BY <1>0, <1>1, <2>1, <2>3 DEF QueueTypes
<1>7. ASSUME NEW w \in Writers, WriterCommits(w) PROVE QueueTypes'
  <2>1. UNCHANGED <<player, doom, generation, chunks>>  BY <1>7 DEF WriterCommits
  <2>2. pending' = pending \/ (pending # <<>> /\ pending' = Tail(pending))
    BY <1>7 DEF WriterCommits
  <2>3. isPlaying' \in BOOLEAN  BY <1>7 DEF WriterCommits
  <2>4. pending' \in Seq(Sentence) /\ Len(pending') <= 1
    <3>1. pending \in Seq(Sentence) /\ Len(pending) <= 1  BY <1>0 DEF QueueTypes
    <3>2. pending # <<>> => Tail(pending) \in Seq(Sentence) /\ Len(Tail(pending)) = Len(pending) - 1 /\ Len(pending) \in Nat
      BY <3>1, HeadTail
    <3> QED  BY <2>2, <3>1, <3>2
  <2> QED  BY <1>0, <1>1, <2>1, <2>3, <2>4 DEF QueueTypes
<1>8. ASSUME NEW w \in Writers, WriterFails(w) PROVE QueueTypes'
  <2>1. w \in Cutters /\ (UNCHANGED queueVars \/ Cut(w))  BY <1>8 DEF WriterFails, WriterCools
  <2> QED  BY <1>0, <1>1, <1>2, <2>1 DEF QueueTypes, queueVars
<1>9. CASE EarStops \/ CloseCuts
  <2>1. Cut("ear") \/ Cut("closer")  BY <1>9 DEF EarStops, CloseCuts
  <2> QED  BY <1>2, <2>1 DEF Cutters
<1>10. ASSUME NEW t \in Cutters, Kill(t) PROVE QueueTypes'
  <2>1. doom' = [doom EXCEPT ![t] = NoPlayer] /\ UNCHANGED <<player, chunks, pending, generation, isPlaying>>
    BY <1>10 DEF Kill
  <2>2. doom' \in [Cutters -> 1..started' \cup {NoPlayer}]
    BY <1>0, <1>1, <2>1 DEF QueueTypes
  <2> QED  BY <1>0, <1>1, <2>1, <2>2 DEF QueueTypes
<1>11. CASE \/ Speak \/ NextSentence \/ Synthesised \/ PlayLooks \/ MismatchHandled
            \/ PaceSentence \/ PacerStep \/ CooledDown \/ BargeIn \/ EarDrops
            \/ CloserStep \/ UNCHANGED playbackVars
            \/ \E w \in Writers : WriterWrites(w) \/ WriterCools(w)
            \/ \E p \in unreaped : Reap(p)
  <2>1. UNCHANGED queueVars
    BY <1>11 DEF Speak, NextSentence, Synthesised, PlayLooks, MismatchHandled,
       PaceSentence, PacerStep, PacerLooks, PacerTakes, CooledDown, BargeIn, EarDrops,
       CloserStep, CloseStopsWriter, CloseEnds, VoiceStops, VoiceDrops, playbackVars, WriterWrites,
       WriterCools, Reap
  <2> QED  BY <1>0, <1>1, <2>1 DEF QueueTypes, queueVars
<1> QED
  BY <1>3, <1>4, <1>5, <1>6, <1>7, <1>8, <1>9, <1>10, <1>11 DEF PlaybackNext, SpeakerStep, WriterStep, WriterGoesOn, EarStep

\* What an update of one writer leaves.
LEMMA WriterSet ==
  ASSUME WriterTypes, NEW w \in Writers, NEW x \in WriterStates, writer' = [writer EXCEPT ![w] = x]
  PROVE  writer' \in [Writers -> WriterStates] /\ \A v \in Writers : writer'[v] = IF v = w THEN x ELSE writer[v]
BY DEF WriterTypes

\* What a move of one writer leaves.
LEMMA WriterMoves ==
  ASSUME WriterTypes, NEW w \in Writers, NEW place \in Places, writer' = [writer EXCEPT ![w].at = place]
  PROVE  /\ writer' \in [Writers -> WriterStates]
         /\ \A v \in Writers \ {w} : writer'[v] = writer[v]
         /\ writer'[w].at = place /\ writer'[w].proc = writer[w].proc
         /\ writer'[w].gen = writer[w].gen /\ writer'[w].slice = writer[w].slice
<1> DEFINE x == [writer[w] EXCEPT !.at = place]
<1>1. writer[w] \in WriterStates  BY DEF WriterTypes
<1>2. /\ x \in WriterStates /\ x.at = place /\ x.proc = writer[w].proc
      /\ x.gen = writer[w].gen /\ x.slice = writer[w].slice
  BY <1>1, MovedState
<1>3. writer' = [writer EXCEPT ![w] = x]  OBVIOUS
<1> HIDE DEF x
<1> QED  BY <1>2, <1>3, WriterSet

\* A writer that looks takes the first slice, the player and the generation together.
LEMMA WriterTakes ==
  ASSUME WriterTypes, QueueTypes, NEW w \in Writers, WriterLooks(w), writer[w].at = "look", writerStop = FALSE
  PROVE  \E x \in WriterStates :
           /\ x.at = "write" /\ x.proc = player /\ player # NoPlayer /\ x.gen = generation
           /\ x.slice \in Sentence /\ x.slice = Head(pending') /\ writer' = [writer EXCEPT ![w] = x]
           /\ \/ pending # <<>> /\ UNCHANGED <<chunks, pending>>
              \/ /\ pending = <<>> /\ chunks # <<>> 
                 /\ pending' = <<Head(chunks)>> /\ chunks' = Tail(chunks)
<1> DEFINE x == [at |-> "write", proc |-> player, gen |-> generation, slice |-> Head(pending')]
<1>1. /\ player # NoPlayer /\ writer' = [writer EXCEPT ![w] = x]
      /\ \/ pending # <<>> /\ UNCHANGED <<chunks, pending>>
         \/ /\ pending = <<>> /\ chunks # <<>> 
            /\ pending' = <<Head(chunks)>> /\ chunks' = Tail(chunks)
  BY DEF WriterLooks
<1>2. Head(pending') \in Sentence
  <2>1. chunks # <<>> => Head(chunks) \in Sentence  BY HeadTail DEF QueueTypes
  <2>2. pending # <<>> => Head(pending) \in Sentence  BY HeadTail DEF QueueTypes
  <2>3. Head(<<Head(chunks)>>) = Head(chunks)  OBVIOUS
  <2> QED  BY <1>1, <2>1, <2>2, <2>3
<1>3. x \in WriterStates
  <2>1. generation \in Nat /\ player \in Nat  BY <1>1 DEF QueueTypes
  <2> QED  BY <1>2, <2>1, SentenceFacts DEF WriterStates, Places
<1>4. x.at = "write" /\ x.proc = player /\ x.gen = generation /\ x.slice = Head(pending')  OBVIOUS
<1> HIDE DEF x
<1> QED  BY <1>1, <1>2, <1>3, <1>4

\* A start leaves every busy writer alone.
LEMMA StartWriterFacts ==
  ASSUME WriterTypes, StartWriter
  PROVE  /\ WriterTypes'
         /\ \A w \in Writers : writer'[w] = writer[w] \/ (writer[w].at = "none" /\ writer'[w].at = "look")
         /\ \/ UNCHANGED writerVars
            \/ /\ writerThread = "none" /\ writerStop' = FALSE
               /\ \E w \in Writers :
                    /\ writer[w].at = "none" /\ (w = "second" => writer["first"].at # "none")
                    /\ writerThread' = w /\ \A v \in Writers \ {w} : writer'[v] = writer[v]
<1>1. CASE UNCHANGED writerVars
  BY <1>1 DEF writerVars, WriterTypes, Busy
<1>2. CASE writerThread = "none"
  <2> DEFINE x == [IdleWriter EXCEPT !.at = "look"]
  <2>1. PICK w \in Writers :
          /\ writer[w].at = "none" /\ (w = "second" => writer["first"].at # "none")
          /\ writerThread' = w /\ writerStop' = FALSE
          /\ writer' = [writer EXCEPT ![w] = x]
    BY <1>2 DEF StartWriter
  <2>2. x \in WriterStates /\ x.at = "look"  BY IdleFacts
  <2> HIDE DEF x
  <2>3. writer' \in [Writers -> WriterStates] /\ \A v \in Writers : writer'[v] = IF v = w THEN x ELSE writer[v]
    BY <2>1, <2>2, WriterSet
  <2>4. \A v \in Writers : Busy(v)' => writer'[v] = writer[v] /\ Busy(v)
    BY <2>2, <2>3 DEF Busy
  <2>5. WriterTypes'
    BY <2>1, <2>3, <2>4 DEF WriterTypes
  <2> QED  BY <1>2, <2>1, <2>2, <2>3, <2>5
<1> QED  BY <1>1, <1>2 DEF StartWriter

\* No step disturbs the types of the writers.
LEMMA WriterTypesStep ==
  ASSUME PlayTypes, [PlaybackNext]_playbackVars
  PROVE  WriterTypes'
<1> USE SentenceFacts
<1>0. WriterTypes /\ QueueTypes  BY TypesSplit
<1>1. CASE PlayOpens
  <2>1. StartWriter \/ UNCHANGED writerVars  BY <1>1 DEF PlayOpens
  <2> QED  BY <1>0, <2>1, StartWriterFacts DEF WriterTypes, writerVars, Busy
<1>2. ASSUME NEW w \in Writers, WriterLooks(w) PROVE WriterTypes'
  <2>1. UNCHANGED <<writerThread, writerStop>> /\ writer[w].at = "look"  BY <1>2 DEF WriterLooks
  <2>2. CASE writerStop
    <3>1. writer' = [writer EXCEPT ![w] = IdleWriter]  BY <1>2, <2>2 DEF WriterLooks
    <3>2. writer' \in [Writers -> WriterStates] /\ \A v \in Writers : writer'[v] = IF v = w THEN IdleWriter ELSE writer[v]
      BY <1>0, <3>1, WriterSet, IdleFacts
    <3> QED  BY <1>0, <2>1, <3>2, IdleFacts DEF WriterTypes, Busy
  <2>3. CASE writerStop = FALSE
    <3>1. PICK x \in WriterStates :
            /\ x.at = "write" /\ x.proc = player /\ player # NoPlayer
            /\ x.slice \in Sentence /\ writer' = [writer EXCEPT ![w] = x]
      BY <1>0, <1>2, <2>1, <2>3, WriterTakes
    <3>2. writer' \in [Writers -> WriterStates] /\ \A v \in Writers : writer'[v] = IF v = w THEN x ELSE writer[v]
      BY <1>0, <3>1, WriterSet
    <3>3. player \in Nat  BY <1>0, <3>1 DEF QueueTypes
    <3> QED  BY <1>0, <2>1, <3>1, <3>2, <3>3 DEF WriterTypes, Busy
  <2> QED  BY <1>0, <2>2, <2>3 DEF WriterTypes
<1>3. ASSUME NEW w \in Writers, WriterWrites(w) \/ WriterCommits(w) \/ WriterFails(w) \/ WriterCools(w)
      PROVE  WriterTypes'
  <2>1. PICK place \in {"commit", "failed", "look", "cool"} : writer' = [writer EXCEPT ![w].at = place]
    BY <1>3 DEF WriterWrites, WriterCommits, WriterFails, WriterCools
  <2>2. UNCHANGED <<writerThread, writerStop>> /\ (place \in {"commit", "failed"} => Busy(w))
    <3>1. UNCHANGED <<writerThread, writerStop>>
      BY <1>3 DEF WriterWrites, WriterCommits, WriterFails, WriterCools
    <3>2. CASE WriterWrites(w)  BY <3>1, <3>2 DEF WriterWrites, Busy
    <3>3. CASE WriterCommits(w) \/ WriterFails(w) \/ WriterCools(w)
      <4>1. writer'[w].at \in {"look", "cool"}
        <5>1. \E here \in {"look", "cool"} : writer' = [writer EXCEPT ![w].at = here]
          BY <3>3 DEF WriterCommits, WriterFails, WriterCools
        <5>2. {"look", "cool"} \subseteq Places  BY DEF Places
        <5> QED  BY <1>0, <5>1, <5>2, WriterMoves
      <4>2. writer'[w].at = place
        <5>1. place \in Places  BY DEF Places
        <5> QED  BY <1>0, <2>1, <5>1, WriterMoves
      <4> QED  BY <3>1, <4>1, <4>2
    <3> QED  BY <1>3, <3>2, <3>3
  <2>3. place \in Places  BY DEF Places
  <2>4. /\ writer' \in [Writers -> WriterStates]
        /\ \A v \in Writers \ {w} : writer'[v] = writer[v]
        /\ writer'[w].proc = writer[w].proc /\ writer'[w].slice = writer[w].slice
        /\ writer'[w].at = place
    BY <1>0, <2>1, <2>3, WriterMoves
  <2> QED  BY <1>0, <2>2, <2>4 DEF WriterTypes, Busy
<1>4. CASE CloseStopsWriter
  BY <1>0, <1>4 DEF WriterTypes, CloseStopsWriter, Busy
<1>5. CASE \/ Speak \/ NextSentence \/ Synthesised \/ PlayLooks \/ PlayVerified \/ MismatchHandled
           \/ PushSentence \/ PaceSentence \/ PacerStep \/ CooledDown \/ BargeIn \/ EarStep \/ CloseCuts
           \/ CloseEnds \/ VoiceStops \/ VoiceDrops \/ UNCHANGED playbackVars
           \/ \E t \in Cutters : Kill(t)
           \/ \E p \in unreaped : Reap(p)
  <2>1. UNCHANGED writerVars
    BY <1>5 DEF Speak, NextSentence, Synthesised, PlayLooks, PlayVerified, MismatchHandled,
       PushSentence, PaceSentence, PacerStep, PacerLooks, PacerTakes, CooledDown, BargeIn, EarStep,
       EarStops, EarDrops, CloseCuts, CloseEnds, VoiceStops, VoiceDrops, playbackVars, Kill, Reap
  <2> QED  BY <1>0, <2>1 DEF WriterTypes, writerVars, Busy
<1> QED
  BY <1>1, <1>2, <1>3, <1>4, <1>5 DEF PlaybackNext, SpeakerStep, WriterStep, WriterGoesOn, CloserStep

\* No step disturbs the types of what was heard.
LEMMA HistoryTypesStep ==
  ASSUME PlayTypes, [PlaybackNext]_playbackVars
  PROVE  HistoryTypes'
<1> USE SentenceFacts
<1>0. HistoryTypes /\ WriterTypes /\ QueueTypes /\ SpeakTypes /\ ChildTypes  BY TypesSplit
<1>1. CASE PushSentence
  <2>1. heard' = heard /\ (pushedTo' = pushedTo \/ pushedTo' = [pushedTo EXCEPT ![said] = player])
    BY <1>1 DEF PushSentence
  <2>2. player \in Nat \cup {NoPlayer}  BY <1>0 DEF QueueTypes
  <2> QED  BY <1>0, <2>1, <2>2 DEF HistoryTypes
<1>2. ASSUME NEW w \in Writers, WriterWrites(w) PROVE HistoryTypes'
  <2>1. pushedTo' = pushedTo /\ (heard' = heard \/ heard' = Append(heard, <<writer[w].proc, writer[w].slice>>))
    BY <1>2 DEF WriterWrites
  <2>2. <<writer[w].proc, writer[w].slice>> \in Nat \X Sentence
    BY <1>0, <1>2 DEF WriterTypes, WriterWrites, Busy
  <2>3. heard' \in Seq(Nat \X Sentence)
    <3> DEFINE e == <<writer[w].proc, writer[w].slice>>
    <3>1. heard \in Seq(Nat \X Sentence) /\ e \in Nat \X Sentence  BY <1>0, <2>2 DEF HistoryTypes
    <3> HIDE DEF e
    <3>2. Append(heard, e) \in Seq(Nat \X Sentence)  BY <3>1
    <3> QED  BY <2>1, <3>1, <3>2 DEF e
  <2> QED  BY <1>0, <2>1, <2>3 DEF HistoryTypes
<1>3. CASE \/ Speak \/ NextSentence \/ Synthesised \/ PlayLooks \/ PlayOpens \/ PlayVerified
           \/ MismatchHandled \/ PaceSentence \/ PacerStep \/ CooledDown \/ BargeIn \/ EarStep
           \/ CloseCuts \/ CloserStep \/ UNCHANGED playbackVars
           \/ \E w \in Writers : WriterLooks(w) \/ WriterCommits(w) \/ WriterFails(w) \/ WriterCools(w)
           \/ \E t \in Cutters : Kill(t)
           \/ \E p \in unreaped : Reap(p)
  <2>1. UNCHANGED <<heard, pushedTo>>
    BY <1>3 DEF Speak, NextSentence, Synthesised, PlayLooks, PlayOpens, PlayVerified, MismatchHandled,
       PaceSentence, PacerStep, PacerLooks, PacerTakes, CooledDown, BargeIn, EarStep, EarStops, EarDrops,
       CloseCuts, CloserStep, CloseStopsWriter, CloseEnds, VoiceStops, VoiceDrops, playbackVars,
       WriterLooks, WriterCommits, WriterFails, WriterCools, Kill, Reap, historyVars
  <2> QED  BY <1>0, <2>1 DEF HistoryTypes
<1> QED
  BY <1>1, <1>2, <1>3 DEF PlaybackNext, SpeakerStep, WriterStep, WriterGoesOn

\* No step disturbs a type.
LEMMA PlayTypesStep ==
  ASSUME PlayTypes, [PlaybackNext]_playbackVars
  PROVE  PlayTypes'
<1>1. /\ SpeakTypes' /\ PaceTypes' /\ QueueTypes' /\ ChildTypes' /\ WriterTypes'
      /\ HistoryTypes' /\ EndTypes'
  BY SpeakTypesStep, PaceTypesStep, QueueTypesStep, ChildTypesStep, WriterTypesStep,
     HistoryTypesStep, EndTypesStep
<1> QED  BY <1>1, TypesSplit, PTL

\* A sentence that was queued is queued for ever: the next in hand has another number.
LEMMA QueuedStays ==
  ASSUME PlayTypes, [PlaybackNext]_playbackVars
  PROVE  \A s \in Sentence : Queued(s) => s \in 1..said' /\ (Unpushed' => s # said')
<1> USE SentenceFacts DEF Queued, Unpushed
<1>0. SpeakTypes  BY TypesSplit
<1>1. CASE Synthesised
  <2>1. said \in Nat /\ talk' \in {"idle", "play"}  BY <1>0, <1>1 DEF SpeakTypes, Synthesised
  <2>2. said' = said + 1 \/ (said' = said /\ talk' = "idle")  BY <1>1 DEF Synthesised
  <2> QED  BY <2>1, <2>2
<1>2. CASE Speak \/ NextSentence
  BY <1>2 DEF Speak, NextSentence, At
<1>3. CASE PlayLooks \/ PlayOpens \/ PlayVerified \/ MismatchHandled \/ PushSentence \/ PaceSentence
  <2>1. said' = said
    BY <1>3 DEF PlayLooks, PlayOpens, PlayVerified, MismatchHandled, PushSentence, PaceSentence
  <2>2. talk \in {"play", "open", "verify", "mismatch", "push"} \/ talk' = "check"
    BY <1>3 DEF PlayLooks, PlayOpens, PlayVerified, MismatchHandled, PushSentence, PaceSentence, At
  <2> QED  BY <2>1, <2>2
<1>4. CASE \/ PacerStep \/ CooledDown \/ EarStep \/ CloseCuts \/ CloserStep \/ UNCHANGED playbackVars
           \/ BargeIn
           \/ \E w \in Writers : WriterStep(w)
           \/ \E t \in Cutters : Kill(t)
           \/ \E p \in unreaped : Reap(p)
  <2>1. said' = said /\ talk' = talk
    BY <1>4 DEF PacerStep, PacerLooks, PacerTakes, CooledDown, EarStep, EarStops, EarDrops, CloseCuts,
       CloserStep, CloseStopsWriter, CloseEnds, VoiceStops, VoiceDrops, playbackVars, WriterStep, WriterGoesOn,
       WriterLooks, WriterWrites, WriterCommits, WriterFails, WriterCools, Kill, Reap, BargeIn, voiceVars
  <2> QED  BY <2>1
<1> QED  BY <1>1, <1>2, <1>3, <1>4 DEF PlaybackNext, SpeakerStep

\* No step takes a fault back, or the end of a player.
LEMMA PastStays ==
  ASSUME [PlaybackNext]_playbackVars
  PROVE  (faulted => faulted') /\ ended \subseteq ended'
<1>1. CASE PlayOpens \/ PlayVerified \/ BargeIn \/ EarStops \/ CloseCuts
  BY <1>1 DEF PlayOpens, PlayVerified, BargeIn, EarStops, CloseCuts, faultVars, historyVars, Fault
<1>3. ASSUME NEW w \in Writers, WriterWrites(w) PROVE (faulted => faulted') /\ ended \subseteq ended'
  <2>1. \/ UNCHANGED <<ended, faultVars>>
        \/ ended' = ended \cup {writer[w].proc} /\ (faulted' = (faulted \/ ~(player # writer[w].proc)) \/ Fault)
    BY <1>3, Zenon DEF WriterWrites
  <2>2. faulted => faulted'  BY <2>1, Zenon DEF faultVars, Fault
  <2> QED  BY <2>1, <2>2
<1>2. CASE \/ Speak \/ NextSentence \/ Synthesised \/ PlayLooks \/ MismatchHandled \/ PushSentence
           \/ PaceSentence \/ PacerStep \/ CooledDown \/ EarDrops \/ CloserStep \/ UNCHANGED playbackVars
           \/ \E w \in Writers : WriterGoesOn(w)
           \/ \E t \in Cutters : Kill(t)
           \/ \E p \in unreaped : Reap(p)
  BY <1>2 DEF Speak, NextSentence, Synthesised, PlayLooks, MismatchHandled, PushSentence, PaceSentence,
     PacerStep, PacerLooks, PacerTakes, CooledDown, EarDrops, CloserStep, CloseStopsWriter, CloseEnds,
     VoiceStops, VoiceDrops, playbackVars, WriterGoesOn, WriterLooks, WriterCommits, WriterFails,
     WriterCools, Kill, Reap, faultVars, historyVars
<1> QED  BY <1>1, <1>2, <1>3 DEF PlaybackNext, SpeakerStep, WriterStep, EarStep

\* Steps that leave writers, generation and player alone.
LEMMA WritersQuiet ==
  ASSUME WritersInv, UNCHANGED <<writer, generation, player>>, faulted => faulted', ended \subseteq ended',
         cooling' => cooling \/ faulted', talk' = "open" => talk = "open" \/ player = NoPlayer,
         talk' = "mismatch" => talk = "mismatch"
  PROVE  WritersInv'
BY DEF WritersInv, Busy

\* A cut makes every slice in hand one of an older generation.
LEMMA WritersCut ==
  ASSUME PlayTypes, WritersInv, NEW t \in Cutters, Cut(t), ended \subseteq ended',
         cooling' \/ talk' = "mismatch" => faulted',
         \A w \in Writers : Busy(w)' => Busy(w) /\ writer'[w] = writer[w],
         \A w \in Writers : writer'[w].at = "cool" => faulted'
  PROVE  WritersInv'
<1>1. player' = NoPlayer /\ generation' = generation + 1 /\ generation \in Nat
  BY DEF Cut, PlayTypes, PlaybackTypeOK
<1>2. \A w \in Writers : writer[w].gen \in Nat  BY DEF PlayTypes, WriterStates
<1>3. \A w \in Writers : Busy(w)' => writer'[w].gen <= generation' /\ writer'[w].gen # generation'
  BY <1>1, <1>2 DEF WritersInv
<1>4. \A w \in Writers : writer'[w].at = "failed" => writer'[w].proc \in ended'
  BY DEF WritersInv, Busy
<1> QED  BY <1>1, <1>3, <1>4 DEF WritersInv

\* No step disturbs WritersInv.
LEMMA WritersStep ==
  ASSUME PlayTypes, WritersInv, [PlaybackNext]_playbackVars
  PROVE  WritersInv'
<1> USE SentenceFacts
<1>0. WriterTypes /\ QueueTypes  BY TypesSplit
<1>a. (faulted => faulted') /\ ended \subseteq ended'  BY PastStays
<1>1. CASE PlayOpens
  <2>1. generation' = generation /\ talk' \notin {"open", "mismatch"} /\ player = NoPlayer
    BY <1>1 DEF PlayOpens, WritersInv
  <2>2. cooling' => faulted'  BY <1>1 DEF PlayOpens, WritersInv, faultVars, Fault
  <2>3. \A w \in Writers : Busy(w)' => Busy(w) /\ writer'[w] = writer[w]
    <3>1. StartWriter \/ UNCHANGED writerVars  BY <1>1 DEF PlayOpens
    <3> QED  BY <1>0, <3>1, StartWriterFacts DEF Busy, writerVars
  <2>5. \A w \in Writers : writer'[w].at = "cool" => writer[w].at = "cool"
    <3>1. StartWriter \/ UNCHANGED writerVars  BY <1>1 DEF PlayOpens
    <3> QED  BY <1>0, <3>1, StartWriterFacts DEF writerVars
  <2>4. \A w \in Writers : Busy(w) => writer[w].gen <= generation /\ writer[w].gen # generation
    BY <1>0, <2>1 DEF WritersInv, WriterTypes
  <2> QED  BY <1>a, <2>1, <2>2, <2>3, <2>4, <2>5 DEF WritersInv, Busy
<1>2. CASE PlayVerified
  <2>1. UNCHANGED <<writer, cooling>> /\ talk' # "open"  BY <1>2 DEF PlayVerified, writerVars
  <2>2. CASE Cut("speaker") /\ faulted' = TRUE
    BY <1>a, <2>1, <2>2, WritersCut DEF Cutters, Busy
  <2>3. CASE UNCHANGED queueVars /\ talk' = "push"
    BY <1>a, <2>1, <2>3, WritersQuiet DEF queueVars
  <2> QED  BY <1>2, <2>2, <2>3 DEF PlayVerified, Fault
<1>3. ASSUME NEW w \in Writers, WriterLooks(w) PROVE WritersInv'
  <2>1. UNCHANGED <<generation, player, cooling, faulted, talk, writerStop>> /\ writer[w].at = "look"
    BY <1>3 DEF WriterLooks, voiceVars, faultVars
  <2>2. CASE writerStop
    <3>1. writer' = [writer EXCEPT ![w] = IdleWriter]  BY <1>3, <2>2 DEF WriterLooks
    <3>2. \A v \in Writers : writer'[v] = IF v = w THEN IdleWriter ELSE writer[v]
      BY <1>0, <3>1, WriterSet, IdleFacts
    <3> QED  BY <1>a, <2>1, <3>2, IdleFacts DEF WritersInv, Busy
  <2>3. CASE writerStop = FALSE
    <3>1. PICK x \in WriterStates :
            /\ x.at = "write" /\ x.proc = player /\ x.gen = generation
            /\ writer' = [writer EXCEPT ![w] = x]
      BY <1>0, <1>3, <2>1, <2>3, WriterTakes
    <3>2. \A v \in Writers : writer'[v] = IF v = w THEN x ELSE writer[v]
      BY <1>0, <3>1, WriterSet
    <3>3. generation <= generation  BY <1>0 DEF QueueTypes
    <3> QED  BY <1>a, <2>1, <3>1, <3>2, <3>3 DEF WritersInv, Busy
  <2> QED  BY <1>0, <2>2, <2>3 DEF WriterTypes
<1>4. ASSUME NEW w \in Writers, WriterWrites(w) PROVE WritersInv'
  <2>1. UNCHANGED <<generation, player, cooling, talk>> /\ writer[w].at = "write" /\ Busy(w)
    BY <1>4 DEF WriterWrites, voiceVars, queueVars, Busy
  <2>2. PICK place \in {"commit", "failed"} :
          /\ writer' = [writer EXCEPT ![w].at = place]
          /\ place = "failed" => player # writer[w].proc \/ faulted'
          /\ place = "failed" => writer[w].proc \in ended'
    BY <1>4 DEF WriterWrites, Fault
  <2>3. place \in Places  BY DEF Places
  <2>4. /\ \A v \in Writers \ {w} : writer'[v] = writer[v]
        /\ writer'[w].at = place /\ writer'[w].proc = writer[w].proc /\ writer'[w].gen = writer[w].gen
    BY <1>0, <2>2, <2>3, WriterMoves
  <2> QED  BY <1>a, <2>1, <2>2, <2>4 DEF WritersInv, Busy
<1>5. ASSUME NEW w \in Writers, WriterCommits(w) \/ WriterFails(w) \/ WriterCools(w) PROVE WritersInv'
  <2>1. PICK place \in {"look", "cool"} :
          /\ writer' = [writer EXCEPT ![w].at = place] /\ UNCHANGED <<talk, faulted>> /\ w \in Cutters
          /\ place = "cool" => WriterFails(w) /\ writer[w].gen = generation
    BY <1>5 DEF WriterCommits, WriterFails, WriterCools, voiceVars, faultVars
  <2>2. place \in Places  BY DEF Places
  <2>3. (\A v \in Writers \ {w} : writer'[v] = writer[v]) /\ writer'[w].at = place
    BY <1>0, <2>1, <2>2, WriterMoves
  <2>4. \A v \in Writers : Busy(v)' => Busy(v) /\ writer'[v] = writer[v]
    BY <2>3 DEF Busy
  <2>5. CASE UNCHANGED <<player, generation>> /\ place = "look" /\ (cooling' => cooling \/ faulted)
    BY <1>a, <2>1, <2>3, <2>4, <2>5 DEF WritersInv, Busy
  <2>6. CASE WriterFails(w) /\ writer[w].gen = generation
    <3>1. Cut(w) /\ faulted /\ faulted' /\ UNCHANGED talk
      BY <1>a, <2>6 DEF WriterFails, WritersInv, Busy, voiceVars
    <3> QED  BY <1>a, <2>1, <2>4, <3>1, WritersCut
  <2>7. WriterFails(w) /\ writer[w].gen # generation => UNCHANGED <<player, generation, cooling>> /\ place = "look"
    BY <2>1 DEF WriterFails, queueVars
  <2>9. WriterCools(w) => UNCHANGED <<player, generation>> /\ place = "look" /\ faulted
    <3>1. SUFFICES ASSUME WriterCools(w) PROVE UNCHANGED <<player, generation>> /\ place = "look" /\ faulted
      OBVIOUS
    <3>2. writer[w].at = "cool" /\ UNCHANGED <<player, generation>>  BY <3>1 DEF WriterCools, queueVars
    <3>3. ~WriterFails(w)  BY <3>2 DEF WriterFails
    <3> QED  BY <2>1, <3>2, <3>3 DEF WritersInv
  <2>8. WriterCommits(w) => UNCHANGED <<player, generation, cooling>> /\ place = "look"
    <3>1. WriterCommits(w) => ~WriterFails(w)  BY DEF WriterCommits, WriterFails
    <3> QED  BY <2>1, <3>1 DEF WriterCommits
  <2> QED  BY <1>5, <2>5, <2>6, <2>7, <2>8, <2>9
<1>6. CASE EarStops \/ CloseCuts
  <2>1. UNCHANGED <<writer, cooling, faulted, talk>> /\ (Cut("ear") \/ Cut("closer"))
    BY <1>6 DEF EarStops, CloseCuts, writerVars, voiceVars, faultVars
  <2> QED  BY <1>a, <2>1, WritersCut DEF Cutters, Busy, WritersInv
<1>7. CASE PlayLooks
  <2>1. UNCHANGED <<writer, generation, player, faulted, cooling>>
    BY <1>7 DEF PlayLooks, writerVars, queueVars, faultVars
  <2>2. (talk' = "open" => player = NoPlayer) /\ talk' # "mismatch"  BY <1>7 DEF PlayLooks
  <2> QED  BY <1>a, <2>1, <2>2, WritersQuiet
<1>8. CASE \/ Speak \/ NextSentence \/ Synthesised \/ MismatchHandled \/ PushSentence \/ PaceSentence
           \/ PacerStep \/ CooledDown \/ BargeIn \/ EarDrops \/ CloserStep \/ UNCHANGED playbackVars
           \/ \E t \in Cutters : Kill(t)
           \/ \E p \in unreaped : Reap(p)
  <2>1. UNCHANGED <<writer, generation, player>>
    BY <1>8 DEF Speak, NextSentence, Synthesised, MismatchHandled, PushSentence, PaceSentence,
       PacerStep, PacerLooks, PacerTakes, CooledDown, BargeIn, EarDrops, CloserStep, CloseStopsWriter,
       CloseEnds, VoiceStops, VoiceDrops, playbackVars, Kill, Reap, writerVars, queueVars
  <2>2. /\ talk' = "open" => talk = "open"
        /\ talk' = "mismatch" => talk = "mismatch"
        /\ cooling' => cooling \/ talk = "mismatch"
    BY <1>8 DEF Speak, NextSentence, Synthesised, MismatchHandled, PushSentence, PaceSentence,
       PacerStep, PacerLooks, PacerTakes, CooledDown, BargeIn, EarDrops, CloserStep, CloseStopsWriter,
       CloseEnds, VoiceStops, VoiceDrops, playbackVars, Kill, Reap, voiceVars, At
  <2> QED  BY <1>a, <2>1, <2>2, WritersQuiet DEF WritersInv
<1> QED
  BY <1>1, <1>2, <1>3, <1>4, <1>5, <1>6, <1>7, <1>8 DEF PlaybackNext, SpeakerStep, WriterStep, WriterGoesOn, EarStep

\* What waits for the trace, what was handed to play and done, and that the buffer has no
\* copies.
InBuffer == {paceBuffer[i] : i \in DOMAIN paceBuffer}
Handed == {s \in 1..said : s # said \/ ~Handing}
TraceOnce == \A i, j \in 1..Len(paceBuffer) : paceBuffer[i] = paceBuffer[j] => i = j

\* TraceInv in these words.
LEMMA TraceSplit ==
  ASSUME PlayTypes
  PROVE  TraceInv <=> /\ traced \cup untraced \cup InBuffer = Handed
                      /\ traced \cap untraced = {} /\ InBuffer \cap (traced \cup untraced) = {}
                      /\ TraceOnce
<1>1. DOMAIN paceBuffer = 1..Len(paceBuffer)  BY DEF PlayTypes, PlaybackTypeOK
<1>2. Handed = {s \in 1..said : s # said \/ talk \notin {"play", "open", "verify", "mismatch", "push", "pace"}}
  BY DEF Handed, Handing
<1> QED  BY <1>1, <1>2 DEF TraceInv, TraceAccounted, InBuffer, TraceOnce

\* Dropping the buffer counts what was in it.
LEMMA BufferDropped ==
  ASSUME PlayTypes, TraceInv, PlayTypes', DropPace, UNCHANGED traced, Handed' = Handed
  PROVE  TraceInv'
<1>1. untraced' = untraced \cup InBuffer /\ paceBuffer' = <<>>  BY DEF DropPace, InBuffer
<1>2. InBuffer' = {} /\ TraceOnce'  BY <1>1 DEF InBuffer, TraceOnce
<1>3. /\ traced \cup untraced \cup InBuffer = Handed
      /\ traced \cap untraced = {} /\ InBuffer \cap (traced \cup untraced) = {}
  BY TraceSplit
<1>4. /\ (traced \cup untraced \cup InBuffer = Handed)'
      /\ (traced \cap untraced = {})' /\ (InBuffer \cap (traced \cup untraced) = {})'
  BY <1>1, <1>2, <1>3
<1>5. (TraceInv <=> /\ traced \cup untraced \cup InBuffer = Handed
                    /\ traced \cap untraced = {} /\ InBuffer \cap (traced \cup untraced) = {}
                    /\ TraceOnce)'
  BY TraceSplit, PTL
<1> QED  BY <1>2, <1>4, <1>5

\* Steps that leave the trace alone.
LEMMA BufferKept ==
  ASSUME PlayTypes, TraceInv, PlayTypes', UNCHANGED <<paceBuffer, traced, untraced>>, Handed' = Handed
  PROVE  TraceInv'
<1>1. InBuffer' = InBuffer /\ (TraceOnce' <=> TraceOnce)  BY DEF InBuffer, TraceOnce
<1>2. (TraceInv <=> /\ traced \cup untraced \cup InBuffer = Handed
                    /\ traced \cap untraced = {} /\ InBuffer \cap (traced \cup untraced) = {}
                    /\ TraceOnce)'
  BY TraceSplit, PTL
<1> QED  BY <1>1, <1>2, TraceSplit

\* No step disturbs the accounts of the trace, whichever thread drops or takes.
LEMMA TraceStep ==
  ASSUME PlayTypes, PlayTypes', TraceInv, [PlaybackNext]_playbackVars
  PROVE  TraceInv'
<1> USE SentenceFacts
<1>0. PaceTypes /\ SpeakTypes  BY TypesSplit
<1>a. /\ traced \cup untraced \cup InBuffer = Handed
      /\ traced \cap untraced = {} /\ InBuffer \cap (traced \cup untraced) = {}
      /\ TraceOnce
  BY TraceSplit
<1>b. (TraceInv <=> /\ traced \cup untraced \cup InBuffer = Handed
                    /\ traced \cap untraced = {} /\ InBuffer \cap (traced \cup untraced) = {}
                    /\ TraceOnce)'
  BY TraceSplit, PTL
<1>1. CASE PaceSentence
  <2>1. said \in Sentence /\ said \in Nat /\ said \notin Handed /\ Handed' = Handed \cup {said}
    BY <1>0, <1>1 DEF PaceSentence, Handing, SpeakTypes, Handed, Sentence
  <2>2. CASE untraced' = untraced \cup {said} /\ UNCHANGED <<paceBuffer, traced>>
    <3>1. InBuffer' = InBuffer /\ (TraceOnce' <=> TraceOnce)  BY <2>2 DEF InBuffer, TraceOnce
    <3> QED  BY <1>a, <1>b, <2>1, <2>2, <3>1
  <2>3. CASE paceBuffer' = Append(paceBuffer, said) /\ UNCHANGED <<traced, untraced>>
    <3>1. paceBuffer \in Seq(Sentence)  BY <1>0 DEF PaceTypes
    <3>2. /\ Len(paceBuffer') = Len(paceBuffer) + 1 /\ Len(paceBuffer) \in Nat
          /\ DOMAIN paceBuffer' = 1..Len(paceBuffer) + 1 /\ DOMAIN paceBuffer = 1..Len(paceBuffer)
          /\ \A i \in 1..Len(paceBuffer) : paceBuffer'[i] = paceBuffer[i]
          /\ paceBuffer'[Len(paceBuffer) + 1] = said
      BY <2>1, <2>3, <3>1
    <3>3. InBuffer' = InBuffer \cup {said}  BY <3>2 DEF InBuffer
    <3>4. \A i \in 1..Len(paceBuffer) : paceBuffer[i] # said
      BY <1>a, <2>1, <3>2 DEF InBuffer
    <3>5. TraceOnce'  BY <1>a, <3>2, <3>4 DEF TraceOnce
    <3> QED  BY <1>a, <1>b, <2>1, <2>3, <3>3, <3>5
  <2> QED  BY <1>1, <2>2, <2>3 DEF PaceSentence
<1>2. CASE PacerTakes
  <2>1. Handed' = Handed  BY <1>2 DEF PacerTakes, voiceVars, Handed, Handing
  <2>2. CASE UNCHANGED <<paceBuffer, traced>>
    BY <1>2, <2>1, <2>2, BufferKept DEF PacerTakes
  <2>3. CASE paceBuffer # <<>>
    <3>1. traced' = traced \cup {Head(paceBuffer)} /\ paceBuffer' = Tail(paceBuffer) /\ untraced' = untraced
      BY <1>2, <2>3 DEF PacerTakes
    <3>2. paceBuffer \in Seq(Sentence)  BY <1>0 DEF PaceTypes
    <3>3. /\ Len(paceBuffer) \in Nat \ {0} /\ Len(paceBuffer') = Len(paceBuffer) - 1
          /\ Head(paceBuffer) = paceBuffer[1] /\ \A i \in 1..Len(paceBuffer') : paceBuffer'[i] = paceBuffer[i + 1]
          /\ DOMAIN paceBuffer = 1..Len(paceBuffer) /\ paceBuffer' \in Seq(Sentence)
      BY <2>3, <3>1, <3>2, HeadTail, LenProperties
    <3>4. DOMAIN paceBuffer' = 1..Len(paceBuffer')  BY <3>3, LenProperties
    <3>5. InBuffer = InBuffer' \cup {Head(paceBuffer)}
      <4>1. ASSUME NEW s \in InBuffer' PROVE s \in InBuffer
        <5>1. PICK i \in 1..Len(paceBuffer') : s = paceBuffer'[i]  BY <4>1, <3>4 DEF InBuffer
        <5>2. i + 1 \in 1..Len(paceBuffer) /\ s = paceBuffer[i + 1]  BY <3>3, <5>1
        <5> QED  BY <3>3, <5>2 DEF InBuffer
      <4>2. ASSUME NEW s \in InBuffer, s # Head(paceBuffer) PROVE s \in InBuffer'
        <5>1. PICK i \in 1..Len(paceBuffer) : s = paceBuffer[i]  BY <4>2, <3>3 DEF InBuffer
        <5>2. i # 1  BY <4>2, <3>3, <5>1
        <5>3. i - 1 \in 1..Len(paceBuffer') /\ (i - 1) + 1 = i  BY <3>3, <5>2
        <5>4. s = paceBuffer'[i - 1]  BY <3>3, <5>1, <5>3
        <5> QED  BY <3>4, <5>3, <5>4 DEF InBuffer
      <4>3. Head(paceBuffer) \in InBuffer  BY <3>3 DEF InBuffer
      <4> QED  BY <4>1, <4>2, <4>3
    <3>6. Head(paceBuffer) \notin InBuffer'
      <4>1. SUFFICES ASSUME NEW i \in 1..Len(paceBuffer'), paceBuffer'[i] = Head(paceBuffer) PROVE FALSE
        BY <3>4 DEF InBuffer
      <4>2. i + 1 \in 1..Len(paceBuffer) /\ 1 \in 1..Len(paceBuffer) /\ paceBuffer[i + 1] = paceBuffer[1]
        BY <3>3, <4>1
      <4> QED  BY <1>a, <4>1, <4>2 DEF TraceOnce
    <3>7. TraceOnce'
      <4>1. SUFFICES ASSUME NEW i \in 1..Len(paceBuffer'), NEW j \in 1..Len(paceBuffer'),
                            paceBuffer'[i] = paceBuffer'[j]
                     PROVE  i = j
        BY DEF TraceOnce
      <4>2. i + 1 \in 1..Len(paceBuffer) /\ j + 1 \in 1..Len(paceBuffer) /\ paceBuffer[i + 1] = paceBuffer[j + 1]
        BY <3>3, <4>1
      <4>3. i + 1 = j + 1  BY <1>a, <4>2 DEF TraceOnce
      <4> QED  BY <4>1, <4>3, <3>3
    <3>8. Head(paceBuffer) \in Handed  BY <1>a, <3>5
    <3> QED  BY <1>a, <1>b, <2>1, <3>1, <3>5, <3>6, <3>7
  <2> QED  BY <1>2, <2>2, <2>3 DEF PacerTakes
<1>3. CASE PacerLooks \/ EarDrops \/ VoiceDrops
  <2>1. UNCHANGED <<said, talk, traced>>
    BY <1>3 DEF PacerLooks, EarDrops, VoiceDrops, voiceVars
  <2>2. Handed' = Handed  BY <2>1 DEF Handed, Handing
  <2>3. DropPace \/ UNCHANGED <<paceBuffer, untraced>>
    BY <1>3 DEF PacerLooks, EarDrops, VoiceDrops
  <2> QED  BY <2>1, <2>2, <2>3, BufferDropped, BufferKept
<1>4. CASE Speak \/ NextSentence \/ Synthesised
  <2>1. Handed' = Handed
    <3>1. CASE Synthesised /\ talk' = "play"
      <4>1. said' = said + 1 /\ said \in Nat /\ talk = "synth"  BY <1>0, <3>1 DEF Synthesised, SpeakTypes
      <4>2. \A s : s \in 1..said' /\ s # said' <=> s \in 1..said  BY <4>1
      <4> QED  BY <3>1, <4>1, <4>2 DEF Handed, Handing
    <3>2. CASE ~(Synthesised /\ talk' = "play")
      BY <1>4, <3>2 DEF Speak, NextSentence, Synthesised, At, Handed, Handing
    <3> QED  BY <3>1, <3>2
  <2>2. UNCHANGED <<paceBuffer, traced, untraced>>
    BY <1>4 DEF Speak, NextSentence, Synthesised, paceVars
  <2> QED  BY <2>1, <2>2, BufferKept
<1>5. CASE PlayLooks \/ PlayOpens \/ PlayVerified \/ MismatchHandled \/ PushSentence
  <2>1. said' = said /\ UNCHANGED <<paceBuffer, traced, untraced>>
    BY <1>5 DEF PlayLooks, PlayOpens, PlayVerified, MismatchHandled, PushSentence, paceVars
  <2>2. Handing
    BY <1>5 DEF PlayLooks, PlayOpens, PlayVerified, MismatchHandled, PushSentence, At, Handing
  <2>3. Handing'
    BY <1>5 DEF PlayLooks, PlayOpens, PlayVerified, MismatchHandled, PushSentence, Handing
  <2>4. Handed' = Handed  BY <2>1, <2>2, <2>3 DEF Handed
  <2> QED  BY <2>1, <2>4, BufferKept
<1>6. CASE \/ CooledDown \/ BargeIn \/ EarStops \/ CloseCuts \/ CloseStopsWriter \/ CloseEnds
           \/ VoiceStops \/ UNCHANGED playbackVars
           \/ \E w \in Writers : WriterStep(w)
           \/ \E t \in Cutters : Kill(t)
           \/ \E p \in unreaped : Reap(p)
  <2>1. UNCHANGED <<said, talk, paceBuffer, traced, untraced>>
    BY <1>6 DEF CooledDown, BargeIn, EarStops, CloseCuts, CloseStopsWriter, CloseEnds, VoiceStops,
       playbackVars, WriterStep, WriterGoesOn, WriterLooks, WriterWrites, WriterCommits, WriterFails, WriterCools, Kill, Reap,
       voiceVars, paceVars
  <2>2. Handed' = Handed  BY <2>1 DEF Handed, Handing
  <2> QED  BY <2>1, <2>2, BufferKept
<1> QED
  BY <1>1, <1>2, <1>3, <1>4, <1>5, <1>6 DEF PlaybackNext, SpeakerStep, PacerStep, EarStep, CloserStep

\* Steps that leave the queues alone.
LEMMA OrderFrame ==
  ASSUME PlayTypes, OrderInv, [PlaybackNext]_playbackVars,
         UNCHANGED <<player, chunks, pending, generation, writerThread, writerStop, writer, heard, pushedTo>>
  PROVE  OrderInv'
<1>0. \A s \in Sentence : Queued(s) => s \in 1..said' /\ (Unpushed' => s # said')
  BY QueuedStays
<1>1. ChunksInv'
  <2>1. \A i \in 1..Len(chunks) : chunks[i] \in Sentence  BY DEF PlayTypes, PlaybackTypeOK
  <2>2. \A i \in 1..Len(chunks) : chunks[i] \in 1..said' /\ (Unpushed' => chunks[i] # said')
    BY <1>0, <2>1 DEF OrderInv, ChunksInv
  <2> QED  BY <2>2 DEF OrderInv, ChunksInv, Queued
<1>2. HeardInv'
  <2>1. \A i \in 1..Len(heard) : heard[i] \in Nat \X Sentence  BY DEF PlayTypes
  <2>2. \A i \in 1..Len(heard) : heard[i][2] \in 1..said' /\ (Unpushed' => heard[i][2] # said')
    BY <1>0, <2>1 DEF OrderInv, HeardInv
  <2> QED  BY <2>2 DEF OrderInv, HeardInv, Queued
<1>3. FirstInv'
  <2>1. Busy("first") => writer["first"].slice \in Sentence  BY SentenceFacts DEF PlayTypes
  <2>2. Busy("first") => writer["first"].slice \in 1..said' /\ (Unpushed' => writer["first"].slice # said')
    BY <1>0, <2>1 DEF OrderInv, FirstInv
  <2> QED  BY <2>2 DEF OrderInv, FirstInv, Queued, Busy
<1>4. AloneInv'  BY DEF OrderInv, AloneInv
<1> QED  BY <1>1, <1>2, <1>3, <1>4 DEF OrderInv

\* A cut empties the queues and keeps what was heard in order.
LEMMA OrderCut ==
  ASSUME PlayTypes, WritersInv, OrderInv, [PlaybackNext]_playbackVars, NEW t \in Cutters, Cut(t),
         UNCHANGED <<writerThread, writerStop, heard, pushedTo>>, writer'["second"] = writer["second"],
         \/ writer'["first"] = writer["first"]
         \/ writer["first"].at # "none" /\ writer'["first"].at \in {"look", "cool"}
  PROVE  OrderInv'
<1>0. \A s \in Sentence : Queued(s) => s \in 1..said' /\ (Unpushed' => s # said')
  BY QueuedStays
<1>1. chunks' = <<>> /\ pending' = <<>> /\ generation' = generation + 1
  BY DEF Cut
<1>2. ChunksInv'  BY <1>1 DEF ChunksInv
<1>3. HeardInv'
  <2>1. \A i \in 1..Len(heard) : heard[i] \in Nat \X Sentence  BY DEF PlayTypes
  <2>2. \A i \in 1..Len(heard) : heard[i][2] \in 1..said' /\ (Unpushed' => heard[i][2] # said')
    BY <1>0, <2>1 DEF OrderInv, HeardInv
  <2> QED  BY <1>1, <2>2 DEF OrderInv, HeardInv, Queued
<1>4. FirstInv'
  <2>1. Busy("first") => writer["first"].slice \in Sentence  BY SentenceFacts DEF PlayTypes
  <2>2. Busy("first") => writer["first"].slice \in 1..said' /\ (Unpushed' => writer["first"].slice # said')
    BY <1>0, <2>1 DEF OrderInv, FirstInv
  <2>3. Busy("first")' => writer'["first"] = writer["first"] /\ Busy("first")
    BY DEF Busy
  <2>4. Busy("first")' => writer'["first"].gen # generation'
    <3>1. Busy("first") => writer["first"].gen <= generation  BY SentenceFacts DEF WritersInv
    <3>2. writer["first"].gen \in Nat /\ generation \in Nat
      BY SentenceFacts DEF PlayTypes, PlaybackTypeOK, WriterStates
    <3> QED  BY <1>1, <2>3, <3>1, <3>2
  <2> QED  BY <1>1, <2>2, <2>3, <2>4 DEF OrderInv, FirstInv, Queued
<1>5. AloneInv'  BY DEF OrderInv, AloneInv
<1> QED  BY <1>2, <1>3, <1>4, <1>5 DEF OrderInv

\* A player is started when the queue is empty, and its writer is the only one.
LEMMA OpensOrder ==
  ASSUME PlayTypes, WritersInv, OrderInv, PlayOpens
  PROVE  OrderInv'
<1>0. \A s \in Sentence : Queued(s) => s \in 1..said' /\ (Unpushed' => s # said')
  BY QueuedStays DEF PlaybackNext, SpeakerStep
<1>1. player = NoPlayer /\ UNCHANGED <<chunks, pending, generation, heard, pushedTo>>
  BY DEF PlayOpens, WritersInv, historyVars
<1>2. CASE UNCHANGED <<player, writerVars>>
  BY <1>1, <1>2, OrderFrame DEF PlaybackNext, SpeakerStep, writerVars
<1>3. CASE StartWriter /\ player' = started'
  <2>0. WriterTypes  BY TypesSplit
  <2>1. /\ writer'["first"] = writer["first"] \/ (writer["first"].at = "none" /\ writer'["first"].at = "look")
        /\ \/ UNCHANGED writerVars
           \/ /\ writerThread = "none" /\ writerStop' = FALSE
              /\ \E w \in Writers :
                   /\ writer[w].at = "none" /\ (w = "second" => writer["first"].at # "none")
                   /\ writerThread' = w /\ \A v \in Writers \ {w} : writer'[v] = writer[v]
    BY <1>3, <2>0, StartWriterFacts, SentenceFacts
  <2>2. AloneInv'
    <3>1. CASE UNCHANGED writerVars  BY <3>1 DEF OrderInv, AloneInv, writerVars
    <3>2. CASE writerThread = "none"
      <4>1. writer["first"].at = "none"  BY <3>2 DEF OrderInv, AloneInv
      <4>2. CASE UNCHANGED writerVars  BY <3>1, <4>2
      <4>3. CASE /\ writerStop' = FALSE
                 /\ \E w \in Writers :
                      /\ w = "second" => writer["first"].at # "none"
                      /\ writerThread' = w /\ \A v \in Writers \ {w} : writer'[v] = writer[v]
        BY <4>1, <4>3, SentenceFacts DEF OrderInv, AloneInv
      <4> QED  BY <2>1, <4>2, <4>3
    <3> QED  BY <2>1, <3>1, <3>2
  <2>3. Busy("first")' => Busy("first") /\ writer'["first"] = writer["first"]
    BY <2>1 DEF Busy
  <2>4. Busy("first") => Busy("first")' /\ writer'["first"] = writer["first"]
    BY <2>1 DEF Busy
  <2>5. chunks = <<>>  BY <1>1 DEF OrderInv, ChunksInv
  <2>6. ChunksInv'  BY <1>1, <2>5 DEF ChunksInv
  <2>7. HeardInv'
    <3>1. \A i \in 1..Len(heard) : heard[i] \in Nat \X Sentence  BY DEF PlayTypes
    <3>2. \A i \in 1..Len(heard) : heard[i][2] \in 1..said' /\ (Unpushed' => heard[i][2] # said')
      BY <1>0, <3>1 DEF OrderInv, HeardInv
    <3> QED  BY <1>1, <3>2 DEF OrderInv, HeardInv, Queued
  <2>8. FirstInv'
    <3>1. Busy("first") => writer["first"].slice \in Sentence  BY SentenceFacts DEF PlayTypes
    <3>2. Busy("first") => writer["first"].slice \in 1..said' /\ (Unpushed' => writer["first"].slice # said')
      BY <1>0, <3>1 DEF OrderInv, FirstInv
    <3> QED  BY <1>1, <2>3, <2>4, <3>2 DEF OrderInv, FirstInv, Queued
  <2> QED  BY <2>2, <2>6, <2>7, <2>8 DEF OrderInv
<1> QED  BY <1>2, <1>3 DEF PlayOpens

\* A sentence is queued behind all others, for the player there is.
LEMMA PushOrder ==
  ASSUME PlayTypes, OrderInv, PushSentence
  PROVE  OrderInv'
<1>1. CASE UNCHANGED <<chunks, isPlaying, pushedTo>>
  BY <1>1, OrderFrame DEF PushSentence, PlaybackNext, SpeakerStep, writerVars
<1>2. CASE /\ player # NoPlayer /\ chunks' = Append(chunks, said)
           /\ pushedTo' = [pushedTo EXCEPT ![said] = player]
  <2>0. \A s \in Sentence : Queued(s) => s \in 1..said /\ s # said /\ s < said
    BY SentenceFacts DEF PushSentence, Queued, Unpushed, PlayTypes, PlaybackTypeOK
  <2>1. /\ said' = said /\ ~Unpushed' /\ said \in Sentence /\ said \in Nat /\ said \in 1..said
        /\ UNCHANGED <<player, pending, generation, writerThread, writerStop, writer, heard>>
    BY SentenceFacts DEF PushSentence, Unpushed, writerVars, PlayTypes, Handing, Sentence
  <2>2. /\ chunks \in Seq(Sentence) /\ pushedTo \in [Sentence -> Nat \cup {NoPlayer}]
        /\ \A i \in 1..Len(heard) : heard[i] \in Nat \X Sentence
        /\ Busy("first") => writer["first"].slice \in Sentence
    BY SentenceFacts DEF PlayTypes, PlaybackTypeOK
  <2>3. /\ Len(chunks') = Len(chunks) + 1 /\ Len(chunks) \in Nat
        /\ \A i \in 1..Len(chunks) : chunks'[i] = chunks[i] /\ chunks[i] \in Sentence
        /\ chunks'[Len(chunks) + 1] = said
    BY <1>2, <2>1, <2>2
  <2>4. \A i \in 1..Len(chunks') : \/ i \in 1..Len(chunks) /\ chunks'[i] = chunks[i] /\ chunks[i] \in Sentence
                                   \/ i = Len(chunks) + 1 /\ chunks'[i] = said
    BY <2>3
  <2>5. pushedTo'[said] = player /\ \A s \in Sentence : s # said => pushedTo'[s] = pushedTo[s]
    BY <1>2, <2>1, <2>2
  <2>6. \A s \in Sentence : Queued(s) => s \in 1..said' /\ pushedTo'[s] = pushedTo[s]
    BY <2>0, <2>1, <2>5
  <2>7. ChunksInv'
    <3>1. \A i \in 1..Len(chunks) : Queued(chunks[i]) /\ pushedTo[chunks[i]] = player
      BY DEF OrderInv, ChunksInv
    <3>2. \A i \in 1..Len(chunks') : chunks'[i] \in 1..said' /\ pushedTo'[chunks'[i]] = player'
      BY <2>1, <2>3, <2>4, <2>5, <2>6, <3>1
    <3>3. \A i, j \in 1..Len(chunks') : i < j => chunks'[i] < chunks'[j]
      <4>1. SUFFICES ASSUME NEW i \in 1..Len(chunks'), NEW j \in 1..Len(chunks'), i < j
                     PROVE  chunks'[i] < chunks'[j]
        OBVIOUS
      <4>2. i \in 1..Len(chunks)  BY <2>3, <4>1
      <4>3. CASE j \in 1..Len(chunks)
        BY <2>3, <4>1, <4>2, <4>3 DEF OrderInv, ChunksInv
      <4>4. CASE j = Len(chunks) + 1
        <5>1. chunks[i] < said  BY <2>0, <2>3, <3>1, <4>2
        <5> QED  BY <2>3, <4>2, <4>4, <5>1
      <4> QED  BY <2>4, <4>3, <4>4
    <3>4. player' # NoPlayer  BY <1>2, <2>1
    <3> QED  BY <2>1, <3>2, <3>3, <3>4 DEF ChunksInv, Queued
  <2>8. HeardInv'
    <3>1. \A i \in 1..Len(heard) : Queued(heard[i][2]) /\ heard[i][2] \in Sentence /\ pushedTo[heard[i][2]] = heard[i][1]
      BY <2>2 DEF OrderInv, HeardInv
    <3>2. \A i \in 1..Len(heard) : heard[i][2] < said /\ heard[i][2] \in 1..said' /\ pushedTo'[heard[i][2]] = heard[i][1]
      BY <2>0, <2>6, <3>1
    <3>3. \A i \in 1..Len(heard), j \in 1..Len(chunks') : heard[i][2] < chunks'[j]
      BY <2>4, <3>2 DEF OrderInv, HeardInv
    <3> QED  BY <2>1, <3>2, <3>3 DEF OrderInv, HeardInv, Queued
  <2>9. FirstInv'
    <3>1. Busy("first") => Queued(writer["first"].slice) /\ pushedTo[writer["first"].slice] = writer["first"].proc
      BY DEF OrderInv, FirstInv
    <3>2. Busy("first") =>
            /\ writer["first"].slice \in 1..said' /\ pushedTo'[writer["first"].slice] = writer["first"].proc
            /\ writer["first"].slice < said
      BY <2>0, <2>2, <2>6, <3>1
    <3>3. Busy("first") => \A j \in 1..Len(chunks') : writer["first"].slice < chunks'[j]
      BY <2>4, <3>2 DEF OrderInv, FirstInv
    <3> QED  BY <2>1, <3>2, <3>3 DEF OrderInv, FirstInv, Queued, Busy
  <2>10. AloneInv'  BY <2>1 DEF OrderInv, AloneInv
  <2> QED  BY <2>7, <2>8, <2>9, <2>10 DEF OrderInv
<1> QED  BY <1>1, <1>2 DEF PushSentence

\* The writer takes the first slice.
LEMMA LooksOrder ==
  ASSUME PlayTypes, OrderInv, WriterLooks("first")
  PROVE  OrderInv'
<1> USE SentenceFacts
<1>0. WriterTypes /\ QueueTypes /\ HistoryTypes  BY TypesSplit
<1>1. /\ writer["first"].at = "look" /\ writerStop = FALSE /\ ~Busy("first") /\ pending = <<>>
      /\ UNCHANGED <<said, talk, player, generation, writerThread, writerStop, heard, pushedTo>>
  BY DEF WriterLooks, OrderInv, AloneInv, FirstInv, Busy, voiceVars, historyVars
<1>2. PICK x \in WriterStates :
        /\ x.at = "write" /\ x.proc = player /\ player # NoPlayer /\ x.gen = generation
        /\ x.slice \in Sentence /\ x.slice = Head(pending') /\ writer' = [writer EXCEPT !["first"] = x]
        /\ chunks # <<>> /\ pending' = <<Head(chunks)>> /\ chunks' = Tail(chunks)
  BY <1>0, <1>1, WriterTakes
<1>3. \A v \in Writers : writer'[v] = IF v = "first" THEN x ELSE writer[v]
  BY <1>0, <1>2, WriterSet
<1>4. /\ Len(chunks) \in Nat \ {0} /\ Len(chunks') = Len(chunks) - 1 /\ Head(chunks) = chunks[1]
      /\ \A i \in 1..Len(chunks') : chunks'[i] = chunks[i + 1]
  BY <1>0, <1>2, HeadTail DEF QueueTypes
<1>5. x.slice = chunks[1] /\ 1 \in 1..Len(chunks) /\ pending' = <<x.slice>>
  <2>1. Head(<<Head(chunks)>>) = Head(chunks)  OBVIOUS
  <2> QED  BY <1>2, <1>4, <2>1
<1>6. \A i \in 1..Len(chunks') : i + 1 \in 1..Len(chunks) /\ 1 < i + 1
  BY <1>4
<1>7. /\ \A i, j \in 1..Len(chunks) : i < j => chunks[i] < chunks[j]
      /\ \A i \in 1..Len(chunks) : Queued(chunks[i]) /\ pushedTo[chunks[i]] = player
      /\ \A i \in 1..Len(heard), j \in 1..Len(chunks) : heard[i][2] < chunks[j]
  BY DEF OrderInv, ChunksInv, HeardInv
<1>8. \A s : Queued(s)' <=> Queued(s)  BY <1>1 DEF Queued, Unpushed
<1>9. ChunksInv'
  <2>1. \A i, j \in 1..Len(chunks') : i < j => chunks'[i] < chunks'[j]
    <3>1. SUFFICES ASSUME NEW i \in 1..Len(chunks'), NEW j \in 1..Len(chunks'), i < j
                   PROVE  chunks'[i] < chunks'[j]
      OBVIOUS
    <3>2. i + 1 \in 1..Len(chunks) /\ j + 1 \in 1..Len(chunks) /\ i + 1 < j + 1
      BY <1>4, <3>1
    <3> QED  BY <1>4, <1>7, <3>2
  <2>2. \A i \in 1..Len(chunks') : Queued(chunks'[i]) /\ pushedTo[chunks'[i]] = player
    BY <1>4, <1>6, <1>7
  <2> QED  BY <1>1, <1>2, <2>1, <2>2 DEF ChunksInv, Queued, Unpushed
<1>10. HeardInv'
  <2>1. \A i \in 1..Len(heard), j \in 1..Len(chunks') : heard[i][2] < chunks'[j]
    BY <1>4, <1>6, <1>7
  <2> QED  BY <1>1, <2>1 DEF OrderInv, HeardInv, Queued, Unpushed
<1>11. FirstInv'
  <2>1. writer'["first"] = x /\ Busy("first")'  BY <1>2, <1>3 DEF Busy
  <2>2. Queued(x.slice) /\ pushedTo[x.slice] = x.proc  BY <1>2, <1>5, <1>7
  <2>3. \A j \in 1..Len(chunks') : x.slice < chunks'[j]  BY <1>4, <1>5, <1>6, <1>7
  <2>4. \A i \in 1..Len(heard) : heard[i][2] < x.slice  BY <1>5, <1>7
  <2> QED  BY <1>1, <1>2, <1>5, <2>1, <2>2, <2>3, <2>4 DEF FirstInv, Queued, Unpushed
<1>12. AloneInv'  BY <1>1, <1>3 DEF OrderInv, AloneInv
<1> QED  BY <1>9, <1>10, <1>11, <1>12 DEF OrderInv

\* The writer's slice is heard after all others, or its write fails.
LEMMA WritesOrder ==
  ASSUME PlayTypes, OrderInv, WriterWrites("first")
  PROVE  OrderInv'
<1> USE SentenceFacts
<1>0. WriterTypes /\ QueueTypes /\ HistoryTypes  BY TypesSplit
<1> DEFINE s == writer["first"].slice
           p == writer["first"].proc
<1>1. /\ writer["first"].at = "write" /\ Busy("first") /\ s \in Sentence /\ p \in Nat
      /\ UNCHANGED <<said, talk, player, chunks, pending, generation, writerThread, writerStop, pushedTo>>
  BY <1>0 DEF WriterWrites, Busy, voiceVars, queueVars, WriterTypes
<1>2. PICK place \in {"commit", "failed"} :
        /\ writer' = [writer EXCEPT !["first"].at = place]
        /\ heard' = heard \/ heard' = Append(heard, <<p, s>>)
  BY DEF WriterWrites
<1>3. place \in Places  BY DEF Places
<1>4. /\ writer'["second"] = writer["second"]
      /\ writer'["first"].at = place /\ writer'["first"].proc = p
      /\ writer'["first"].gen = writer["first"].gen /\ writer'["first"].slice = s
  BY <1>0, <1>2, <1>3, WriterMoves
<1>5. /\ Queued(s) /\ pushedTo[s] = p /\ (\A j \in 1..Len(chunks) : s < chunks[j])
      /\ \A i \in 1..Len(heard) : heard[i][2] < s
  BY <1>1 DEF OrderInv, FirstInv
<1>6. ChunksInv'  BY <1>1 DEF OrderInv, ChunksInv, Queued, Unpushed
<1>7. FirstInv'
  <2>1. Busy("first")' /\ writer'["first"].at # "write"  BY <1>4 DEF Busy
  <2> QED  BY <1>1, <1>4, <1>5, <2>1 DEF OrderInv, FirstInv, Queued, Unpushed
<1>8. AloneInv'  BY <1>1, <1>4 DEF OrderInv, AloneInv
<1>9. HeardInv'
  <2>1. CASE heard' = heard
    BY <1>1, <2>1 DEF OrderInv, HeardInv, Queued, Unpushed
  <2>2. CASE heard' = Append(heard, <<p, s>>)
    <3> DEFINE e == <<p, s>>
    <3>1. e \in Nat \X Sentence /\ e[1] = p /\ e[2] = s  BY <1>1
    <3>2. heard \in Seq(Nat \X Sentence)  BY <1>0 DEF HistoryTypes
    <3>3. heard' = Append(heard, e)  BY <2>2
    <3> HIDE DEF e, s, p
    <3>4. /\ Len(heard') = Len(heard) + 1 /\ Len(heard) \in Nat
          /\ \A i \in 1..Len(heard) : heard'[i] = heard[i]
          /\ heard'[Len(heard) + 1] = e
      BY <3>1, <3>2, <3>3
    <3>5. \A i \in 1..Len(heard') : (i \in 1..Len(heard) /\ heard'[i] = heard[i]) \/ (i = Len(heard) + 1 /\ heard'[i] = e)
      BY <3>4
    <3>6. /\ \A i \in 1..Len(heard) : Queued(heard[i][2]) /\ pushedTo[heard[i][2]] = heard[i][1]
          /\ \A i, j \in 1..Len(heard) : i < j => heard[i][2] < heard[j][2]
          /\ \A i \in 1..Len(heard), j \in 1..Len(chunks) : heard[i][2] < chunks[j]
      BY DEF OrderInv, HeardInv
    <3>7. \A i \in 1..Len(heard') : Queued(heard'[i][2]) /\ pushedTo[heard'[i][2]] = heard'[i][1]
      BY <1>5, <3>1, <3>5, <3>6
    <3>8. \A i \in 1..Len(heard'), j \in 1..Len(chunks) : heard'[i][2] < chunks[j]
      BY <1>5, <3>1, <3>5, <3>6
    <3>9. \A i, j \in 1..Len(heard') : i < j => heard'[i][2] < heard'[j][2]
      <4>1. SUFFICES ASSUME NEW i \in 1..Len(heard'), NEW j \in 1..Len(heard'), i < j
                     PROVE  heard'[i][2] < heard'[j][2]
        OBVIOUS
      <4>2. i \in 1..Len(heard)  BY <3>4, <4>1
      <4>3. CASE j \in 1..Len(heard)  BY <3>4, <3>6, <4>1, <4>2, <4>3
      <4>4. CASE j = Len(heard) + 1
        BY <1>5, <3>1, <3>4, <4>2, <4>4
      <4> QED  BY <3>5, <4>3, <4>4
    <3> QED  BY <1>1, <3>7, <3>8, <3>9 DEF HeardInv, Queued, Unpushed
  <2> QED  BY <1>2, <2>1, <2>2
<1> QED  BY <1>6, <1>7, <1>8, <1>9 DEF OrderInv

\* A slice that was written, or is of an older generation, is let go.
LEMMA CommitsOrder ==
  ASSUME PlayTypes, OrderInv,
         \/ WriterCommits("first") \/ WriterCools("first")
         \/ WriterFails("first") /\ writer["first"].gen # generation
  PROVE  OrderInv'
<1> USE SentenceFacts
<1>0. WriterTypes /\ QueueTypes  BY TypesSplit
<1>1. /\ writer["first"].at # "none" /\ writer' = [writer EXCEPT !["first"].at = "look"]
      /\ UNCHANGED <<said, talk, player, chunks, generation, writerThread, writerStop, pushedTo, heard>>
  BY DEF WriterCommits, WriterFails, WriterCools, Busy, voiceVars, queueVars, historyVars
<1>2. "look" \in Places  BY DEF Places
<1>3. writer'["second"] = writer["second"] /\ writer'["first"].at = "look"
  BY <1>0, <1>1, <1>2, WriterMoves
<1>4. pending' = <<>>
  <2>1. pending = <<>> \/ pending = <<writer["first"].slice>>
    BY DEF OrderInv, FirstInv
  <2>2. CASE pending = <<>>
    BY <2>2 DEF WriterCommits, WriterFails, WriterCools, queueVars
  <2>3. CASE pending = <<writer["first"].slice>>
    <3>1. pending # <<>> /\ Head(pending) = writer["first"].slice /\ Tail(pending) = <<>>
      BY <2>3
    <3>2. writer["first"].gen = generation  BY <3>1 DEF OrderInv, FirstInv
    <3>3. ~WriterCools("first")  BY <3>1 DEF OrderInv, FirstInv, Busy, WriterCools
    <3> QED  BY <3>1, <3>2, <3>3 DEF WriterCommits
  <2> QED  BY <2>1, <2>2, <2>3
<1>5. ChunksInv' /\ HeardInv'
  BY <1>1 DEF OrderInv, ChunksInv, HeardInv, Queued, Unpushed
<1>6. FirstInv'
  <2>1. ~Busy("first")'  BY <1>3 DEF Busy
  <2> QED  BY <1>4, <2>1 DEF FirstInv
<1>7. AloneInv'  BY <1>1, <1>3 DEF OrderInv, AloneInv, Busy
<1> QED  BY <1>5, <1>6, <1>7 DEF OrderInv

\* No step but those of close() disturbs OrderInv.
LEMMA OrderStep ==
  ASSUME PlayTypes, WritersInv, closer = "open" => OrderInv, [PlaybackNext]_playbackVars, closer' = "open"
  PROVE  OrderInv'
<1> USE SentenceFacts
<1>0. WriterTypes /\ QueueTypes  BY TypesSplit
<1>1. CASE CloseCuts \/ CloserStep
  BY <1>1 DEF CloseCuts, CloserStep, CloseStopsWriter, CloseEnds, VoiceStops, VoiceDrops
<1>2. CASE \/ Speak \/ NextSentence \/ Synthesised \/ PlayLooks \/ MismatchHandled \/ PaceSentence
           \/ PacerStep \/ CooledDown \/ BargeIn \/ EarDrops \/ UNCHANGED playbackVars
           \/ \E t \in Cutters : Kill(t)
           \/ \E p \in unreaped : Reap(p)
  <2>1. UNCHANGED <<player, chunks, pending, generation, writerThread, writerStop, writer, heard, pushedTo>>
    BY <1>2 DEF Speak, NextSentence, Synthesised, PlayLooks, MismatchHandled, PaceSentence,
       PacerStep, PacerLooks, PacerTakes, CooledDown, BargeIn, EarDrops, playbackVars, Kill, Reap,
       queueVars, writerVars, historyVars
  <2>2. closer' = closer
    BY <1>2 DEF Speak, NextSentence, Synthesised, PlayLooks, MismatchHandled, PaceSentence,
       PacerStep, PacerLooks, PacerTakes, CooledDown, BargeIn, EarDrops, playbackVars, Kill, Reap,
       actorVars
  <2> QED  BY <2>1, <2>2, OrderFrame
<1>3. CASE PlayOpens
  BY <1>3, OpensOrder DEF PlayOpens, actorVars
<1>4. CASE PushSentence
  BY <1>4, PushOrder DEF PushSentence, actorVars
<1>5. CASE PlayVerified
  <2>1. UNCHANGED <<closer, writer, writerThread, writerStop, heard, pushedTo>>
    BY <1>5 DEF PlayVerified, actorVars, writerVars, historyVars
  <2>2. CASE Cut("speaker")  BY <2>1, <2>2, OrderCut DEF Cutters
  <2>3. CASE UNCHANGED queueVars  BY <2>1, <2>3, OrderFrame DEF queueVars
  <2> QED  BY <1>5, <2>2, <2>3 DEF PlayVerified
<1>6. CASE EarStops
  <2>1. UNCHANGED <<closer, writer, writerThread, writerStop, heard, pushedTo>> /\ Cut("ear")
    BY <1>6 DEF EarStops, writerVars
  <2> QED  BY <2>1, OrderCut DEF Cutters
<1>7. ASSUME NEW w \in Writers, WriterStep(w) PROVE OrderInv'
  <2>1. closer' = closer /\ OrderInv
    BY <1>7 DEF WriterStep, WriterGoesOn, WriterLooks, WriterWrites, WriterCommits, WriterFails, WriterCools, actorVars
  <2>2. w = "first"
    BY <1>7, <2>1 DEF WriterStep, WriterGoesOn, WriterLooks, WriterWrites, WriterCommits,
       WriterFails, WriterCools, OrderInv, AloneInv
  <2>3. CASE WriterLooks(w)  BY <2>1, <2>2, <2>3, LooksOrder
  <2>4. CASE WriterWrites(w)  BY <2>1, <2>2, <2>4, WritesOrder
  <2>5. CASE WriterCommits(w) \/ (WriterFails(w) /\ writer["first"].gen # generation) \/ WriterCools(w)
    BY <2>1, <2>2, <2>5, CommitsOrder
  <2>6. CASE WriterFails(w) /\ writer["first"].gen = generation
    <3>1. /\ writer["first"].at = "failed" /\ Cut("first") /\ writer' = [writer EXCEPT !["first"].at = "cool"]
          /\ UNCHANGED <<writerThread, writerStop, heard, pushedTo>>
      BY <2>2, <2>6 DEF WriterFails, WriterCools, historyVars
    <3>2. "cool" \in Places /\ "first" \in Cutters  BY DEF Places
    <3>3. writer'["second"] = writer["second"] /\ writer'["first"].at = "cool"
      BY <1>0, <3>1, <3>2, WriterMoves
    <3> QED  BY <2>1, <3>1, <3>2, <3>3, OrderCut
  <2> QED  BY <1>7, <2>2, <2>3, <2>4, <2>5, <2>6 DEF WriterStep, WriterGoesOn
<1> QED
  BY <1>1, <1>2, <1>3, <1>4, <1>5, <1>6, <1>7 DEF PlaybackNext, SpeakerStep, EarStep

\* Steps that leave the queues, and what was heard, as they are.
LEMMA KeptFrame ==
  ASSUME KeptInv, UNCHANGED <<chunks, pending, heard, pushedTo>>, ended \subseteq ended',
         writer'["first"].at = "commit" =>
           writer["first"].at = "commit" /\ writer'["first"].slice = writer["first"].slice
  PROVE  KeptInv'
BY DEF KeptInv, WasHeard, Waits

\* A cut clears what waits for a player that ends with it.
LEMMA KeptCut ==
  ASSUME PlayTypes, WritersInv, OrderInv, KeptInv, NEW t \in Cutters, Cut(t),
         UNCHANGED <<heard, pushedTo>>, ended \subseteq ended', player \in ended',
         writer'["first"].at = "commit" => writer'["first"] = writer["first"]
  PROVE  KeptInv'
<1>1. \A s \in Sentence : Waits(s) => pushedTo[s] = player
  <2>1. \A i \in 1..Len(chunks) : pushedTo[chunks[i]] = player  BY DEF OrderInv, ChunksInv
  <2>2. \A i \in 1..Len(pending) : pushedTo[pending[i]] = player
    <3>1. SUFFICES ASSUME NEW i \in 1..Len(pending) PROVE pushedTo[pending[i]] = player
      OBVIOUS
    <3>2. Len(<<>>) = 0  OBVIOUS
    <3>3. /\ Busy("first") /\ writer["first"].gen = generation
          /\ pending = <<writer["first"].slice>>
      BY <3>1, <3>2 DEF OrderInv, FirstInv
    <3>4. pending[i] = writer["first"].slice  BY <3>1, <3>3
    <3>5. pushedTo[writer["first"].slice] = writer["first"].proc /\ writer["first"].proc = player
      BY <3>3, SentenceFacts DEF OrderInv, FirstInv, WritersInv
    <3> QED  BY <3>4, <3>5
  <2> QED  BY <2>1, <2>2 DEF Waits
<1>2. \A s \in Sentence : pushedTo'[s] \in ended' \cup {NoPlayer} \/ WasHeard(s)'
  BY <1>1 DEF KeptInv, WasHeard
<1>3. writer'["first"].at = "commit" => WasHeard(writer["first"].slice)
  BY DEF KeptInv
<1> QED  BY <1>2, <1>3 DEF KeptInv, WasHeard

\* No step but those of close() loses a sentence that a living player was to get.
LEMMA KeptStep ==
  ASSUME PlayTypes, WritersInv, closer = "open" => OrderInv /\ KeptInv, [PlaybackNext]_playbackVars,
         closer' = "open"
  PROVE  KeptInv'
<1> USE SentenceFacts
<1>0. WriterTypes /\ QueueTypes /\ HistoryTypes /\ SpeakTypes  BY TypesSplit
<1>a. ended \subseteq ended'  BY PastStays
<1>1. CASE CloseCuts \/ CloserStep
  BY <1>1 DEF CloseCuts, CloserStep, CloseStopsWriter, CloseEnds, VoiceStops, VoiceDrops
<1>2. CASE \/ Speak \/ NextSentence \/ Synthesised \/ PlayLooks \/ MismatchHandled \/ PaceSentence
           \/ PacerStep \/ CooledDown \/ BargeIn \/ EarDrops \/ UNCHANGED playbackVars
           \/ \E t \in Cutters : Kill(t)
           \/ \E p \in unreaped : Reap(p)
  <2>1. UNCHANGED <<chunks, pending, heard, pushedTo, writer, closer>>
    BY <1>2 DEF Speak, NextSentence, Synthesised, PlayLooks, MismatchHandled, PaceSentence,
       PacerStep, PacerLooks, PacerTakes, CooledDown, BargeIn, EarDrops, playbackVars, Kill, Reap,
       queueVars, writerVars, historyVars, actorVars
  <2> QED  BY <1>a, <2>1, KeptFrame
<1>3. CASE PlayOpens
  <2>1. UNCHANGED <<chunks, pending, heard, pushedTo, closer>>
    BY <1>3 DEF PlayOpens, historyVars, actorVars
  <2>2. writer'["first"] = writer["first"] \/ writer'["first"].at = "look"
    <3>1. StartWriter \/ UNCHANGED writerVars  BY <1>3 DEF PlayOpens
    <3> QED  BY <1>0, <3>1, StartWriterFacts DEF writerVars
  <2> QED  BY <1>a, <2>1, <2>2, KeptFrame
<1>4. CASE PushSentence
  <2>1. UNCHANGED <<said, pending, heard, writer, closer, ended>>  BY <1>4 DEF PushSentence, writerVars, actorVars
  <2>2. CASE UNCHANGED <<chunks, pushedTo>>  BY <1>a, <2>1, <2>2, KeptFrame
  <2>3. CASE chunks' = Append(chunks, said) /\ pushedTo' = [pushedTo EXCEPT ![said] = player]
    <3>1. said \in Sentence /\ said \in Nat  BY <1>0, <1>4 DEF PushSentence, SpeakTypes, Handing
    <3>2. chunks \in Seq(Sentence)  BY <1>0 DEF QueueTypes
    <3>3. /\ Len(chunks') = Len(chunks) + 1 /\ Len(chunks) \in Nat
          /\ \A i \in 1..Len(chunks) : chunks'[i] = chunks[i]
          /\ chunks'[Len(chunks) + 1] = said
      BY <2>3, <3>1, <3>2
    <3>4. 1..Len(chunks) \subseteq 1..Len(chunks') /\ Len(chunks) + 1 \in 1..Len(chunks')  BY <3>3
    <3>5. \A s \in Sentence : s # said => pushedTo'[s] = pushedTo[s]  BY <1>0, <2>3 DEF HistoryTypes
    <3>7. \A s \in Sentence : Waits(s) => Waits(s)'  BY <2>1, <3>3, <3>4 DEF Waits
    <3>8. \A s \in Sentence : WasHeard(s)' <=> WasHeard(s)  BY <2>1 DEF WasHeard
    <3>9. \A s \in Sentence : pushedTo'[s] \in ended' \cup {NoPlayer} \/ WasHeard(s)' \/ Waits(s)'
      <4>1. SUFFICES ASSUME NEW s \in Sentence
                     PROVE  pushedTo'[s] \in ended' \cup {NoPlayer} \/ WasHeard(s)' \/ Waits(s)'
        OBVIOUS
      <4>2. CASE s = said
        <5>1. \E i \in 1..Len(chunks') : chunks'[i] = s  BY <3>3, <3>4, <4>2
        <5> QED  BY <5>1 DEF Waits
      <4>3. CASE s # said  BY <2>1, <3>5, <3>7, <3>8, <4>3 DEF KeptInv
      <4> QED  BY <4>2, <4>3
    <3> QED  BY <2>1, <3>9 DEF KeptInv, WasHeard
  <2> QED  BY <1>4, <2>2, <2>3 DEF PushSentence
<1>5. CASE PlayVerified
  <2>1. UNCHANGED <<closer, writer, heard, pushedTo>>  BY <1>5 DEF PlayVerified, actorVars, writerVars
  <2>2. CASE Cut("speaker") /\ ended' = ended \cup {player}
    BY <1>a, <2>1, <2>2, KeptCut DEF Cutters
  <2>3. CASE UNCHANGED queueVars  BY <1>a, <2>1, <2>3, KeptFrame DEF queueVars
  <2> QED  BY <1>5, <2>2, <2>3 DEF PlayVerified
<1>6. CASE EarStops
  <2>1. UNCHANGED <<closer, writer, heard, pushedTo>> /\ Cut("ear") /\ ended' = ended \cup {player}
    BY <1>6 DEF EarStops, writerVars
  <2> QED  BY <1>a, <2>1, KeptCut DEF Cutters
<1>7. ASSUME NEW w \in Writers, WriterStep(w) PROVE KeptInv'
  <2>1. OrderInv /\ KeptInv
    BY <1>7 DEF WriterStep, WriterGoesOn, WriterLooks, WriterWrites, WriterCommits, WriterFails, WriterCools, actorVars
  <2>2. w = "first"
    BY <1>7, <2>1 DEF WriterStep, WriterGoesOn, WriterLooks, WriterWrites, WriterCommits, WriterFails,
       WriterCools, OrderInv, AloneInv
  <2>3. CASE WriterLooks("first")
    <3>1. /\ writer["first"].at = "look" /\ writerStop = FALSE /\ ~Busy("first") /\ pending = <<>>
          /\ UNCHANGED <<heard, pushedTo>>
      BY <2>1, <2>3 DEF WriterLooks, OrderInv, AloneInv, FirstInv, Busy, historyVars
    <3>2. PICK x \in WriterStates :
            /\ x.at = "write" /\ writer' = [writer EXCEPT !["first"] = x]
            /\ chunks # <<>> /\ pending' = <<Head(chunks)>> /\ chunks' = Tail(chunks)
      BY <1>0, <2>3, <3>1, WriterTakes
    <3>3. writer'["first"] = x  BY <1>0, <3>2, WriterSet
    <3>4. /\ Len(chunks) \in Nat \ {0} /\ Len(chunks') = Len(chunks) - 1 /\ Head(chunks) = chunks[1]
          /\ \A i \in 1..Len(chunks') : chunks'[i] = chunks[i + 1]
      BY <1>0, <3>2, HeadTail DEF QueueTypes
    <3>5. Len(pending') = 1 /\ pending'[1] = chunks[1]
      <4> DEFINE h == Head(chunks)
      <4>1. pending' = <<h>> /\ h = chunks[1]  BY <3>2, <3>4
      <4> HIDE DEF h
      <4> QED  BY <4>1
    <3>6. \A s \in Sentence : Waits(s) => Waits(s)'
      <4>1. SUFFICES ASSUME NEW s \in Sentence, NEW i \in 1..Len(chunks), chunks[i] = s PROVE Waits(s)'
        <5>1. Len(<<>>) = 0  OBVIOUS
        <5> QED  BY <3>1, <5>1 DEF Waits
      <4>2. CASE i = 1
        <5>1. 1 \in 1..Len(pending')  BY <3>5
        <5> QED  BY <3>5, <4>1, <4>2, <5>1 DEF Waits
      <4>3. CASE i # 1
        <5>1. i - 1 \in 1..Len(chunks') /\ (i - 1) + 1 = i  BY <3>4, <4>3
        <5>2. chunks'[i - 1] = s  BY <3>4, <4>1, <5>1
        <5> QED  BY <5>1, <5>2 DEF Waits
      <4> QED  BY <4>2, <4>3
    <3>7. \A s \in Sentence : WasHeard(s)' <=> WasHeard(s)  BY <3>1 DEF WasHeard
    <3> QED  BY <1>a, <2>1, <3>1, <3>2, <3>3, <3>6, <3>7 DEF KeptInv
  <2>4. CASE WriterWrites("first")
    <3> DEFINE slice == writer["first"].slice
    <3>1. UNCHANGED <<chunks, pending, pushedTo>> /\ writer["first"].at = "write"
      BY <2>4 DEF WriterWrites, queueVars
    <3>2. \/ /\ heard' = Append(heard, <<writer["first"].proc, slice>>)
             /\ writer' = [writer EXCEPT !["first"].at = "commit"]
          \/ heard' = heard /\ writer' = [writer EXCEPT !["first"].at = "failed"]
      BY <2>4 DEF WriterWrites
    <3>3. CASE heard' = heard /\ writer' = [writer EXCEPT !["first"].at = "failed"]
      <4>1. writer'["first"].at = "failed"
        <5>1. "failed" \in Places  BY DEF Places
        <5> QED  BY <1>0, <3>3, <5>1, WriterMoves
      <4> QED  BY <1>a, <2>1, <3>1, <3>3, <4>1, KeptFrame
    <3>4. CASE /\ heard' = Append(heard, <<writer["first"].proc, slice>>)
               /\ writer' = [writer EXCEPT !["first"].at = "commit"]
      <4> DEFINE e == <<writer["first"].proc, slice>>
      <4>1. slice \in Sentence /\ e \in Nat \X Sentence /\ e[2] = slice
        BY <1>0, <3>1 DEF WriterTypes, Busy
      <4>2. writer'["first"].slice = slice
        <5>1. "commit" \in Places  BY DEF Places
        <5> QED  BY <1>0, <3>4, <5>1, WriterMoves
      <4>3. heard \in Seq(Nat \X Sentence) /\ heard' = Append(heard, e)  BY <1>0, <3>4 DEF HistoryTypes
      <4> HIDE DEF e, slice
      <4>4. /\ Len(heard') = Len(heard) + 1 /\ Len(heard) \in Nat
            /\ \A i \in 1..Len(heard) : heard'[i] = heard[i]
            /\ heard'[Len(heard) + 1] = e
        BY <4>1, <4>3
      <4>5. 1..Len(heard) \subseteq 1..Len(heard') /\ Len(heard) + 1 \in 1..Len(heard')  BY <4>4
      <4>6. WasHeard(slice)' /\ \A s \in Sentence : WasHeard(s) => WasHeard(s)'
        BY <4>1, <4>2, <4>4, <4>5 DEF WasHeard, slice
      <4>7. \A s \in Sentence : Waits(s) => Waits(s)'  BY <3>1 DEF Waits
      <4>8. WasHeard(writer["first"].slice)'
        <5>1. \E i \in 1..Len(heard') : heard'[i][2] = slice  BY <4>1, <4>4, <4>5
        <5> QED  BY <4>2, <5>1 DEF WasHeard
      <4> QED  BY <1>a, <2>1, <3>1, <4>6, <4>7, <4>8 DEF KeptInv, WasHeard
    <3> QED  BY <3>2, <3>3, <3>4
  <2>5. CASE WriterCommits("first")
    <3>1. /\ writer["first"].at = "commit" /\ writer' = [writer EXCEPT !["first"].at = "look"]
          /\ UNCHANGED <<chunks, heard, pushedTo>>
          /\ pending' = pending \/ (pending # <<>> /\ Head(pending) = writer["first"].slice)
      BY <2>5 DEF WriterCommits, historyVars
    <3>2. writer'["first"].at = "look"
      <4>1. "look" \in Places  BY DEF Places
      <4> QED  BY <1>0, <3>1, <4>1, WriterMoves
    <3>3. CASE pending' = pending  BY <1>a, <2>1, <3>1, <3>2, <3>3, KeptFrame
    <3>4. CASE pending # <<>> /\ Head(pending) = writer["first"].slice
      <4>1. pending = <<writer["first"].slice>>  BY <2>1, <3>4 DEF OrderInv, FirstInv
      <4>2. \A s \in Sentence : Waits(s) => Waits(s)' \/ WasHeard(s)
        <5>1. \A i \in 1..Len(pending) : pending[i] = writer["first"].slice  BY <4>1
        <5>2. WasHeard(writer["first"].slice)  BY <2>1, <3>1 DEF KeptInv
        <5> QED  BY <3>1, <5>1, <5>2 DEF Waits
      <4>3. \A s \in Sentence : WasHeard(s)' <=> WasHeard(s)  BY <3>1 DEF WasHeard
      <4> QED  BY <1>a, <2>1, <3>1, <3>2, <4>2, <4>3 DEF KeptInv
    <3> QED  BY <3>1, <3>3, <3>4
  <2>6. CASE WriterCools("first") \/ (WriterFails("first") /\ writer["first"].gen # generation)
    <3>1. writer' = [writer EXCEPT !["first"].at = "look"] /\ UNCHANGED <<chunks, pending, heard, pushedTo>>
      BY <2>6 DEF WriterCools, WriterFails, queueVars, historyVars
    <3>2. writer'["first"].at = "look"
      <4>1. "look" \in Places  BY DEF Places
      <4> QED  BY <1>0, <3>1, <4>1, WriterMoves
    <3> QED  BY <1>a, <2>1, <3>1, <3>2, KeptFrame
  <2>7. CASE WriterFails("first") /\ writer["first"].gen = generation
    <3>1. /\ Cut("first") /\ writer["first"].at = "failed" /\ UNCHANGED <<heard, pushedTo>>
          /\ writer' = [writer EXCEPT !["first"].at = "cool"]
      BY <2>7 DEF WriterFails, historyVars
    <3>2. writer'["first"].at = "cool"
      <4>1. "cool" \in Places  BY DEF Places
      <4> QED  BY <1>0, <3>1, <4>1, WriterMoves
    <3>3. player \in ended  BY <2>7, <3>1 DEF WritersInv, Busy
    <3> QED  BY <1>a, <2>1, <3>1, <3>2, <3>3, KeptCut DEF Cutters
  <2> QED  BY <1>7, <2>2, <2>3, <2>4, <2>5, <2>6, <2>7 DEF WriterStep, WriterGoesOn
<1> QED
  BY <1>1, <1>2, <1>3, <1>4, <1>5, <1>6, <1>7 DEF PlaybackNext, SpeakerStep, EarStep

\* The invariant holds at the start.
LEMMA PlayInvInit ==
  ASSUME PlaybackInit
  PROVE  PlayInv
<1> USE SentenceFacts DEF PlaybackInit
<1>1. PlayTypes
  <2>1. IdleWriter \in WriterStates /\ IdleWriter.at = "none"  BY IdleFacts
  <2>2. \A w \in Writers : writer[w] = IdleWriter /\ ~Busy(w)  BY <2>1 DEF Busy
  <2>0. /\ 0 \in 0..MaxSaid /\ 0 \in Nat /\ FALSE \in BOOLEAN /\ NoPlayer \in 1..started \cup {NoPlayer}
        /\ Len(<<>>) = 0 /\ <<>> \in Seq(Sentence) /\ {} \subseteq Sentence
    OBVIOUS
  <2>3. SpeakTypes
    <3>1. ~Handing /\ talk # "synth"  BY DEF Handing
    <3>2. said \in 0..MaxSaid /\ talk = "idle" /\ interrupted \in BOOLEAN  BY <2>0
    <3> QED  BY <3>1, <3>2 DEF SpeakTypes
  <2>4. PaceTypes
    <3>1. paceStop \in BOOLEAN /\ pacer = "none"  BY <2>0
    <3>2. paceBuffer \in Seq(Sentence) /\ traced \subseteq Sentence /\ untraced \subseteq Sentence  BY <2>0
    <3> QED  BY <3>1, <3>2 DEF PaceTypes
  <2>5. QueueTypes
    <3>1. chunks \in Seq(Sentence) /\ pending \in Seq(Sentence) /\ Len(pending) = 0  BY <2>0
    <3>2. player \in 1..started \cup {NoPlayer} /\ doom \in [Cutters -> 1..started \cup {NoPlayer}]  BY <2>0
    <3>3. generation \in Nat /\ isPlaying \in BOOLEAN  BY <2>0
    <3> QED  BY <3>1, <3>2, <3>3 DEF QueueTypes
  <2>6. ChildTypes  BY DEF ChildTypes
  <2>7. WriterTypes  BY <2>1, <2>2 DEF WriterTypes
  <2>8. HistoryTypes  BY DEF HistoryTypes
  <2>9. EndTypes  BY DEF EndTypes
  <2> QED  BY <2>3, <2>4, <2>5, <2>6, <2>7, <2>8, <2>9, TypesSplit
<1>2. \A w \in Writers : writer[w] = IdleWriter /\ ~Busy(w)  BY IdleFacts DEF Busy
<1>3. WritersInv  BY <1>2, IdleFacts DEF WritersInv
<1>4. OrderInv
  <2>1. Len(<<>>) = 0 /\ 1..0 = {}  OBVIOUS
  <2>2. ChunksInv  BY <2>1 DEF ChunksInv
  <2>3. HeardInv  BY <2>1 DEF HeardInv
  <2>4. FirstInv  BY <1>2 DEF FirstInv
  <2>5. AloneInv  BY <1>2, IdleFacts DEF AloneInv
  <2> QED  BY <2>2, <2>3, <2>4, <2>5 DEF OrderInv
<1>5. TraceInv
  <2>1. Len(paceBuffer) = 0 /\ DOMAIN paceBuffer = {} /\ 1..said = {}  OBVIOUS
  <2>2. InBuffer = {} /\ Handed = {} /\ TraceOnce  BY <2>1 DEF InBuffer, Handed, TraceOnce
  <2> QED  BY <1>1, <2>2, TraceSplit
<1>6. KeptInv  BY <1>2, IdleFacts DEF KeptInv
<1> QED  BY <1>1, <1>3, <1>4, <1>5, <1>6 DEF PlayInv

\* The inductive invariant: types, writers, order and trace.
THEOREM PlayInvHolds == PlaybackSpec => []PlayInv
<1>1. PlaybackInit => PlayInv  BY PlayInvInit
<1>2. PlayInv /\ [PlaybackNext]_playbackVars => PlayInv'
  <2> SUFFICES ASSUME PlayInv, [PlaybackNext]_playbackVars PROVE PlayInv'
    OBVIOUS
  <2>1. PlayTypes'  BY PlayTypesStep DEF PlayInv
  <2>2. WritersInv'  BY WritersStep DEF PlayInv
  <2>3. closer' = "open" => OrderInv' /\ KeptInv'  BY OrderStep, KeptStep DEF PlayInv
  <2>4. TraceInv'  BY <2>1, TraceStep DEF PlayInv
  <2> QED  BY <2>1, <2>2, <2>3, <2>4 DEF PlayInv
<1> QED  BY <1>1, <1>2, PTL DEF PlaybackSpec

\* Until the endpoint is closed, what is said is heard once, in order and through the
\* player it was queued for; what was queued is heard or waits, unless its player was barged
\* in on, mistaken or failed; and only a fault of the device starts a cool-down.
THEOREM CutsLeaveNoTrace == PlaybackSpec => []CutsAreClean
<1>1. PlayInv => CutsAreClean
  <2> SUFFICES ASSUME PlayInv PROVE CutsAreClean
    OBVIOUS
  <2>1. DOMAIN heard = 1..Len(heard)  BY DEF PlayInv, PlayTypes
  <2>2. closer = "open" => /\ \A i, j \in 1..Len(heard) : i < j => heard[i][2] < heard[j][2]
                           /\ \A i \in 1..Len(heard) : pushedTo[heard[i][2]] = heard[i][1]
    BY DEF PlayInv, OrderInv, HeardInv
  <2>3. cooling => faulted  BY DEF PlayInv, WritersInv
  <2>4. DOMAIN chunks = 1..Len(chunks) /\ DOMAIN pending = 1..Len(pending)
    BY DEF PlayInv, PlayTypes, PlaybackTypeOK
  <2>5. closer = "open" =>
          \A s \in Sentence : pushedTo[s] \notin ended \cup {NoPlayer} =>
            s \in {heard[i][2] : i \in DOMAIN heard} \cup {chunks[i] : i \in DOMAIN chunks}
                  \cup {pending[i] : i \in DOMAIN pending}
    BY <2>1, <2>4 DEF PlayInv, KeptInv, WasHeard, Waits
  <2> QED  BY <2>1, <2>2, <2>3, <2>5 DEF CutsAreClean
<1> QED  BY <1>1, PlayInvHolds, PTL

\* Every sentence handed to play is traced, waits for it, or is counted as not traced, and
\* only one of these.
THEOREM SentencesAreTraced == PlaybackSpec => []TraceAccounted
<1>1. PlayInv => TraceAccounted  BY DEF PlayInv, TraceInv
<1> QED  BY <1>1, PlayInvHolds, PTL
=============================================================================

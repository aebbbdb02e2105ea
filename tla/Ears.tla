-------------------------------- MODULE Ears --------------------------------
(***************************************************************************)
(* The ear of the daemon (daemon/app.py): exactly one audio endpoint is    *)
(* attached; it is started and stopped from the page, displaced by another *)
(* one, muted, and taken down when the daemon closes.  Behind it, one      *)
(* realtime session to the gateway, dialled at the ear's rate, on a thread *)
(* of its own (_ears_main, _listen), over one client (realtime.client).    *)
(*                                                                         *)
(* Threads: those of the control pool, the shutdown step that detaches,    *)
(* the closer, the capture thread of each endpoint, the thread of each     *)
(* session.  Grain: one action is one access to a field that another       *)
(* thread writes, or one call that leaves the module.  Time is left out: a *)
(* bounded wait may end at any moment, with two exceptions: a frame handed *)
(* to the client is there before a teardown's bound runs out, and a new    *)
(* thread has its loop before anything is asked of it.                     *)
(***************************************************************************)
EXTENDS Naturals, FiniteSets

CONSTANTS
  EarCallers,       \* threads of the control pool
  Muters,           \* those of them that are asked to mute
  EarRates,         \* sample rates endpoints may have, in the order they are built
  Preempts,         \* preempt_ear
  Words,            \* what the operator may ask: TRUE to mute, FALSE to unmute
  Closing,          \* is the daemon closed
  Breaks,           \* do handshakes fail and streams break
  MaxEars           \* bound: endpoints built, and so sessions dialled

ASSUME EarsAssumption ==
  /\ {Preempts, Closing, Breaks} \cup Words \subseteq BOOLEAN /\ MaxEars \in Nat \ {0}
  /\ Muters \subseteq EarCallers /\ {"detacher", "nobody"} \cap EarCallers = {}
  /\ \A rate \in EarRates : DOMAIN rate = 1..MaxEars

NoneYet == 0
Ear == 1..MaxEars
Rates == UNION {{rate[e] : e \in Ear} : rate \in EarRates}
EarThreads == EarCallers \cup {"detacher"}   \* the last: close()'s detach step

VARIABLES
  stopping,         \* _closed and _stopping, which close() sets together
  closing,          \* where close() is
  earLock,          \* who holds _ear_lock
  call,             \* per thread: [at, ear, old, mute]
  theEar,           \* _ear_name, _ear_endpoint
  earGeneration,    \* _generation
  muteIntent,       \* _mute_intent
  \* endpoints
  built, earRate,   \* how many; the rate of each
  bound,            \* the generation its callback is bound to
  capturing, mutedEars,
  leftOver,         \* _unreaped_endpoints
  capture,          \* where each capture thread is
  \* sessions
  client,           \* _ears
  clientRate,       \* _ears_rate
  liveSession,      \* _ears_session
  sess,             \* per session: [at, rate, asked, told, up, takes], see NoSession
  \* history
  lateFrames,       \* ears with a frame in hand that was read after they were retired
  amiss,            \* what was ever amiss with a frame the client took
  muteAcked,        \* was the operator's last word a mute, and has set_mute returned
  missed            \* ears attached between the two lines of a set_mute, see CarryMute

callVars == <<stopping, closing, earLock, call>>
earVars == <<theEar, earGeneration, muteIntent>>
endpointVars == <<built, earRate, bound, capturing, mutedEars, leftOver>>
sessionVars == <<client, clientRate, liveSession, sess>>
frameVars == <<capture, lateFrames, amiss>>
muteVars == <<muteAcked, missed>>
earsVars == <<callVars, earVars, endpointVars, sessionVars, frameVars, muteVars>>

IdleCall == [at |-> "idle", ear |-> NoneYet, old |-> NoneYet, mute |-> FALSE]
\* at: where its thread is; asked: is its loop to close the client; told: closed is set;
\* up: the client's socket is open; takes: the client takes frames.
NoSession == [at |-> "none", rate |-> NoneYet, asked |-> FALSE, told |-> FALSE, up |-> FALSE, takes |-> TRUE]

EarsInit ==
  /\ stopping = FALSE /\ closing = "open" /\ earLock = "nobody"
  /\ call = [c \in EarThreads |-> IdleCall]
  /\ theEar = NoneYet /\ earGeneration = 0 /\ muteIntent = FALSE
  /\ built = 0 /\ earRate \in EarRates /\ bound = [e \in Ear |-> 0]
  /\ capturing = {} /\ mutedEars = {} /\ leftOver = {}
  /\ client = NoneYet /\ clientRate = NoneYet /\ liveSession = NoneYet
  /\ sess = [s \in Ear |-> NoSession]
  /\ capture = [e \in Ear |-> "idle"] /\ lateFrames = {}
  /\ amiss = {} /\ muteAcked = FALSE /\ missed = {}

Goes(c, there) == call' = [call EXCEPT ![c].at = there]
Returns(c) == call' = [call EXCEPT ![c] = IdleCall]
Unlocks(c) == earLock' = "nobody" /\ Returns(c)

(***************************************************************************)
(* Starting: _control_start_voice, attach_ear, _install_ear.               *)
(***************************************************************************)

\* No ear was seen, so an endpoint is built -- by as many threads as saw none.
StartVoice(c) ==
  /\ call[c].at = "idle" /\ theEar = NoneYet /\ built < MaxEars
  /\ built' = built + 1
  /\ call' = [call EXCEPT ![c].at = "attach", ![c].ear = built']
  /\ UNCHANGED <<stopping, closing, earLock, earVars, earRate, bound, capturing, mutedEars, leftOver,
                 sessionVars, frameVars, muteVars>>

\* _teardown_ear, its bookkeeping: it comes before any call to the endpoint.
RetireEar(c) ==
  /\ theEar' = NoneYet /\ earGeneration' = earGeneration + 1
  /\ call' = [call EXCEPT ![c].at = "teardown", ![c].old = theEar]

AttachLocks(c) ==
  /\ call[c].at = "attach" /\ earLock = "nobody"
  /\ IF stopping \/ (theEar # NoneYet /\ ~Preempts)
     THEN Returns(c) /\ UNCHANGED <<earLock, theEar, earGeneration>>
     ELSE /\ earLock' = c
          /\ IF theEar = NoneYet THEN Goes(c, "install") /\ UNCHANGED <<theEar, earGeneration>> ELSE RetireEar(c)
  /\ UNCHANGED <<stopping, closing, muteIntent, endpointVars, sessionVars, frameVars, muteVars>>

\* The rest of it: the endpoint's capture thread is joined -- or the call hangs, and its
\* bound runs out.
TeardownEnds(c) ==
  /\ call[c].at = "teardown"
  /\ \/ capture[call[c].old] = "idle" /\ capturing' = capturing \ {call[c].old} /\ UNCHANGED leftOver
     \/ capture[call[c].old] # "send" /\ leftOver' = leftOver \cup {call[c].old} /\ UNCHANGED capturing
  /\ \/ /\ call[c].ear # NoneYet /\ UNCHANGED earLock
        /\ call' = [call EXCEPT ![c].at = "install", ![c].old = NoneYet]
     \/ /\ call[c].ear = NoneYet /\ c = "detacher" /\ earLock' = "nobody"
        /\ call' = [call EXCEPT ![c] = [IdleCall EXCEPT !.at = "reap"]]
     \/ call[c].ear = NoneYet /\ c # "detacher" /\ Unlocks(c)
  /\ UNCHANGED <<stopping, closing, earVars, built, earRate, bound, mutedEars, sessionVars, frameVars, muteVars>>

\* What hung returns after all.
TeardownLate(e) ==
  /\ e \in leftOver \cap capturing /\ capture[e] = "idle" /\ capturing' = capturing \ {e}
  /\ UNCHANGED <<callVars, earVars, built, earRate, bound, mutedEars, leftOver, sessionVars, frameVars, muteVars>>

\* endpoint.attach, which may fail; then _ensure_ears_session, which keeps a session of
\* the same rate, whatever became of it.
InstallEar(c) ==
  /\ call[c].at = "install"
  /\ \/ /\ earGeneration' = earGeneration + 1 /\ theEar' = call[c].ear
        /\ Goes(c, CASE client = NoneYet                                  -> "dial"
                     [] client # NoneYet /\ earRate[theEar'] = clientRate -> "capture"
                     [] OTHER                                             -> "ask")
        /\ UNCHANGED earLock
     \/ Unlocks(c) /\ UNCHANGED <<theEar, earGeneration>>
  /\ UNCHANGED <<stopping, closing, muteIntent, endpointVars, sessionVars, frameVars, muteVars>>

\* _stop_ears: the loop of the session's thread is asked to close the client -- unless the
\* session was told already, or has ended.
AskToClose ==
  IF liveSession = NoneYet \/ sess[liveSession].told \/ sess[liveSession].at = "ended"
  THEN UNCHANGED sess
  ELSE sess' = [sess EXCEPT ![liveSession].asked = TRUE]

RedialAsks(c) ==
  /\ call[c].at = "ask" /\ Goes(c, "join")
  /\ AskToClose
  /\ UNCHANGED <<stopping, closing, earLock, earVars, endpointVars, client, clientRate, liveSession,
                 frameVars, muteVars>>

\* The thread is joined, or left to finish on its own.
RedialJoins(c) ==
  /\ call[c].at = "join" /\ Goes(c, "dial")
  /\ liveSession' = NoneYet
  /\ UNCHANGED <<stopping, closing, earLock, earVars, endpointVars, client, clientRate, sess, frameVars, muteVars>>

\* _start_ears_session; the factory may fail.
DialSession(c) ==
  /\ call[c].at = "dial" /\ Goes(c, "capture")
  /\ \/ \E s \in Ear :
          /\ sess[s].at = "none" /\ \A r \in Ear : r < s => sess[r].at # "none"
          /\ client' = s /\ liveSession' = s /\ clientRate' = earRate[theEar]
          /\ sess' = [sess EXCEPT ![s] = [NoSession EXCEPT !.at = "connecting", !.rate = earRate[theEar]]]
     \/ client' = NoneYet /\ UNCHANGED <<clientRate, liveSession, sess>>
  /\ UNCHANGED <<stopping, closing, earLock, earVars, endpointVars, frameVars, muteVars>>

\* The capture thread runs before start_capture returns; or there is none (the device is
\* degraded); or it raises.
StartCapture(c) ==
  /\ call[c].at = "capture"
  /\ \/ /\ capturing' \in {capturing, capturing \cup {theEar}} /\ bound' = [bound EXCEPT ![theEar] = earGeneration]
        /\ Goes(c, "carry") /\ UNCHANGED <<earLock, theEar, earGeneration>>
     \/ /\ theEar' = NoneYet /\ earGeneration' = earGeneration + 1
        /\ Unlocks(c) /\ UNCHANGED <<capturing, bound>>
  /\ UNCHANGED <<stopping, closing, muteIntent, built, earRate, mutedEars, leftOver, sessionVars,
                 frameVars, muteVars>>

\* Mutant: a new ear comes up hot, whatever was asked of the one before.
BadCarryMute(c) ==
  /\ call[c].at = "carry" /\ Unlocks(c)
  /\ UNCHANGED <<stopping, closing, earVars, endpointVars, sessionVars, frameVars, muteVars>>

\* A mute is being said to the ear before this one, or to none, and is not the intent yet.
Crossed == \E m \in Muters : call[m].at = "mute" /\ call[m].mute /\ call[m].ear # theEar

\* _carry_mute: the last thing an attach does that matters here.  It takes the intent as
\* it stands: it misses a mute that is between its two lines.
CarryMute(c) ==
  /\ call[c].at = "carry" /\ Unlocks(c)
  /\ IF muteIntent THEN mutedEars' = mutedEars \cup {theEar} /\ UNCHANGED missed
     ELSE missed' = (IF Crossed THEN missed \cup {theEar} ELSE missed) /\ UNCHANGED mutedEars
  /\ UNCHANGED <<stopping, closing, earVars, built, earRate, bound, capturing, leftOver, sessionVars,
                 frameVars, muteAcked>>

(***************************************************************************)
(* Stopping, and the close: _control_stop_voice, detach_ear, close.        *)
(***************************************************************************)
StopVoice(c) ==
  /\ call[c].at = "idle" /\ Goes(c, "detach")
  /\ UNCHANGED <<stopping, closing, earLock, earVars, endpointVars, sessionVars, frameVars, muteVars>>

DetachLocks(c) ==
  /\ call[c].at = "detach" /\ earLock = "nobody"
  /\ IF theEar = NoneYet
     THEN /\ IF c = "detacher" THEN Goes(c, "reap") ELSE Returns(c)
          /\ UNCHANGED <<earLock, theEar, earGeneration>>
     ELSE earLock' = c /\ RetireEar(c)
  /\ UNCHANGED <<stopping, closing, muteIntent, endpointVars, sessionVars, frameVars, muteVars>>

\* _reap_endpoints: those that hang again stay.
ReapEars ==
  /\ call["detacher"].at = "reap" /\ Returns("detacher")
  /\ leftOver' \in SUBSET leftOver
  /\ \A e \in leftOver \ leftOver' : capture[e] = "idle"
  /\ capturing' = capturing \ (leftOver \ leftOver')
  /\ UNCHANGED <<stopping, closing, earLock, earVars, built, earRate, bound, mutedEars,
                 sessionVars, frameVars, muteVars>>

\* close takes no ear lock; the step that detaches is a thread of its own, waited for
\* no longer than its share.
CloseBegins ==
  /\ Closing /\ closing = "open" /\ closing' = "detaching" /\ stopping' = TRUE
  /\ Goes("detacher", "detach")
  /\ UNCHANGED <<earLock, earVars, endpointVars, sessionVars, frameVars, muteVars>>

CloseStopsEars ==
  /\ closing = "detaching" /\ closing' = "closed"
  /\ AskToClose
  /\ UNCHANGED <<stopping, earLock, call, earVars, endpointVars, client, clientRate, liveSession,
                 frameVars, muteVars>>

(***************************************************************************)
(* Muting: set_mute.                                                       *)
(***************************************************************************)
\* It takes the endpoint there is.  One at a time, so that there is a last word.
MuteReads(c) ==
  /\ c \in Muters /\ call[c].at = "idle" /\ \A d \in Muters : call[d].at \notin {"mute", "apply"}
  /\ \E wanted \in Words :
       call' = [call EXCEPT ![c] = [at |-> "mute", ear |-> theEar, old |-> NoneYet, mute |-> wanted]]
  /\ muteAcked' = FALSE
  /\ UNCHANGED <<stopping, closing, earLock, earVars, endpointVars, sessionVars, frameVars, missed>>

\* The operator has the answer, whichever ear the word was said to.
MuteReturns(c) == Returns(c) /\ muteAcked' = call[c].mute

MuteSets(c) ==
  /\ call[c].at = "mute" /\ muteIntent' = call[c].mute
  /\ IF call[c].ear = NoneYet THEN MuteReturns(c) ELSE Goes(c, "apply") /\ UNCHANGED muteAcked
  /\ UNCHANGED <<stopping, closing, earLock, theEar, earGeneration, endpointVars, sessionVars, frameVars,
                 missed>>

\* endpoint.mute, of the endpoint that was there when it was taken.
MuteApplies(c) ==
  /\ call[c].at = "apply" /\ MuteReturns(c)
  /\ mutedEars' = IF call[c].mute THEN mutedEars \cup {call[c].ear} ELSE mutedEars \ {call[c].ear}
  /\ missed' = missed \ {call[c].ear}
  /\ UNCHANGED <<stopping, closing, earLock, earVars, built, earRate, bound, capturing, leftOver,
                 sessionVars, frameVars>>

(***************************************************************************)
(* The capture thread of an endpoint: _capture_loop and on_frame.          *)
(***************************************************************************)
FrameRead(e) ==
  /\ e \in capturing \ mutedEars /\ capture[e] = "idle"
  /\ capture' = [capture EXCEPT ![e] = "check"]
  /\ lateFrames' = IF e = theEar THEN lateFrames ELSE lateFrames \cup {e}
  /\ UNCHANGED <<callVars, earVars, endpointVars, sessionVars, amiss, muteVars>>

\* A frame of an older generation goes nowhere (_note_stale_frame).
FrameCheck(e) ==
  /\ capture[e] = "check"
  /\ IF bound[e] = earGeneration
     THEN capture' = [capture EXCEPT ![e] = "send"] /\ UNCHANGED lateFrames
     ELSE capture' = [capture EXCEPT ![e] = "idle"] /\ lateFrames' = lateFrames \ {e}
  /\ UNCHANGED <<callVars, earVars, endpointVars, sessionVars, amiss, muteVars>>

\* send_audio of the client there is now: it takes the frame, or refuses it.
FrameSend(e) ==
  /\ capture[e] = "send" /\ capture' = [capture EXCEPT ![e] = "idle"]
  /\ lateFrames' = lateFrames \ {e}
  /\ amiss' = IF client = NoneYet \/ ~sess[client].takes THEN amiss
              ELSE amiss \cup {w \in {"late", "rate"} :
                                 IF w = "late" THEN e \in lateFrames ELSE earRate[e] # sess[client].rate}
  /\ UNCHANGED <<callVars, earVars, endpointVars, sessionVars, muteVars>>

(***************************************************************************)
(* The thread of a session: _ears_main, _listen; and on its loop the close *)
(* asked of it, _shut_ears_down.                                           *)
(***************************************************************************)
SessionMoves(s, new) ==
  /\ sess' = [sess EXCEPT ![s] = new]
  /\ UNCHANGED <<callVars, earVars, endpointVars, client, clientRate, liveSession, frameVars, muteVars>>

\* Nobody asks it anything any more; a socket that nobody closed stays open.
Ended(new) == [new EXCEPT !.at = "ended", !.asked = FALSE, !.told = FALSE]

\* _shut_ears_down from the listener: only the first to tell the session closes its client.
ShutDown(new) == IF new.told THEN Ended(new) ELSE [new EXCEPT !.at = "closing", !.told = TRUE]

\* Mutant: a stop that came during the handshake is not looked for after it.
BadSessionConnects(s) ==
  /\ sess[s].at = "connecting"
  /\ SessionMoves(s, [sess[s] EXCEPT !.at = "serving", !.up = TRUE])

\* connect succeeds, also when the client was closed meanwhile.
SessionConnects(s) ==
  /\ sess[s].at = "connecting"
  /\ LET connected == [sess[s] EXCEPT !.at = "serving", !.up = TRUE] IN
     SessionMoves(s, IF stopping THEN ShutDown(connected) ELSE connected)

\* A client that never connected goes on taking frames, up to its bound.
ConnectFails(s) ==
  /\ Breaks /\ sess[s].at = "connecting"
  /\ SessionMoves(s, IF stopping THEN ShutDown(sess[s]) ELSE Ended(sess[s]))

\* The peer closes, or an event comes after the stop; or the client was closed.
StreamBreaks(s) ==
  /\ Breaks /\ sess[s].at = "serving" /\ sess[s].up
  /\ \/ SessionMoves(s, ShutDown([sess[s] EXCEPT !.up = FALSE, !.takes = FALSE]))
     \/ stopping /\ SessionMoves(s, ShutDown(sess[s]))

StreamEnds(s) ==
  /\ sess[s].at = "serving" /\ ~sess[s].up
  /\ SessionMoves(s, ShutDown(sess[s]))

SessionCloses(s) ==
  /\ sess[s].at = "closing"
  /\ SessionMoves(s, Ended([sess[s] EXCEPT !.up = FALSE, !.takes = FALSE]))

\* The close asked for: it finds the session told, or it tells it and closes the client
\* -- which is nothing if it has no socket yet.
TaskCloses(s) ==
  /\ sess[s].at \in {"connecting", "serving", "closing"} /\ sess[s].asked
  /\ SessionMoves(s, IF sess[s].told THEN [sess[s] EXCEPT !.asked = FALSE]
                     ELSE [sess[s] EXCEPT !.asked = FALSE, !.told = TRUE, !.up = FALSE, !.takes = FALSE])

AttachStep(c) == AttachLocks(c) \/ InstallEar(c) \/ RedialAsks(c) \/ RedialJoins(c)
                 \/ DialSession(c) \/ StartCapture(c) \/ CarryMute(c)
EarCallStep(c) == AttachStep(c) \/ DetachLocks(c) \/ TeardownEnds(c) \/ MuteSets(c) \/ MuteApplies(c)
                  \/ (c = "detacher" /\ ReapEars)
SessionStep(s) == SessionConnects(s) \/ ConnectFails(s) \/ StreamEnds(s) \/ SessionCloses(s)
FrameStep(e) == FrameCheck(e) \/ FrameSend(e)

EarsNext ==
  \/ \E c \in EarCallers : StartVoice(c) \/ StopVoice(c) \/ MuteReads(c)
  \/ \E c \in EarThreads : EarCallStep(c)
  \/ CloseBegins \/ CloseStopsEars
  \/ \E e \in Ear : TeardownLate(e) \/ FrameRead(e) \/ FrameStep(e)
  \/ \E s \in Ear : SessionStep(s) \/ StreamBreaks(s) \/ TaskCloses(s)

EarsSpec == EarsInit /\ [][EarsNext]_earsVars

\* A call that was made goes on (its waits are bounded), a handshake has a deadline, a
\* close its budget; nobody has to call, no peer to hang up, no event to come.
EarsFairness ==
  /\ \A c \in EarThreads : WF_earsVars(EarCallStep(c))
  /\ WF_earsVars(CloseStopsEars)
  /\ \A e \in Ear : WF_earsVars(FrameStep(e))
  /\ \A s \in Ear : WF_earsVars(SessionStep(s)) /\ WF_earsVars(TaskCloses(s))

(***************************************************************************)
(* Properties.                                                             *)
(***************************************************************************)
Calls == [at : {"idle", "attach", "teardown", "install", "ask", "join", "dial", "capture", "carry",
                "detach", "reap", "mute", "apply"},
          ear : Ear \cup {NoneYet}, old : Ear \cup {NoneYet}, mute : BOOLEAN]
Sessions == [at : {"none", "connecting", "serving", "closing", "ended"}, rate : Rates \cup {NoneYet},
             asked : BOOLEAN, told : BOOLEAN, up : BOOLEAN, takes : BOOLEAN]

EarsTypeOK ==
  /\ stopping \in BOOLEAN /\ closing \in {"open", "detaching", "closed"}
  /\ earLock \in EarThreads \cup {"nobody"} /\ call \in [EarThreads -> Calls]
  /\ {theEar, client, liveSession} \subseteq Ear \cup {NoneYet} /\ earGeneration \in Nat
  /\ built \in 0..MaxEars /\ earRate \in EarRates /\ clientRate \in Rates \cup {NoneYet}
  /\ bound \in [Ear -> Nat] /\ sess \in [Ear -> Sessions]
  /\ capturing \cup mutedEars \cup leftOver \cup lateFrames \cup missed \subseteq 1..built
  /\ capture \in [Ear -> {"idle", "check", "send"}] /\ amiss \subseteq {"late", "rate"}
  /\ {muteIntent, muteAcked} \subseteq BOOLEAN

\* Of two ears that capture one was given up on; what is heard comes from the ear that
\* attached, in a session of its rate; and once its attach is over, an ear is muted if the
\* operator's last word was a mute, whatever ear that word was said to -- unless it was
\* attached after set_mute took the endpoint and before it wrote the intent (missed), and
\* no word was said to it since.
OneEarHeard ==
  /\ Cardinality(capturing \ leftOver) <= 1
  /\ amiss = {}
  /\ muteAcked /\ theEar # NoneYet /\ earLock = "nobody" => theEar \in mutedEars \cup missed

\* In the end of what was closed, and for good: no ear is attached, none captures but one
\* that was given up on, and the thread of the session has ended, however late an attach
\* or a handshake.
EarsClose ==
  <>[](stopping => /\ theEar = NoneYet /\ capturing \subseteq leftOver
                   /\ liveSession # NoneYet => sess[liveSession].at = "ended")
=============================================================================

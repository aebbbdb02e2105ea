------------------------------ MODULE EarsProofs ------------------------------
(***************************************************************************)
(* Theorem about Ears, for any number of threads, endpoints and rates: one *)
(* ear is heard, in a session of its rate, and muted when it should be.    *)
(*                                                                         *)
(* The lock serialises attach_ear and detach_ear, but neither the frames   *)
(* of the capture threads nor set_mute nor the close take it. What makes   *)
(* up for that is the generation: a callback is bound to the one its ear   *)
(* was installed in, RetireEar counts it up before anything else, and so a *)
(* frame that passes the check is one of the ear there is, or of one whose *)
(* teardown still waits for that very frame. That wait is why the rate of  *)
(* the client is right as well: it is changed only after it.               *)
(***************************************************************************)
EXTENDS Ears, FiniteSetTheorems, TLAPS

\* An ear that was installed and does not capture yet: attach_ear between _install_ear's
\* first assignment and start_capture.
Installed == {"ask", "join", "dial", "capture"}
\* Where a call holds the ear lock.
Holding == Installed \cup {"teardown", "install", "carry"}
\* A call that waits for this endpoint to stop.
TearsDown(c, e) == call[c].at = "teardown" /\ call[c].old = e
\* A call that brings an endpoint nobody has attached yet.
Comes(c) == call[c].at \in {"attach", "install"} \/ (call[c].at = "teardown" /\ call[c].ear # NoneYet)
\* Endpoints are numbered as they are built, and nothing is known of one that is not.
Built ==
  /\ theEar \in 0..built /\ \A c \in EarThreads : call[c].ear \in 0..built /\ call[c].old \in 0..built
  /\ \A e \in Ear : bound[e] # 0 \/ capture[e] # "idle" => e <= built
\* Who is inside attach_ear or detach_ear holds the lock, and nobody else does.
LockInv == \A c \in EarThreads : call[c].at \in Holding <=> earLock = c
\* What a call has in hand, by where it is: the ear it installed is the ear there is, and
\* during a teardown there is none.
CallInv ==
  /\ \A c \in EarThreads :
       /\ call[c].at \in Installed \cup {"attach", "install", "carry", "apply"} => call[c].ear # NoneYet
       /\ call[c].at \in Installed \cup {"carry"} => theEar = call[c].ear
       /\ call[c].at \in {"teardown", "install"} => theEar = NoneYet
       /\ call[c].at = "teardown" => call[c].old # NoneYet
       /\ call[c].at \in {"idle", "detach"} => call[c].ear = NoneYet
  /\ closing = "open" => call["detacher"].at = "idle"
\* An endpoint on its way has no callback, does not capture, and belongs to one call.
FreshInv ==
  \A c \in EarThreads : Comes(c) =>
    /\ call[c].ear # theEar /\ call[c].ear \notin capturing
    /\ capture[call[c].ear] = "idle" /\ bound[call[c].ear] = 0
    /\ \A d \in EarThreads :
         ~TearsDown(d, call[c].ear) /\ (Comes(d) /\ call[d].ear = call[c].ear => d = c)
\* Nor does one that was installed, until start_capture.
QuietInv ==
  \A c \in EarThreads : call[c].at \in Installed =>
    theEar \notin capturing /\ capture[theEar] = "idle" /\ bound[theEar] = 0
\* Whatever captures, or has a frame on its way to the client, is the ear there is or one
\* whose teardown is waited for -- or it was given up on, and then nothing of it is on its
\* way.
HeardInv ==
  \A e \in Ear : e \in capturing \ leftOver \/ capture[e] = "send"
                 => e = theEar \/ \E c \in EarThreads : TearsDown(c, e)
\* Only the ear there is can be bound to the generation that stands; a frame read of
\* another ear is therefore stopped by the check.
GenInv ==
  /\ theEar # NoneYet => earGeneration # 0
  /\ \A e \in Ear :
       /\ bound[e] \in 0..earGeneration
       /\ bound[e] = earGeneration /\ bound[e] # 0 => e = theEar
       /\ e \in capturing \/ capture[e] # "idle" => bound[e] # 0
       /\ e \in lateFrames => capture[e] = "check" /\ bound[e] < earGeneration
\* The client is of the rate of the ear that is heard.
RateInv ==
  client # NoneYet =>
    /\ sess[client].rate = clientRate
    /\ theEar # NoneYet /\ (\A c \in EarThreads : call[c].at \notin {"ask", "join", "dial"})
         => clientRate = earRate[theEar]
    /\ \A c \in EarThreads : call[c].at = "teardown" => clientRate = earRate[call[c].old]
\* The ear there is is muted, or missed the word, or an attach has still to carry it over.
WordKept ==
  \/ theEar \in mutedEars \cup missed \cup {NoneYet}
  \/ \E c \in EarThreads : call[c].at \in Installed \cup {"carry"}
\* A mute that is being said reaches the ear it was said to, and there is no other ear that
\* it does not reach; one that returned is the intent, and has reached the ear there is.
MuteInv ==
  /\ \A c \in EarThreads : call[c].at \in {"mute", "apply"} =>
       /\ c \in Muters /\ ~muteAcked
       /\ \A d \in EarThreads : call[d].at \in {"mute", "apply"} => d = c
       /\ call[c].at = "apply" => muteIntent = call[c].mute
       /\ call[c].mute => theEar = call[c].ear \/ WordKept
  /\ muteAcked => muteIntent /\ WordKept
\* The history of the frames is clean.
Right == amiss = {}
\* The inductive invariant.
EarsInv == EarsTypeOK /\ Built /\ LockInv /\ CallInv /\ FreshInv /\ QuietInv
        /\ HeardInv /\ GenInv /\ RateInv /\ MuteInv /\ Right

\* What a step leaves of the calls when it puts one of them somewhere.
Moved(c, at, ear, old, mute) ==
  /\ call' \in [EarThreads -> Calls]
  /\ call'[c].at = at /\ call'[c].ear = ear /\ call'[c].old = old /\ call'[c].mute = mute
  /\ \A d \in EarThreads : d # c => call'[d] = call[d]
\* A call goes on with what it has in hand.
Goer(c, at) == Moved(c, at, call[c].ear, call[c].old, call[c].mute)
\* Where a call can be.
Stages == {"idle", "attach", "teardown", "install", "ask", "join", "dial", "capture", "carry",
           "detach", "reap", "mute", "apply"}
\* A call returns.
Idles(c) == Moved(c, "idle", NoneYet, NoneYet, FALSE)

\* What the assumption on the constants says of ears and threads.
LEMMA EarFacts ==
  /\ NoneYet \notin Ear /\ Ear \subseteq Nat /\ NoneYet = 0 /\ (\A e \in Ear : e <= MaxEars /\ e > 0)
  /\ MaxEars \in Nat
  /\ EarCallers \subseteq EarThreads /\ "detacher" \in EarThreads /\ "nobody" \notin EarThreads
  /\ Muters \subseteq EarCallers /\ "detacher" \notin EarCallers
  /\ (\A rate \in EarRates, e \in Ear : rate[e] \in Rates)
  /\ Words \subseteq BOOLEAN
BY EarsAssumption DEF Ear, NoneYet, EarThreads, Rates

\* What an update of one call leaves.
LEMMA CallSet ==
  ASSUME EarsTypeOK, NEW c \in EarThreads, NEW new \in Calls, call' = [call EXCEPT ![c] = new]
  PROVE  Moved(c, new.at, new.ear, new.old, new.mute)
BY DEF EarsTypeOK, Moved

\* The moves of a call.
LEMMA CallMoves ==
  ASSUME EarsTypeOK, NEW c \in EarThreads
  PROVE  /\ Returns(c) => Idles(c)
         /\ \A at \in Stages : Goes(c, at) => Goer(c, at)
         /\ RetireEar(c) => Moved(c, "teardown", call[c].ear, theEar, call[c].mute)
<1>1. call \in [EarThreads -> Calls] /\ call[c] \in Calls /\ theEar \in Ear \cup {NoneYet}
  BY DEF EarsTypeOK
<1>2. Returns(c) => Idles(c)
  BY <1>1 DEF Returns, IdleCall, Idles, Moved, Calls
<1>3. ASSUME NEW at \in Stages, Goes(c, at) PROVE Goer(c, at)
  <2>1. [call[c] EXCEPT !.at = at] \in Calls
    BY <1>1 DEF Calls, Stages
  <2> QED BY <1>1, <1>3, <2>1 DEF Goes, Goer, Moved
<1>4. ASSUME RetireEar(c) PROVE Moved(c, "teardown", call[c].ear, theEar, call[c].mute)
  <2>1. [call[c] EXCEPT !.at = "teardown", !.old = theEar] \in Calls
    BY <1>1 DEF Calls
  <2> QED BY <1>1, <1>4, <2>1 DEF RetireEar, Moved
<1> QED BY <1>2, <1>3, <1>4

\* What an update of one session leaves.
LEMMA SessionSet ==
  ASSUME EarsTypeOK, NEW s \in Ear, NEW new \in Sessions, sess' = [sess EXCEPT ![s] = new]
  PROVE  sess' \in [Ear -> Sessions] /\ \A r \in Ear : sess'[r] = IF r = s THEN new ELSE sess[r]
BY DEF EarsTypeOK

\* Asking a session to close leaves its rate.
LEMMA AskKeeps ==
  ASSUME EarsTypeOK, AskToClose
  PROVE  sess' \in [Ear -> Sessions] /\ \A s \in Ear : sess'[s].rate = sess[s].rate
<1>1. CASE UNCHANGED sess
  BY <1>1 DEF EarsTypeOK
<1>2. CASE liveSession \in Ear /\ sess' = [sess EXCEPT ![liveSession].asked = TRUE]
  <2> DEFINE new == [sess[liveSession] EXCEPT !.asked = TRUE]
  <2>1. sess[liveSession] \in Sessions
    BY <1>2 DEF EarsTypeOK
  <2>2. new \in Sessions /\ new.rate = sess[liveSession].rate
    BY <2>1 DEF Sessions
  <2>3. sess' = [sess EXCEPT ![liveSession] = new]
    BY <1>2
  <2> HIDE DEF new
  <2> QED BY <1>2, <2>2, <2>3, SessionSet
<1> QED BY <1>1, <1>2 DEF AskToClose, EarsTypeOK

\* Building an endpoint.
LEMMA StartVoiceKeeps ==
  ASSUME EarsInv, NEW c \in EarCallers, StartVoice(c)
  PROVE  EarsInv'
<1>1. UNCHANGED <<stopping, closing, earLock, theEar, earGeneration, muteIntent, earRate, bound,
                  capturing, mutedEars, leftOver, client, clientRate, liveSession, sess, capture,
                  lateFrames, amiss, muteAcked, missed>>
  BY DEF StartVoice, earVars, sessionVars, frameVars, muteVars
<1>2. Moved(c, "attach", built', call[c].old, call[c].mute) /\ call[c].at = "idle"
        /\ built' = built + 1 /\ built' \in Ear
  <2> DEFINE new == [call[c] EXCEPT !.at = "attach", !.ear = built']
  <2>1. call[c] \in Calls /\ c \in EarThreads /\ EarsTypeOK
    BY EarFacts DEF EarsInv, EarsTypeOK
  <2>2. built' = built + 1 /\ built' \in Ear /\ call[c].at = "idle"
    BY EarFacts DEF StartVoice, EarsInv, EarsTypeOK, Ear
  <2>3. new \in Calls /\ new.at = "attach" /\ new.ear = built' /\ new.old = call[c].old
          /\ new.mute = call[c].mute
    BY <2>1, <2>2 DEF Calls
  <2>4. call' = [call EXCEPT ![c] = new]
    BY DEF StartVoice
  <2> HIDE DEF new
  <2>5. Moved(c, new.at, new.ear, new.old, new.mute)
    BY <2>1, <2>3, <2>4, CallSet
  <2> QED BY <2>2, <2>3, <2>5
<1>3. (GenInv /\ Right)'
  BY <1>1 DEF EarsInv, GenInv, Right
<1>4. EarsTypeOK'
  BY <1>1, <1>2, EarFacts DEF EarsInv, EarsTypeOK, CallInv, Moved
<1>5. Built'
  BY <1>1, <1>2, EarFacts DEF EarsInv, Built, CallInv, FreshInv, Comes, EarsTypeOK, Moved
<1>6. LockInv'
  BY <1>1, <1>2, EarFacts DEF EarsInv, LockInv, Holding, Installed, Moved
<1>7. CallInv'
  BY <1>1, <1>2, EarFacts DEF EarsInv, CallInv, LockInv, Holding, Installed, Moved
<1>8. FreshInv'
  BY <1>1, <1>2, EarFacts DEF EarsInv, FreshInv, LockInv, Built, CallInv, Comes, TearsDown, Holding,
     Installed, EarsTypeOK, Moved
<1>9. QuietInv'
  BY <1>1, <1>2, EarFacts DEF EarsInv, QuietInv, LockInv, CallInv, FreshInv, Comes, Holding,
     Installed, Moved
<1>10. HeardInv'
  BY <1>1, <1>2, EarFacts DEF EarsInv, HeardInv, LockInv, CallInv, TearsDown, Holding, Installed,
     QuietInv, FreshInv, Comes, Moved
<1>11. RateInv'
  BY <1>1, <1>2, EarFacts DEF EarsInv, RateInv, CallInv, LockInv, Holding, Installed, Moved
<1>12. MuteInv'
  BY <1>1, <1>2, EarFacts DEF EarsInv, MuteInv, WordKept, LockInv, CallInv, Installed, Holding,
     Moved
<1> QED BY <1>3, <1>4, <1>5, <1>6, <1>7, <1>8, <1>9, <1>10, <1>11, <1>12 DEF EarsInv

\* Taking the lock, and what an attach finds there.
LEMMA AttachLocksKeeps ==
  ASSUME EarsInv, NEW c \in EarThreads, AttachLocks(c)
  PROVE  EarsInv'
<1>1. UNCHANGED <<stopping, closing, muteIntent, built, earRate, bound, capturing, mutedEars,
                  leftOver, client, clientRate, liveSession, sess, capture, lateFrames, amiss,
                  muteAcked, missed>>
  BY DEF AttachLocks, callVars, endpointVars, sessionVars, frameVars, muteVars
<1>2. /\ call[c].at = "attach" /\ earLock = "nobody"
        /\ \/ Idles(c) /\ UNCHANGED <<earLock, theEar, earGeneration>>
           \/ theEar = NoneYet /\ earLock' = c /\ Goer(c, "install") /\ UNCHANGED <<theEar,
                                                                                    earGeneration>>
           \/ /\ theEar # NoneYet /\ earLock' = c /\ theEar' = NoneYet
                   /\ earGeneration' = earGeneration + 1
              /\ Moved(c, "teardown", call[c].ear, theEar, call[c].mute)
  BY EarFacts, CallMoves DEF AttachLocks, RetireEar, Stages, EarsInv
<1>3. (Right)'
  BY <1>1 DEF EarsInv, Right
<1>4. EarsTypeOK'
  BY <1>1, <1>2, EarFacts DEF EarsInv, EarsTypeOK, CallInv, Moved, Goer, Idles
<1>5. Built'
  BY <1>1, <1>2, EarFacts DEF EarsInv, Built, CallInv, FreshInv, Comes, EarsTypeOK, Moved, Goer,
     Idles
<1>6. LockInv'
  BY <1>1, <1>2, EarFacts DEF EarsInv, LockInv, Holding, Installed, Moved, Goer, Idles
<1>7. CallInv'
  BY <1>1, <1>2, EarFacts DEF EarsInv, CallInv, LockInv, Holding, Installed, Moved, Goer, Idles
<1>8. FreshInv'
  BY <1>1, <1>2, EarFacts DEF EarsInv, FreshInv, LockInv, Built, CallInv, Comes, TearsDown, Holding,
     Installed, Moved, Goer, Idles
<1>9. QuietInv'
  BY <1>1, <1>2, EarFacts DEF EarsInv, QuietInv, LockInv, CallInv, FreshInv, Comes, Holding,
     Installed, Moved, Goer, Idles
<1>10. HeardInv'
  BY <1>1, <1>2, EarFacts DEF EarsInv, HeardInv, LockInv, CallInv, TearsDown, Holding, Installed,
     QuietInv, FreshInv, Comes, Moved
<1>11. GenInv'
  BY <1>1, <1>2, EarFacts DEF EarsInv, GenInv, CallInv, LockInv, QuietInv, FreshInv, EarsTypeOK
<1>12. RateInv'
  BY <1>1, <1>2, EarFacts DEF EarsInv, RateInv, CallInv, LockInv, Holding, Installed, Moved, Goer,
     Idles
<1>13. MuteInv'
  BY <1>1, <1>2, EarFacts DEF EarsInv, MuteInv, WordKept, LockInv, CallInv, Installed, Holding,
     Moved, Goer, Idles
<1> QED BY <1>3, <1>4, <1>5, <1>6, <1>7, <1>8, <1>9, <1>10, <1>11, <1>12, <1>13 DEF EarsInv

\* The end of a teardown: whatever it waited for has no frame on its way to the client, or
\* it would not have returned.
LEMMA TeardownEndsKeeps ==
  ASSUME EarsInv, NEW c \in EarThreads, TeardownEnds(c)
  PROVE  EarsInv'
<1>1. UNCHANGED <<stopping, closing, theEar, earGeneration, muteIntent, built, earRate, bound,
                  mutedEars, client, clientRate, liveSession, sess, capture, lateFrames, amiss,
                  muteAcked, missed>>
  BY DEF TeardownEnds, earVars, sessionVars, frameVars, muteVars
<1>2. /\ call[c].at = "teardown"
        /\ \/ capture[call[c].old] = "idle" /\ capturing' = capturing \ {call[c].old}
                /\ UNCHANGED leftOver
           \/ capture[call[c].old] # "send" /\ leftOver' = leftOver \cup {call[c].old}
                /\ UNCHANGED capturing
        /\ \/ call[c].ear # NoneYet /\ Moved(c, "install", call[c].ear, NoneYet, call[c].mute)
                /\ UNCHANGED earLock
           \/ call[c].ear = NoneYet /\ c = "detacher" /\ Moved(c, "reap", NoneYet, NoneYet, FALSE)
                /\ earLock' = "nobody"
           \/ call[c].ear = NoneYet /\ c # "detacher" /\ Idles(c) /\ earLock' = "nobody"
  <2>1. call[c] \in Calls /\ EarsTypeOK
    BY DEF EarsInv, EarsTypeOK
  <2>2. /\ call[c].at = "teardown"
        /\ \/ capture[call[c].old] = "idle" /\ capturing' = capturing \ {call[c].old}
                /\ UNCHANGED leftOver
           \/ capture[call[c].old] # "send" /\ leftOver' = leftOver \cup {call[c].old}
                /\ UNCHANGED capturing
    BY DEF TeardownEnds
  <2>3. CASE call[c].ear # NoneYet
    <3> DEFINE new == [call[c] EXCEPT !.at = "install", !.old = NoneYet]
    <3>1. new \in Calls /\ new.at = "install" /\ new.ear = call[c].ear /\ new.old = NoneYet
            /\ new.mute = call[c].mute
      BY <2>1 DEF Calls
    <3>2. call' = [call EXCEPT ![c].at = "install", ![c].old = NoneYet] /\ UNCHANGED earLock
      BY <2>3 DEF TeardownEnds
    <3>3. call' = [call EXCEPT ![c] = new]
      BY <3>2
    <3> HIDE DEF new
    <3>4. Moved(c, new.at, new.ear, new.old, new.mute)
      BY <2>1, <3>1, <3>3, CallSet
    <3> QED BY <2>3, <2>2, <3>1, <3>2, <3>4
  <2>4. CASE call[c].ear = NoneYet /\ c = "detacher"
    <3> DEFINE new == [IdleCall EXCEPT !.at = "reap"]
    <3>1. new \in Calls /\ new.at = "reap" /\ new.ear = NoneYet /\ new.old = NoneYet /\ new.mute = FALSE
      BY DEF Calls, IdleCall
    <3>2. call' = [call EXCEPT ![c] = new] /\ earLock' = "nobody"
      BY <2>4 DEF TeardownEnds
    <3> HIDE DEF new
    <3>3. Moved(c, new.at, new.ear, new.old, new.mute)
      BY <2>1, <3>1, <3>2, CallSet
    <3> QED BY <2>4, <2>2, <3>1, <3>2, <3>3
  <2>5. CASE call[c].ear = NoneYet /\ c # "detacher"
    BY <2>1, <2>5, CallMoves DEF TeardownEnds, Unlocks
  <2> QED BY <2>3, <2>4, <2>5, <2>2
<1>3. (Right)'
  BY <1>1 DEF EarsInv, Right
<1>4. EarsTypeOK'
  BY <1>1, <1>2, EarFacts DEF EarsInv, EarsTypeOK, CallInv, Built, Moved, Idles
<1>5. Built'
  BY <1>1, <1>2, EarFacts DEF EarsInv, Built, CallInv, FreshInv, Comes, EarsTypeOK, Moved, Idles
<1>6. LockInv'
  BY <1>1, <1>2, EarFacts DEF EarsInv, LockInv, Holding, Installed, Moved, Idles
<1>7. CallInv'
  BY <1>1, <1>2, EarFacts DEF EarsInv, CallInv, LockInv, Holding, Installed, Moved, Idles
<1>8. FreshInv'
  BY <1>1, <1>2, EarFacts DEF EarsInv, FreshInv, LockInv, Built, CallInv, Comes, TearsDown, Holding,
     Installed, Moved, Idles
<1>9. QuietInv'
  BY <1>1, <1>2, EarFacts DEF EarsInv, QuietInv, LockInv, CallInv, FreshInv, Comes, Holding,
     Installed, Moved, Idles
<1>10. HeardInv'
  BY <1>1, <1>2, EarFacts DEF EarsInv, HeardInv, LockInv, CallInv, TearsDown, Holding, Installed,
     FreshInv
<1>11. GenInv'
  BY <1>1, <1>2, EarFacts DEF EarsInv, GenInv, CallInv, LockInv, QuietInv, FreshInv
<1>12. RateInv'
  BY <1>1, <1>2, EarFacts DEF EarsInv, RateInv, CallInv, LockInv, Holding, Installed, Moved, Idles
<1>13. MuteInv'
  BY <1>1, <1>2, EarFacts DEF EarsInv, MuteInv, WordKept, LockInv, CallInv, Installed, Holding,
     Moved, Idles
<1> QED BY <1>3, <1>4, <1>5, <1>6, <1>7, <1>8, <1>9, <1>10, <1>11, <1>12, <1>13 DEF EarsInv

\* A teardown that returns after it was given up on.
LEMMA TeardownLateKeeps ==
  ASSUME EarsInv, NEW e \in Ear, TeardownLate(e)
  PROVE  EarsInv'
<1>1. UNCHANGED <<stopping, closing, earLock, call, theEar, earGeneration, muteIntent, built,
                  earRate, bound, mutedEars, leftOver, client, clientRate, liveSession, sess,
                  capture, lateFrames, amiss, muteAcked, missed>>
  BY DEF TeardownLate, callVars, earVars, sessionVars, frameVars, muteVars
<1>2. (Built /\ LockInv /\ CallInv /\ RateInv /\ MuteInv /\ Right)'
  BY <1>1 DEF EarsInv, Built, LockInv, CallInv, RateInv, MuteInv, WordKept, Right
<1>3. EarsTypeOK'
  BY <1>1 DEF EarsInv, EarsTypeOK, TeardownLate
<1>4. FreshInv'
  BY <1>1, EarFacts DEF EarsInv, FreshInv, LockInv, Built, CallInv, Comes, TearsDown, TeardownLate
<1>5. QuietInv'
  BY <1>1, EarFacts DEF EarsInv, QuietInv, LockInv, CallInv, TeardownLate
<1>6. HeardInv'
  BY <1>1, EarFacts DEF EarsInv, HeardInv, LockInv, CallInv, TearsDown, Holding, TeardownLate
<1>7. GenInv'
  BY <1>1, EarFacts DEF EarsInv, GenInv, CallInv, LockInv, QuietInv, TeardownLate
<1> QED BY <1>2, <1>3, <1>4, <1>5, <1>6, <1>7 DEF EarsInv

\* Installing an ear.
LEMMA InstallEarKeeps ==
  ASSUME EarsInv, NEW c \in EarThreads, InstallEar(c)
  PROVE  EarsInv'
<1>1. UNCHANGED <<stopping, closing, muteIntent, built, earRate, bound, capturing, mutedEars,
                  leftOver, client, clientRate, liveSession, sess, capture, lateFrames, amiss,
                  muteAcked, missed>>
  BY DEF InstallEar, callVars, endpointVars, sessionVars, frameVars, muteVars
<1>2. /\ call[c].at = "install"
        /\ \/ /\ earGeneration' = earGeneration + 1 /\ theEar' = call[c].ear /\ UNCHANGED earLock
              /\ \/ client = NoneYet /\ Goer(c, "dial")
                 \/ client # NoneYet /\ earRate[theEar'] = clientRate /\ Goer(c, "capture")
                 \/ client # NoneYet /\ Goer(c, "ask")
           \/ earLock' = "nobody" /\ Idles(c) /\ UNCHANGED <<theEar, earGeneration>>
  BY EarFacts, CallMoves DEF InstallEar, Unlocks, Stages, EarsInv
<1>3. (Right)'
  BY <1>1 DEF EarsInv, Right
<1>4. EarsTypeOK'
  <2>1. call[c].ear \in Ear \cup {NoneYet} /\ theEar \in Ear \cup {NoneYet}
          /\ earGeneration \in Nat /\ earLock \in EarThreads \cup {"nobody"}
    BY DEF EarsInv, EarsTypeOK, Calls, Built
  <2>2. theEar' \in Ear \cup {NoneYet} /\ earGeneration' \in Nat
          /\ earLock' \in EarThreads \cup {"nobody"}
    BY <1>1, <1>2, <2>1
  <2> QED BY <1>1, <1>2, <2>2 DEF EarsInv, EarsTypeOK, Moved, Goer, Idles
<1>5. Built'
  BY <1>1, <1>2, EarFacts DEF EarsInv, Built, CallInv, FreshInv, Comes, EarsTypeOK, Moved, Goer,
     Idles
<1>6. LockInv'
  BY <1>1, <1>2, EarFacts DEF EarsInv, LockInv, Holding, Installed, Moved, Goer, Idles
<1>7. CallInv'
  BY <1>1, <1>2, EarFacts DEF EarsInv, CallInv, LockInv, Holding, Installed, Moved, Goer, Idles
<1>8. FreshInv'
  BY <1>1, <1>2, EarFacts DEF EarsInv, FreshInv, LockInv, Built, CallInv, Comes, TearsDown, Holding,
     Installed, Moved, Goer, Idles
<1>9. QuietInv'
  BY <1>1, <1>2, EarFacts DEF EarsInv, QuietInv, LockInv, CallInv, FreshInv, Comes, Holding,
     Installed, Moved, Idles
<1>10. HeardInv'
  BY <1>1, <1>2, EarFacts DEF EarsInv, HeardInv, LockInv, CallInv, TearsDown, Holding, Installed
<1>11. GenInv'
  BY <1>1, <1>2, EarFacts DEF EarsInv, GenInv, CallInv, LockInv, QuietInv, FreshInv, EarsTypeOK
<1>12. RateInv'
  BY <1>1, <1>2, EarFacts DEF EarsInv, RateInv, CallInv, LockInv, Holding, Installed, Moved, Goer,
     Idles
<1>13. MuteInv'
  BY <1>1, <1>2, EarFacts DEF EarsInv, MuteInv, WordKept, LockInv, CallInv, Installed, Holding,
     Moved, Goer, Idles
<1> QED BY <1>3, <1>4, <1>5, <1>6, <1>7, <1>8, <1>9, <1>10, <1>11, <1>12, <1>13 DEF EarsInv

\* Asking the session of the old rate to close.
LEMMA RedialAsksKeeps ==
  ASSUME EarsInv, NEW c \in EarThreads, RedialAsks(c)
  PROVE  EarsInv'
<1>1. UNCHANGED <<stopping, closing, earLock, theEar, earGeneration, muteIntent, built, earRate,
                  bound, capturing, mutedEars, leftOver, client, clientRate, liveSession, capture,
                  lateFrames, amiss, muteAcked, missed>>
  BY DEF RedialAsks, callVars, earVars, endpointVars, frameVars, muteVars
<1>2. call[c].at = "ask" /\ Goer(c, "join") /\ sess' \in [Ear -> Sessions]
        /\ \A s \in Ear : sess'[s].rate = sess[s].rate
  BY EarFacts, CallMoves, AskKeeps DEF RedialAsks, Stages, EarsInv
<1>3. (GenInv /\ Right)'
  BY <1>1 DEF EarsInv, GenInv, Right
<1>4. EarsTypeOK'
  BY <1>1, <1>2, EarFacts DEF EarsInv, EarsTypeOK, CallInv, Moved, Goer
<1>5. Built'
  BY <1>1, <1>2, EarFacts DEF EarsInv, Built, CallInv, FreshInv, Comes, EarsTypeOK, Moved, Goer
<1>6. LockInv'
  BY <1>1, <1>2, EarFacts DEF EarsInv, LockInv, Holding, Installed, Moved, Goer
<1>7. CallInv'
  BY <1>1, <1>2, EarFacts DEF EarsInv, CallInv, LockInv, Holding, Installed, Moved, Goer
<1>8. FreshInv'
  BY <1>1, <1>2, EarFacts DEF EarsInv, FreshInv, LockInv, Built, CallInv, Comes, TearsDown, Holding,
     Installed, Moved, Goer
<1>9. QuietInv'
  BY <1>1, <1>2, EarFacts DEF EarsInv, QuietInv, LockInv, CallInv, FreshInv, Installed
<1>10. HeardInv'
  BY <1>1, <1>2, EarFacts DEF EarsInv, HeardInv, LockInv, CallInv, TearsDown, Holding, Installed
<1>11. RateInv'
  BY <1>1, <1>2, EarFacts DEF EarsInv, RateInv, CallInv, LockInv, Holding, Installed, EarsTypeOK,
     Moved, Goer
<1>12. MuteInv'
  BY <1>1, <1>2, EarFacts DEF EarsInv, MuteInv, WordKept, LockInv, CallInv, Installed, Holding,
     Moved, Goer
<1> QED BY <1>3, <1>4, <1>5, <1>6, <1>7, <1>8, <1>9, <1>10, <1>11, <1>12 DEF EarsInv

\* Waiting for its thread.
LEMMA RedialJoinsKeeps ==
  ASSUME EarsInv, NEW c \in EarThreads, RedialJoins(c)
  PROVE  EarsInv'
<1>1. UNCHANGED <<stopping, closing, earLock, theEar, earGeneration, muteIntent, built, earRate,
                  bound, capturing, mutedEars, leftOver, client, clientRate, sess, capture,
                  lateFrames, amiss, muteAcked, missed>>
  BY DEF RedialJoins, callVars, earVars, endpointVars, frameVars, muteVars
<1>2. call[c].at = "join" /\ Goer(c, "dial") /\ liveSession' = NoneYet
  BY EarFacts, CallMoves DEF RedialJoins, Stages, EarsInv
<1>3. (GenInv /\ Right)'
  BY <1>1 DEF EarsInv, GenInv, Right
<1>4. EarsTypeOK'
  BY <1>1, <1>2, EarFacts DEF EarsInv, EarsTypeOK, CallInv, Moved, Goer
<1>5. Built'
  BY <1>1, <1>2, EarFacts DEF EarsInv, Built, CallInv, FreshInv, Comes, EarsTypeOK, Moved, Goer
<1>6. LockInv'
  BY <1>1, <1>2, EarFacts DEF EarsInv, LockInv, Holding, Installed, Moved, Goer
<1>7. CallInv'
  BY <1>1, <1>2, EarFacts DEF EarsInv, CallInv, LockInv, Holding, Installed, Moved, Goer
<1>8. FreshInv'
  BY <1>1, <1>2, EarFacts DEF EarsInv, FreshInv, LockInv, Built, CallInv, Comes, TearsDown, Holding,
     Installed, Moved, Goer
<1>9. QuietInv'
  BY <1>1, <1>2, EarFacts DEF EarsInv, QuietInv, LockInv, CallInv, FreshInv, Installed
<1>10. HeardInv'
  BY <1>1, <1>2, EarFacts DEF EarsInv, HeardInv, LockInv, CallInv, TearsDown, Holding, Installed
<1>11. RateInv'
  BY <1>1, <1>2, EarFacts DEF EarsInv, RateInv, CallInv, LockInv, Holding, Installed, Moved, Goer
<1>12. MuteInv'
  BY <1>1, <1>2, EarFacts DEF EarsInv, MuteInv, WordKept, LockInv, CallInv, Installed, Holding,
     Moved, Goer
<1> QED BY <1>3, <1>4, <1>5, <1>6, <1>7, <1>8, <1>9, <1>10, <1>11, <1>12 DEF EarsInv

\* Dialling: from here the client is of the ear's rate.
LEMMA DialSessionKeeps ==
  ASSUME EarsInv, NEW c \in EarThreads, DialSession(c)
  PROVE  EarsInv'
<1>1. UNCHANGED <<stopping, closing, earLock, theEar, earGeneration, muteIntent, built, earRate,
                  bound, capturing, mutedEars, leftOver, capture, lateFrames, amiss, muteAcked, missed>>
  BY DEF DialSession, callVars, earVars, endpointVars, frameVars, muteVars
<1>2. /\ call[c].at = "dial" /\ Goer(c, "capture") /\ sess' \in [Ear -> Sessions]
        /\ \/ client' \in Ear /\ liveSession' \in Ear /\ clientRate' = earRate[theEar]
                /\ sess'[client'].rate = clientRate'
           \/ client' = NoneYet /\ UNCHANGED <<clientRate, liveSession, sess>>
  <2>1. EarsTypeOK /\ theEar \in Ear /\ earRate[theEar] \in Rates /\ call[c].at = "dial"
          /\ Goer(c, "capture")
    BY EarFacts, CallMoves DEF DialSession, EarsInv, EarsTypeOK, CallInv, Installed, Stages
  <2>2. CASE client' = NoneYet /\ UNCHANGED <<clientRate, liveSession, sess>>
    BY <2>1, <2>2 DEF EarsTypeOK
  <2>3. ASSUME NEW s \in Ear, client' = s, liveSession' = s, clientRate' = earRate[theEar],
               sess' = [sess EXCEPT ![s] = [NoSession EXCEPT !.at = "connecting", !.rate = earRate[theEar]]]
        PROVE  sess' \in [Ear -> Sessions] /\ sess'[client'].rate = clientRate'
    <3> DEFINE new == [NoSession EXCEPT !.at = "connecting", !.rate = earRate[theEar]]
    <3>1. new \in Sessions /\ new.rate = earRate[theEar]
      BY <2>1 DEF NoSession, Sessions
    <3>2. sess' = [sess EXCEPT ![s] = new]
      BY <2>3
    <3> HIDE DEF new
    <3> QED BY <2>1, <2>3, <3>1, <3>2, SessionSet
  <2> QED BY <2>1, <2>2, <2>3 DEF DialSession
<1>3. (GenInv /\ Right)'
  BY <1>1 DEF EarsInv, GenInv, Right
<1>4. EarsTypeOK'
  <2>1. clientRate \in Rates \cup {NoneYet} /\ liveSession \in Ear \cup {NoneYet}
          /\ theEar \in Ear /\ earRate \in EarRates
    BY <1>2, EarFacts DEF EarsInv, EarsTypeOK, CallInv, Installed
  <2>2. client' \in Ear \cup {NoneYet} /\ liveSession' \in Ear \cup {NoneYet}
          /\ clientRate' \in Rates \cup {NoneYet}
    BY <1>2, <2>1, EarFacts
  <2> QED BY <1>1, <1>2, <2>2 DEF EarsInv, EarsTypeOK, Moved, Goer
<1>5. Built'
  BY <1>1, <1>2, EarFacts DEF EarsInv, Built, CallInv, FreshInv, Comes, EarsTypeOK, Moved, Goer
<1>6. LockInv'
  BY <1>1, <1>2, EarFacts DEF EarsInv, LockInv, Holding, Installed, Moved, Goer
<1>7. CallInv'
  BY <1>1, <1>2, EarFacts DEF EarsInv, CallInv, LockInv, Holding, Installed, Moved, Goer
<1>8. FreshInv'
  BY <1>1, <1>2, EarFacts DEF EarsInv, FreshInv, LockInv, Built, CallInv, Comes, TearsDown, Holding,
     Installed, Moved, Goer
<1>9. QuietInv'
  BY <1>1, <1>2, EarFacts DEF EarsInv, QuietInv, LockInv, CallInv, FreshInv, Installed
<1>10. HeardInv'
  BY <1>1, <1>2, EarFacts DEF EarsInv, HeardInv, LockInv, CallInv, TearsDown, Holding, Installed
<1>11. RateInv'
  BY <1>1, <1>2, EarFacts DEF EarsInv, RateInv, CallInv, LockInv, Holding, Installed, Moved, Goer
<1>12. MuteInv'
  BY <1>1, <1>2, EarFacts DEF EarsInv, MuteInv, WordKept, LockInv, CallInv, Installed, Holding,
     Moved, Goer
<1> QED BY <1>3, <1>4, <1>5, <1>6, <1>7, <1>8, <1>9, <1>10, <1>11, <1>12 DEF EarsInv

\* Starting the capture: from here the ear's callback is of the generation that stands.
LEMMA StartCaptureKeeps ==
  ASSUME EarsInv, NEW c \in EarThreads, StartCapture(c)
  PROVE  EarsInv'
<1>1. UNCHANGED <<stopping, closing, muteIntent, built, earRate, mutedEars, leftOver, client,
                  clientRate, liveSession, sess, capture, lateFrames, amiss, muteAcked, missed>>
  BY DEF StartCapture, callVars, sessionVars, frameVars, muteVars
<1>2. /\ call[c].at = "capture"
        /\ \/ /\ capturing' \in {capturing, capturing \cup {theEar}}
                   /\ bound' = [bound EXCEPT ![theEar] = earGeneration]
              /\ Goer(c, "carry") /\ UNCHANGED <<earLock, theEar, earGeneration>>
           \/ /\ theEar' = NoneYet /\ earGeneration' = earGeneration + 1
              /\ earLock' = "nobody" /\ Idles(c) /\ UNCHANGED <<capturing, bound>>
  BY EarFacts, CallMoves DEF StartCapture, Unlocks, Stages, EarsInv
<1>3. (Right)'
  BY <1>1 DEF EarsInv, Right
<1>4. EarsTypeOK'
  <2>1. theEar \in Ear /\ theEar \in 1..built
    BY <1>2, EarFacts DEF EarsInv, EarsTypeOK, Built, CallInv, Installed
  <2>2. earGeneration \in Nat /\ capturing \subseteq 1..built /\ bound \in [Ear -> Nat]
          /\ earLock \in EarThreads \cup {"nobody"}
    BY DEF EarsInv, EarsTypeOK
  <2>3. theEar' \in Ear \cup {NoneYet} /\ earGeneration' \in Nat
          /\ earLock' \in EarThreads \cup {"nobody"}
    BY <1>2, <2>1, <2>2
  <2>4. capturing' \subseteq 1..built
    BY <1>2, <2>1, <2>2
  <2>5. bound' \in [Ear -> Nat]
    BY <1>2, <2>1, <2>2
  <2> QED BY <1>1, <1>2, <2>3, <2>4, <2>5 DEF EarsInv, EarsTypeOK, Moved, Goer, Idles
<1>5. Built'
  BY <1>1, <1>2, EarFacts DEF EarsInv, Built, CallInv, FreshInv, Comes, EarsTypeOK, Moved, Goer,
     Idles
<1>6. LockInv'
  BY <1>1, <1>2, EarFacts DEF EarsInv, LockInv, Holding, Installed, Moved, Goer, Idles
<1>7. CallInv'
  BY <1>1, <1>2, EarFacts DEF EarsInv, CallInv, LockInv, Holding, Installed, Moved, Goer, Idles
<1>8. FreshInv'
  <2> SUFFICES ASSUME NEW d \in EarThreads, Comes(d)', NEW f \in EarThreads
               PROVE  /\ call'[d].ear # theEar' /\ call'[d].ear \notin capturing'
                      /\ capture'[call'[d].ear] = "idle" /\ bound'[call'[d].ear] = 0
                      /\ ~TearsDown(f, call[d].ear)' /\ (Comes(f)' /\ call'[f].ear = call'[d].ear
                           => f = d)
    BY DEF FreshInv, TearsDown, Comes
  <2>1. call'[c].at \in {"carry", "idle"}
    BY <1>2 DEF Moved, Goer, Idles
  <2>2. d # c /\ call'[d] = call[d] /\ Comes(d)
    BY <1>2, <2>1 DEF Comes, Moved, Goer, Idles
  <2>3. call[d].ear \in Ear /\ call[d].ear # theEar /\ call[d].ear \notin capturing
        /\ capture[call[d].ear] = "idle" /\ bound[call[d].ear] = 0
        /\ ~TearsDown(f, call[d].ear) /\ (Comes(f) /\ call[f].ear = call[d].ear => f = d)
    BY <2>2 DEF EarsInv, FreshInv, EarsTypeOK, Calls, CallInv, Comes
  <2>4. f # c => call'[f] = call[f]
    BY <1>2 DEF Moved, Goer, Idles
  <2>5. ~TearsDown(f, call[d].ear)' /\ (Comes(f)' /\ call'[f].ear = call'[d].ear => f = d)
    BY <2>1, <2>2, <2>3, <2>4 DEF TearsDown, Comes
  <2>6. bound'[call[d].ear] = bound[call[d].ear] /\ call[d].ear \notin capturing'
          /\ theEar' \in {theEar, NoneYet}
    BY <1>2, <2>3 DEF EarsInv, EarsTypeOK
  <2> QED BY <1>1, <2>2, <2>3, <2>5, <2>6, EarFacts
<1>9. QuietInv'
  BY <1>1, <1>2, EarFacts DEF EarsInv, QuietInv, LockInv, CallInv, FreshInv, Comes, Holding,
     Installed, Moved, Goer, Idles
<1>10. HeardInv'
  BY <1>1, <1>2, EarFacts DEF EarsInv, HeardInv, LockInv, CallInv, TearsDown, Holding, Installed,
     QuietInv, FreshInv, EarsTypeOK
<1>11. GenInv'
  BY <1>1, <1>2, EarFacts DEF EarsInv, GenInv, CallInv, LockInv, QuietInv, FreshInv, Installed,
     EarsTypeOK
<1>12. RateInv'
  BY <1>1, <1>2, EarFacts DEF EarsInv, RateInv, CallInv, LockInv, Holding, Installed, Moved, Goer,
     Idles
<1>13. MuteInv'
  BY <1>1, <1>2, EarFacts DEF EarsInv, MuteInv, WordKept, LockInv, CallInv, Installed, Holding,
     Moved, Goer, Idles
<1> QED BY <1>3, <1>4, <1>5, <1>6, <1>7, <1>8, <1>9, <1>10, <1>11, <1>12, <1>13 DEF EarsInv

\* Carrying the mute over.
LEMMA CarryMuteKeeps ==
  ASSUME EarsInv, NEW c \in EarThreads, CarryMute(c)
  PROVE  EarsInv'
<1>1. UNCHANGED <<stopping, closing, theEar, earGeneration, muteIntent, built, earRate, bound,
                  capturing, leftOver, client, clientRate, liveSession, sess, capture, lateFrames,
                  amiss, muteAcked>>
  BY DEF CarryMute, earVars, sessionVars, frameVars, muteVars
<1>2. /\ call[c].at = "carry" /\ Idles(c) /\ earLock' = "nobody"
        /\ \/ muteIntent /\ mutedEars' = mutedEars \cup {theEar} /\ UNCHANGED missed
           \/ /\ ~muteIntent /\ UNCHANGED mutedEars
              /\ missed' = IF Crossed THEN missed \cup {theEar} ELSE missed
  BY EarFacts, CallMoves DEF CarryMute, Unlocks, EarsInv
<1>3. (GenInv /\ Right)'
  BY <1>1 DEF EarsInv, GenInv, Right
<1>4. EarsTypeOK'
  BY <1>1, <1>2, EarFacts DEF EarsInv, EarsTypeOK, CallInv, Built, Moved, Idles
<1>5. Built'
  BY <1>1, <1>2, EarFacts DEF EarsInv, Built, CallInv, FreshInv, Comes, EarsTypeOK, Moved, Idles
<1>6. LockInv'
  BY <1>1, <1>2, EarFacts DEF EarsInv, LockInv, Holding, Installed, Moved, Idles
<1>7. CallInv'
  BY <1>1, <1>2, EarFacts DEF EarsInv, CallInv, LockInv, Holding, Installed, Moved, Idles
<1>8. FreshInv'
  BY <1>1, <1>2, EarFacts DEF EarsInv, FreshInv, LockInv, Built, CallInv, Comes, TearsDown, Holding,
     Installed, Moved, Idles
<1>9. QuietInv'
  BY <1>1, <1>2, EarFacts DEF EarsInv, QuietInv, LockInv, CallInv, FreshInv, Comes, Holding,
     Installed, Moved, Idles
<1>10. HeardInv'
  BY <1>1, <1>2, EarFacts DEF EarsInv, HeardInv, LockInv, CallInv, TearsDown, Holding, Installed
<1>11. RateInv'
  BY <1>1, <1>2, EarFacts DEF EarsInv, RateInv, CallInv, LockInv, Holding, Installed, Moved, Idles
<1>12. MuteInv'
  <2>1. \A d \in EarThreads : call'[d].at \in {"mute", "apply"} => d # c /\ call'[d] = call[d]
    BY <1>2 DEF Idles, Moved
  <2>2. UNCHANGED <<theEar, muteIntent, muteAcked>>
    BY <1>1
  <2>3. muteIntent => theEar \in mutedEars'
    BY <1>2
  <2>4. ASSUME ~muteIntent, NEW d \in EarThreads, call[d].at \in {"mute", "apply"}, call[d].mute
        PROVE  theEar = call[d].ear \/ theEar \in missed'
    <3>1. d \in Muters /\ call[d].at = "mute"
      BY <2>4 DEF EarsInv, MuteInv
    <3> QED BY <1>2, <2>4, <3>1 DEF Crossed
  <2> QED BY <2>1, <2>2, <2>3, <2>4 DEF EarsInv, MuteInv, WordKept
<1> QED BY <1>3, <1>4, <1>5, <1>6, <1>7, <1>8, <1>9, <1>10, <1>11, <1>12 DEF EarsInv

\* A stop from the page.
LEMMA StopVoiceKeeps ==
  ASSUME EarsInv, NEW c \in EarCallers, StopVoice(c)
  PROVE  EarsInv'
<1>1. UNCHANGED <<stopping, closing, earLock, theEar, earGeneration, muteIntent, built, earRate,
                  bound, capturing, mutedEars, leftOver, client, clientRate, liveSession, sess,
                  capture, lateFrames, amiss, muteAcked, missed>>
  BY DEF StopVoice, callVars, earVars, endpointVars, sessionVars, frameVars, muteVars
<1>2. call[c].at = "idle" /\ Goer(c, "detach")
  BY EarFacts, CallMoves DEF StopVoice, Stages, EarsInv
<1>3. (GenInv /\ Right)'
  BY <1>1 DEF EarsInv, GenInv, Right
<1>4. EarsTypeOK'
  BY <1>1, <1>2, EarFacts DEF EarsInv, EarsTypeOK, CallInv, Moved, Goer
<1>5. Built'
  BY <1>1, <1>2, EarFacts DEF EarsInv, Built, CallInv, FreshInv, Comes, EarsTypeOK, Moved, Goer
<1>6. LockInv'
  BY <1>1, <1>2, EarFacts DEF EarsInv, LockInv, Holding, Installed, Moved, Goer
<1>7. CallInv'
  BY <1>1, <1>2, EarFacts DEF EarsInv, CallInv, LockInv, Holding, Installed, Moved, Goer
<1>8. FreshInv'
  BY <1>1, <1>2, EarFacts DEF EarsInv, FreshInv, LockInv, Built, CallInv, Comes, TearsDown, Holding,
     Installed, Moved, Goer
<1>9. QuietInv'
  BY <1>1, <1>2, EarFacts DEF EarsInv, QuietInv, LockInv, CallInv, FreshInv, Comes, Holding,
     Installed, Moved, Goer
<1>10. HeardInv'
  BY <1>1, <1>2, EarFacts DEF EarsInv, HeardInv, LockInv, CallInv, TearsDown, Holding, Installed,
     QuietInv, FreshInv, Comes, Moved, Goer
<1>11. RateInv'
  BY <1>1, <1>2, EarFacts DEF EarsInv, RateInv, CallInv, LockInv, Holding, Installed, Moved, Goer
<1>12. MuteInv'
  BY <1>1, <1>2, EarFacts DEF EarsInv, MuteInv, WordKept, LockInv, CallInv, Installed, Holding,
     Moved, Goer
<1> QED BY <1>3, <1>4, <1>5, <1>6, <1>7, <1>8, <1>9, <1>10, <1>11, <1>12 DEF EarsInv

\* Taking the lock to detach.
LEMMA DetachLocksKeeps ==
  ASSUME EarsInv, NEW c \in EarThreads, DetachLocks(c)
  PROVE  EarsInv'
<1>1. UNCHANGED <<stopping, closing, muteIntent, built, earRate, bound, capturing, mutedEars,
                  leftOver, client, clientRate, liveSession, sess, capture, lateFrames, amiss,
                  muteAcked, missed>>
  BY DEF DetachLocks, callVars, endpointVars, sessionVars, frameVars, muteVars
<1>2. /\ call[c].at = "detach" /\ earLock = "nobody"
        /\ \/ theEar = NoneYet /\ c = "detacher" /\ Goer(c, "reap") /\ UNCHANGED <<earLock,
                                                                                   theEar,
                                                                                   earGeneration>>
           \/ theEar = NoneYet /\ c # "detacher" /\ Idles(c) /\ UNCHANGED <<earLock, theEar,
                                                                            earGeneration>>
           \/ /\ theEar # NoneYet /\ earLock' = c /\ theEar' = NoneYet
                   /\ earGeneration' = earGeneration + 1
              /\ Moved(c, "teardown", call[c].ear, theEar, call[c].mute)
  BY EarFacts, CallMoves DEF DetachLocks, RetireEar, Stages, EarsInv
<1>3. (Right)'
  BY <1>1 DEF EarsInv, Right
<1>4. EarsTypeOK'
  BY <1>1, <1>2, EarFacts DEF EarsInv, EarsTypeOK, CallInv, Moved, Goer, Idles
<1>5. Built'
  BY <1>1, <1>2, EarFacts DEF EarsInv, Built, CallInv, FreshInv, Comes, EarsTypeOK, Moved, Goer,
     Idles
<1>6. LockInv'
  BY <1>1, <1>2, EarFacts DEF EarsInv, LockInv, Holding, Installed, Moved, Goer, Idles
<1>7. CallInv'
  BY <1>1, <1>2, EarFacts DEF EarsInv, CallInv, LockInv, Holding, Installed, Moved, Goer, Idles
<1>8. FreshInv'
  BY <1>1, <1>2, EarFacts DEF EarsInv, FreshInv, LockInv, Built, CallInv, Comes, TearsDown, Holding,
     Installed, Moved, Goer, Idles
<1>9. QuietInv'
  BY <1>1, <1>2, EarFacts DEF EarsInv, QuietInv, LockInv, CallInv, FreshInv, Comes, Holding,
     Installed, Moved, Goer, Idles
<1>10. HeardInv'
  BY <1>1, <1>2, EarFacts DEF EarsInv, HeardInv, LockInv, CallInv, TearsDown, Holding, Installed,
     QuietInv, FreshInv, Comes, Moved
<1>11. GenInv'
  BY <1>1, <1>2, EarFacts DEF EarsInv, GenInv, CallInv, LockInv, QuietInv, FreshInv, EarsTypeOK
<1>12. RateInv'
  BY <1>1, <1>2, EarFacts DEF EarsInv, RateInv, CallInv, LockInv, Holding, Installed, Moved, Goer,
     Idles
<1>13. MuteInv'
  BY <1>1, <1>2, EarFacts DEF EarsInv, MuteInv, WordKept, LockInv, CallInv, Installed, Holding,
     Moved, Goer, Idles
<1> QED BY <1>3, <1>4, <1>5, <1>6, <1>7, <1>8, <1>9, <1>10, <1>11, <1>12, <1>13 DEF EarsInv

\* Reaping what was given up on.
LEMMA ReapEarsKeeps ==
  ASSUME EarsInv, ReapEars
  PROVE  EarsInv'
<1>1. UNCHANGED <<stopping, closing, earLock, theEar, earGeneration, muteIntent, built, earRate,
                  bound, mutedEars, client, clientRate, liveSession, sess, capture, lateFrames,
                  amiss, muteAcked, missed>>
  BY DEF ReapEars, earVars, sessionVars, frameVars, muteVars
<1>2. /\ call["detacher"].at = "reap" /\ Idles("detacher") /\ leftOver' \subseteq leftOver
        /\ capturing' = capturing \ (leftOver \ leftOver')
  BY EarFacts, CallMoves DEF ReapEars, EarsInv
<1>3. (Right)'
  BY <1>1 DEF EarsInv, Right
<1>4. EarsTypeOK'
  BY <1>1, <1>2, EarFacts DEF EarsInv, EarsTypeOK, CallInv, Moved, Idles
<1>5. Built'
  BY <1>1, <1>2, EarFacts DEF EarsInv, Built, CallInv, FreshInv, Comes, EarsTypeOK, Moved, Idles
<1>6. LockInv'
  BY <1>1, <1>2, EarFacts DEF EarsInv, LockInv, Holding, Installed, Moved, Idles
<1>7. CallInv'
  BY <1>1, <1>2, EarFacts DEF EarsInv, CallInv, LockInv, Holding, Installed, Moved, Idles
<1>8. FreshInv'
  BY <1>1, <1>2, EarFacts DEF EarsInv, FreshInv, LockInv, Built, CallInv, Comes, TearsDown, Holding,
     Installed, Moved, Idles
<1>9. QuietInv'
  BY <1>1, <1>2, EarFacts DEF EarsInv, QuietInv, LockInv, CallInv, FreshInv, Comes, Holding,
     Installed, Moved, Idles
<1>10. HeardInv'
  BY <1>1, <1>2, EarFacts DEF EarsInv, HeardInv, LockInv, CallInv, TearsDown, Holding, Installed,
     QuietInv, FreshInv, Comes, Moved, Idles
<1>11. GenInv'
  BY <1>1, <1>2, EarFacts DEF EarsInv, GenInv, CallInv, LockInv, QuietInv, FreshInv
<1>12. RateInv'
  BY <1>1, <1>2, EarFacts DEF EarsInv, RateInv, CallInv, LockInv, Holding, Installed, Moved, Idles
<1>13. MuteInv'
  BY <1>1, <1>2, EarFacts DEF EarsInv, MuteInv, WordKept, LockInv, CallInv, Installed, Holding,
     Moved, Idles
<1> QED BY <1>3, <1>4, <1>5, <1>6, <1>7, <1>8, <1>9, <1>10, <1>11, <1>12, <1>13 DEF EarsInv

\* The beginning of the close, which takes no lock.
LEMMA CloseBeginsKeeps ==
  ASSUME EarsInv, CloseBegins
  PROVE  EarsInv'
<1>1. UNCHANGED <<earLock, theEar, earGeneration, muteIntent, built, earRate, bound, capturing,
                  mutedEars, leftOver, client, clientRate, liveSession, sess, capture, lateFrames,
                  amiss, muteAcked, missed>>
  BY DEF CloseBegins, callVars, earVars, endpointVars, sessionVars, frameVars, muteVars
<1>2. call["detacher"].at = "idle" /\ Goer("detacher", "detach") /\ closing' = "detaching"
        /\ stopping' = TRUE
  BY EarFacts, CallMoves DEF CloseBegins, Stages, CallInv, EarsInv
<1>3. (GenInv /\ Right)'
  BY <1>1 DEF EarsInv, GenInv, Right
<1>4. EarsTypeOK'
  BY <1>1, <1>2, EarFacts DEF EarsInv, EarsTypeOK, CallInv, Moved, Goer
<1>5. Built'
  BY <1>1, <1>2, EarFacts DEF EarsInv, Built, CallInv, FreshInv, Comes, EarsTypeOK, Moved, Goer
<1>6. LockInv'
  BY <1>1, <1>2, EarFacts DEF EarsInv, LockInv, Holding, Installed, Moved, Goer
<1>7. CallInv'
  BY <1>1, <1>2, EarFacts DEF EarsInv, CallInv, LockInv, Holding, Installed, Moved, Goer
<1>8. FreshInv'
  BY <1>1, <1>2, EarFacts DEF EarsInv, FreshInv, LockInv, Built, CallInv, Comes, TearsDown, Holding,
     Installed, Moved, Goer
<1>9. QuietInv'
  BY <1>1, <1>2, EarFacts DEF EarsInv, QuietInv, LockInv, CallInv, FreshInv, Comes, Holding,
     Installed, Moved, Goer
<1>10. HeardInv'
  BY <1>1, <1>2, EarFacts DEF EarsInv, HeardInv, LockInv, CallInv, TearsDown, Holding, Installed,
     QuietInv, FreshInv, Comes, Moved, Goer
<1>11. RateInv'
  BY <1>1, <1>2, EarFacts DEF EarsInv, RateInv, CallInv, LockInv, Holding, Installed, Moved, Goer
<1>12. MuteInv'
  BY <1>1, <1>2, EarFacts DEF EarsInv, MuteInv, WordKept, LockInv, CallInv, Installed, Holding,
     Moved, Goer
<1> QED BY <1>3, <1>4, <1>5, <1>6, <1>7, <1>8, <1>9, <1>10, <1>11, <1>12 DEF EarsInv

\* Its end.
LEMMA CloseStopsEarsKeeps ==
  ASSUME EarsInv, CloseStopsEars
  PROVE  EarsInv'
<1>1. UNCHANGED <<stopping, earLock, call, theEar, earGeneration, muteIntent, built, earRate,
                  bound, capturing, mutedEars, leftOver, client, clientRate, liveSession, capture,
                  lateFrames, amiss, muteAcked, missed>>
  BY DEF CloseStopsEars, callVars, earVars, endpointVars, frameVars, muteVars
<1>2. closing' = "closed" /\ sess' \in [Ear -> Sessions] /\ \A s \in Ear : sess'[s].rate = sess[s].rate
  BY EarFacts, AskKeeps DEF CloseStopsEars, EarsInv
<1>3. (Built /\ LockInv /\ FreshInv /\ QuietInv /\ HeardInv /\ GenInv /\ MuteInv /\ Right)'
  BY <1>1 DEF EarsInv, Built, LockInv, FreshInv, QuietInv, HeardInv, GenInv, MuteInv, WordKept,
     Right, TearsDown, Comes
<1>4. EarsTypeOK'
  BY <1>1, <1>2, EarFacts DEF EarsInv, EarsTypeOK
<1>5. CallInv'
  BY <1>1, <1>2, EarFacts DEF EarsInv, CallInv
<1>6. RateInv'
  BY <1>1, <1>2, EarFacts DEF EarsInv, RateInv, CallInv, EarsTypeOK
<1> QED BY <1>3, <1>4, <1>5, <1>6 DEF EarsInv

\* A mute takes the endpoint there is, without the lock.
LEMMA MuteReadsKeeps ==
  ASSUME EarsInv, NEW c \in EarCallers, MuteReads(c)
  PROVE  EarsInv'
<1>1. UNCHANGED <<stopping, closing, earLock, theEar, earGeneration, muteIntent, built, earRate,
                  bound, capturing, mutedEars, leftOver, client, clientRate, liveSession, sess,
                  capture, lateFrames, amiss, missed>>
  BY DEF MuteReads, callVars, earVars, endpointVars, sessionVars, frameVars
<1>2. /\ c \in Muters /\ call[c].at = "idle" /\ (\A d \in Muters : call[d].at \notin {"mute", "apply"})
        /\ muteAcked' = FALSE /\ \E wanted \in BOOLEAN : Moved(c, "mute", theEar, NoneYet, wanted)
  <2>1. call[c] \in Calls /\ c \in EarThreads /\ EarsTypeOK /\ theEar \in Ear \cup {NoneYet}
    BY EarFacts DEF EarsInv, EarsTypeOK
  <2>2. PICK wanted \in BOOLEAN :
          call' = [call EXCEPT ![c] = [at |-> "mute", ear |-> theEar, old |-> NoneYet, mute |-> wanted]]
    BY EarFacts DEF MuteReads
  <2> DEFINE new == [at |-> "mute", ear |-> theEar, old |-> NoneYet, mute |-> wanted]
  <2>3. new \in Calls /\ new.at = "mute" /\ new.ear = theEar /\ new.old = NoneYet /\ new.mute = wanted
    BY <2>1 DEF Calls
  <2>4. call' = [call EXCEPT ![c] = new]
    BY <2>2
  <2> HIDE DEF new
  <2>5. Moved(c, new.at, new.ear, new.old, new.mute)
    BY <2>1, <2>3, <2>4, CallSet
  <2> QED BY <2>3, <2>5 DEF MuteReads
<1>3. (GenInv /\ Right)'
  BY <1>1 DEF EarsInv, GenInv, Right
<1>4. EarsTypeOK'
  BY <1>1, <1>2, EarFacts DEF EarsInv, EarsTypeOK, CallInv, Moved
<1>5. Built'
  BY <1>1, <1>2, EarFacts DEF EarsInv, Built, CallInv, FreshInv, Comes, EarsTypeOK, Moved
<1>6. LockInv'
  BY <1>1, <1>2, EarFacts DEF EarsInv, LockInv, Holding, Installed, Moved
<1>7. CallInv'
  BY <1>1, <1>2, EarFacts DEF EarsInv, CallInv, LockInv, Holding, Installed, Moved
<1>8. FreshInv'
  BY <1>1, <1>2, EarFacts DEF EarsInv, FreshInv, LockInv, Built, CallInv, Comes, TearsDown, Holding,
     Installed, Moved
<1>9. QuietInv'
  BY <1>1, <1>2, EarFacts DEF EarsInv, QuietInv, LockInv, CallInv, FreshInv, Comes, Holding,
     Installed, Moved
<1>10. HeardInv'
  BY <1>1, <1>2, EarFacts DEF EarsInv, HeardInv, LockInv, CallInv, TearsDown, Holding, Installed,
     QuietInv, FreshInv, Comes, Moved
<1>11. RateInv'
  BY <1>1, <1>2, EarFacts DEF EarsInv, RateInv, CallInv, LockInv, Holding, Installed, Moved
<1>12. MuteInv'
  BY <1>1, <1>2, EarFacts DEF EarsInv, MuteInv, WordKept, LockInv, CallInv, Installed, Holding,
     Moved
<1> QED BY <1>3, <1>4, <1>5, <1>6, <1>7, <1>8, <1>9, <1>10, <1>11, <1>12 DEF EarsInv

\* It notes the intent.
LEMMA MuteSetsKeeps ==
  ASSUME EarsInv, NEW c \in EarThreads, MuteSets(c)
  PROVE  EarsInv'
<1>1. UNCHANGED <<stopping, closing, earLock, theEar, earGeneration, built, earRate, bound,
                  capturing, mutedEars, leftOver, client, clientRate, liveSession, sess, capture,
                  lateFrames, amiss, missed>>
  BY DEF MuteSets, callVars, endpointVars, sessionVars, frameVars
<1>2. /\ call[c].at = "mute" /\ muteIntent' = call[c].mute
        /\ \/ call[c].ear = NoneYet /\ Idles(c) /\ muteAcked' = call[c].mute
           \/ call[c].ear # NoneYet /\ Goer(c, "apply") /\ UNCHANGED muteAcked
  BY EarFacts, CallMoves DEF MuteSets, MuteReturns, Stages, EarsInv
<1>3. (GenInv /\ Right)'
  BY <1>1 DEF EarsInv, GenInv, Right
<1>4. EarsTypeOK'
  <2>1. call[c].mute \in BOOLEAN /\ muteAcked \in BOOLEAN
    BY DEF EarsInv, EarsTypeOK, Calls, Built
  <2>2. muteIntent' \in BOOLEAN /\ muteAcked' \in BOOLEAN
    BY <1>2, <2>1
  <2> QED BY <1>1, <1>2, <2>2 DEF EarsInv, EarsTypeOK, Moved, Goer, Idles
<1>5. Built'
  BY <1>1, <1>2, EarFacts DEF EarsInv, Built, CallInv, FreshInv, Comes, EarsTypeOK, Moved, Goer,
     Idles
<1>6. LockInv'
  BY <1>1, <1>2, EarFacts DEF EarsInv, LockInv, Holding, Installed, Moved, Goer, Idles
<1>7. CallInv'
  BY <1>1, <1>2, EarFacts DEF EarsInv, CallInv, LockInv, Holding, Installed, Moved, Goer, Idles
<1>8. FreshInv'
  BY <1>1, <1>2, EarFacts DEF EarsInv, FreshInv, LockInv, Built, CallInv, Comes, TearsDown, Holding,
     Installed, Moved, Goer, Idles
<1>9. QuietInv'
  BY <1>1, <1>2, EarFacts DEF EarsInv, QuietInv, LockInv, CallInv, FreshInv, Comes, Holding,
     Installed, Moved, Goer, Idles
<1>10. HeardInv'
  BY <1>1, <1>2, EarFacts DEF EarsInv, HeardInv, LockInv, CallInv, TearsDown, Holding, Installed,
     QuietInv, FreshInv, Comes, Moved, Goer, Idles
<1>11. RateInv'
  BY <1>1, <1>2, EarFacts DEF EarsInv, RateInv, CallInv, LockInv, Holding, Installed, Moved, Goer,
     Idles
<1>12. MuteInv'
  BY <1>1, <1>2, EarFacts DEF EarsInv, MuteInv, WordKept, LockInv, CallInv, Installed, Holding,
     EarsTypeOK, Moved, Goer, Idles
<1> QED BY <1>3, <1>4, <1>5, <1>6, <1>7, <1>8, <1>9, <1>10, <1>11, <1>12 DEF EarsInv

\* It reaches the endpoint it took.
LEMMA MuteAppliesKeeps ==
  ASSUME EarsInv, NEW c \in EarThreads, MuteApplies(c)
  PROVE  EarsInv'
<1>1. UNCHANGED <<stopping, closing, earLock, theEar, earGeneration, muteIntent, built, earRate,
                  bound, capturing, leftOver, client, clientRate, liveSession, sess, capture,
                  lateFrames, amiss>>
  BY DEF MuteApplies, earVars, sessionVars, frameVars
<1>2. /\ call[c].at = "apply" /\ Idles(c) /\ muteAcked' = call[c].mute
        /\ mutedEars' = (IF call[c].mute THEN mutedEars \cup {call[c].ear}
                         ELSE mutedEars \ {call[c].ear})
        /\ missed' = missed \ {call[c].ear}
  BY EarFacts, CallMoves DEF MuteApplies, MuteReturns, EarsInv
<1>3. (GenInv /\ Right)'
  BY <1>1 DEF EarsInv, GenInv, Right
<1>4. EarsTypeOK'
  <2>1. mutedEars \subseteq 1..built /\ missed \subseteq 1..built /\ call[c].ear \in 0..built
    BY DEF EarsInv, EarsTypeOK, Built
  <2>2. call[c].ear # NoneYet
    BY <1>2 DEF EarsInv, CallInv
  <2>3. mutedEars' \subseteq 1..built /\ missed' \subseteq 1..built
    <3>1. built \in Nat /\ call[c].ear \in 1..built
      BY <2>1, <2>2, EarFacts DEF EarsInv, EarsTypeOK
    <3> QED BY <1>2, <2>1, <3>1
  <2>4. muteAcked' \in BOOLEAN
    BY <1>2 DEF EarsInv, EarsTypeOK, Calls
  <2> QED BY <1>1, <1>2, <2>3, <2>4 DEF EarsInv, EarsTypeOK, Moved, Idles
<1>5. Built'
  BY <1>1, <1>2, EarFacts DEF EarsInv, Built, CallInv, FreshInv, Comes, EarsTypeOK, Moved, Idles
<1>6. LockInv'
  BY <1>1, <1>2, EarFacts DEF EarsInv, LockInv, Holding, Installed, Moved, Idles
<1>7. CallInv'
  BY <1>1, <1>2, EarFacts DEF EarsInv, CallInv, LockInv, Holding, Installed, Moved, Idles
<1>8. FreshInv'
  BY <1>1, <1>2, EarFacts DEF EarsInv, FreshInv, LockInv, Built, CallInv, Comes, TearsDown, Holding,
     Installed, Moved, Idles
<1>9. QuietInv'
  BY <1>1, <1>2, EarFacts DEF EarsInv, QuietInv, LockInv, CallInv, FreshInv, Comes, Holding,
     Installed, Moved, Idles
<1>10. HeardInv'
  BY <1>1, <1>2, EarFacts DEF EarsInv, HeardInv, LockInv, CallInv, TearsDown, Holding, Installed,
     QuietInv, FreshInv, Comes, Moved, Idles
<1>11. RateInv'
  BY <1>1, <1>2, EarFacts DEF EarsInv, RateInv, CallInv, LockInv, Holding, Installed, Moved, Idles
<1>12. MuteInv'
  BY <1>1, <1>2, EarFacts DEF EarsInv, MuteInv, WordKept, LockInv, CallInv, Installed, Holding,
     Moved, Idles
<1> QED BY <1>3, <1>4, <1>5, <1>6, <1>7, <1>8, <1>9, <1>10, <1>11, <1>12 DEF EarsInv

\* Reading a frame.
LEMMA FrameReadKeeps ==
  ASSUME EarsInv, NEW e \in Ear, FrameRead(e)
  PROVE  EarsInv'
<1>1. UNCHANGED <<stopping, closing, earLock, call, theEar, earGeneration, muteIntent, built,
                  earRate, bound, capturing, mutedEars, leftOver, client, clientRate, liveSession,
                  sess, amiss, muteAcked, missed>>
  BY DEF FrameRead, callVars, earVars, endpointVars, sessionVars, muteVars
<1>2. (LockInv /\ CallInv /\ RateInv /\ MuteInv /\ Right)'
  BY <1>1 DEF EarsInv, LockInv, CallInv, RateInv, MuteInv, WordKept, Right
<1>3. EarsTypeOK'
  BY <1>1 DEF EarsInv, EarsTypeOK, FrameRead
<1>4. Built'
  BY <1>1, EarFacts DEF EarsInv, Built, CallInv, FreshInv, EarsTypeOK, FrameRead
<1>5. FreshInv'
  BY <1>1, EarFacts DEF EarsInv, FreshInv, LockInv, Built, CallInv, Comes, TearsDown, FrameRead
<1>6. QuietInv'
  BY <1>1, EarFacts DEF EarsInv, QuietInv, LockInv, CallInv, FrameRead
<1>7. HeardInv'
  BY <1>1, EarFacts DEF EarsInv, HeardInv, LockInv, CallInv, TearsDown, Holding, FrameRead
<1>8. GenInv'
  BY <1>1, EarFacts DEF EarsInv, GenInv, CallInv, LockInv, QuietInv, FreshInv, EarsTypeOK, FrameRead
<1> QED BY <1>2, <1>3, <1>4, <1>5, <1>6, <1>7, <1>8 DEF EarsInv

\* The check of the generation.
LEMMA FrameCheckKeeps ==
  ASSUME EarsInv, NEW e \in Ear, FrameCheck(e)
  PROVE  EarsInv'
<1>1. UNCHANGED <<stopping, closing, earLock, call, theEar, earGeneration, muteIntent, built,
                  earRate, bound, capturing, mutedEars, leftOver, client, clientRate, liveSession,
                  sess, amiss, muteAcked, missed>>
  BY DEF FrameCheck, callVars, earVars, endpointVars, sessionVars, muteVars
<1>2. (LockInv /\ CallInv /\ RateInv /\ MuteInv /\ Right)'
  BY <1>1 DEF EarsInv, LockInv, CallInv, RateInv, MuteInv, WordKept, Right
<1>3. EarsTypeOK'
  BY <1>1 DEF EarsInv, EarsTypeOK, FrameCheck
<1>4. Built'
  BY <1>1, EarFacts DEF EarsInv, Built, CallInv, FreshInv, EarsTypeOK, FrameCheck
<1>5. FreshInv'
  <2>1. \A d \in EarThreads : Comes(d) => call[d].ear # e
    BY DEF FrameCheck, EarsInv, FreshInv
  <2>2. \A d \in Ear : d # e => capture'[d] = capture[d]
    BY DEF FrameCheck, EarsInv, EarsTypeOK
  <2>3. \A d \in EarThreads : Comes(d) => call[d].ear \in Ear
    BY DEF EarsInv, EarsTypeOK, Calls, CallInv, Comes
  <2> QED BY <1>1, <2>1, <2>2, <2>3 DEF EarsInv, FreshInv, Comes, TearsDown
<1>6. QuietInv'
  BY <1>1, EarFacts DEF EarsInv, QuietInv, LockInv, CallInv, FreshInv, EarsTypeOK, FrameCheck
<1>7. HeardInv'
  <2>1. bound[e] = earGeneration => e = theEar
    BY DEF FrameCheck, EarsInv, GenInv
  <2>2. \A d \in Ear : capture'[d] = "send" => capture[d] = "send" \/ d = theEar
    BY <2>1 DEF FrameCheck, EarsInv, EarsTypeOK
  <2> QED BY <1>1, <2>2 DEF EarsInv, HeardInv, TearsDown
<1>8. GenInv'
  BY <1>1, EarFacts DEF EarsInv, GenInv, CallInv, LockInv, QuietInv, FreshInv, EarsTypeOK,
     FrameCheck
<1> QED BY <1>2, <1>3, <1>4, <1>5, <1>6, <1>7, <1>8 DEF EarsInv

\* The frame and the client: this is where all of the invariant is used.
LEMMA FrameSendKeeps ==
  ASSUME EarsInv, NEW e \in Ear, FrameSend(e)
  PROVE  EarsInv'
<1>1. UNCHANGED <<stopping, closing, earLock, call, theEar, earGeneration, muteIntent, built,
                  earRate, bound, capturing, mutedEars, leftOver, client, clientRate, liveSession,
                  sess, muteAcked, missed>>
  BY DEF FrameSend, callVars, earVars, endpointVars, sessionVars, muteVars
<1>2. (LockInv /\ CallInv /\ RateInv /\ MuteInv)'
  BY <1>1 DEF EarsInv, LockInv, CallInv, RateInv, MuteInv, WordKept
<1>3. EarsTypeOK'
  BY <1>1 DEF EarsInv, EarsTypeOK, FrameSend
<1>4. Built'
  BY <1>1, EarFacts DEF EarsInv, Built, FrameSend
<1>5. FreshInv'
  BY <1>1, EarFacts DEF EarsInv, FreshInv, LockInv, Built, CallInv, Comes, TearsDown, FrameSend
<1>6. QuietInv'
  BY <1>1, EarFacts DEF EarsInv, QuietInv, LockInv, CallInv, FrameSend
<1>7. HeardInv'
  BY <1>1, EarFacts DEF EarsInv, HeardInv, LockInv, CallInv, TearsDown, Holding, FrameSend
<1>8. GenInv'
  BY <1>1, EarFacts DEF EarsInv, GenInv, CallInv, LockInv, QuietInv, FrameSend
<1>9. Right'
  <2>1. e \notin lateFrames
    BY DEF FrameSend, EarsInv, GenInv
  <2>2. ASSUME client # NoneYet PROVE earRate[e] = sess[client].rate
    <3>1. sess[client].rate = clientRate
      BY <2>2 DEF EarsInv, RateInv
    <3>2. CASE \E d \in EarThreads : TearsDown(d, e)
      BY <2>2, <3>1, <3>2 DEF EarsInv, RateInv, TearsDown
    <3>3. CASE e = theEar
      <4>1. \A d \in EarThreads : call[d].at \notin {"ask", "join", "dial"}
        BY <3>3 DEF FrameSend, EarsInv, QuietInv, Installed
      <4> QED BY <2>2, <3>1, <3>3, <4>1, EarFacts DEF EarsInv, RateInv
    <3> QED BY <3>2, <3>3 DEF FrameSend, EarsInv, HeardInv
  <2> QED BY <2>1, <2>2 DEF FrameSend, EarsInv, Right
<1> QED BY <1>2, <1>3, <1>4, <1>5, <1>6, <1>7, <1>8, <1>9 DEF EarsInv

\* A session that ends keeps its rate.
LEMMA SessionRecords ==
  ASSUME NEW r \in Sessions
  PROVE  /\ Ended(r) \in Sessions /\ Ended(r).rate = r.rate
         /\ ShutDown(r) \in Sessions /\ ShutDown(r).rate = r.rate
<1>1. Ended(r) \in Sessions /\ Ended(r).rate = r.rate
  BY DEF Ended, Sessions
<1>2. r.told => ShutDown(r) = Ended(r)
  BY DEF ShutDown
<1>3. ~r.told => ShutDown(r) \in Sessions /\ ShutDown(r).rate = r.rate
  BY DEF ShutDown, Sessions
<1> QED BY <1>1, <1>2, <1>3

\* The thread of a session changes nothing but its session, and never its rate.
LEMMA SessionsMove ==
  ASSUME EarsInv, NEW s \in Ear, SessionStep(s) \/ StreamBreaks(s) \/ TaskCloses(s)
  PROVE  \E new \in Sessions : new.rate = sess[s].rate /\ SessionMoves(s, new)
<1>1. sess[s] \in Sessions
  BY DEF EarsInv, EarsTypeOK
<1>2. CASE SessionConnects(s)
  <2> DEFINE connected == [sess[s] EXCEPT !.at = "serving", !.up = TRUE]
  <2>1. connected \in Sessions /\ connected.rate = sess[s].rate
    BY <1>1 DEF Sessions
  <2>2. SessionMoves(s, IF stopping THEN ShutDown(connected) ELSE connected)
    BY <1>2 DEF SessionConnects
  <2> HIDE DEF connected
  <2> QED BY <2>1, <2>2, SessionRecords
<1>3. CASE ConnectFails(s)
  BY <1>1, <1>3, SessionRecords DEF ConnectFails
<1>4. CASE StreamEnds(s)
  BY <1>1, <1>4, SessionRecords DEF StreamEnds
<1>5. CASE SessionCloses(s)
  <2> DEFINE closed == [sess[s] EXCEPT !.up = FALSE, !.takes = FALSE]
  <2>1. closed \in Sessions /\ closed.rate = sess[s].rate
    BY <1>1 DEF Sessions
  <2>2. SessionMoves(s, Ended(closed))
    BY <1>5 DEF SessionCloses
  <2> HIDE DEF closed
  <2> QED BY <2>1, <2>2, SessionRecords
<1>6. CASE StreamBreaks(s)
  <2> DEFINE broken == [sess[s] EXCEPT !.up = FALSE, !.takes = FALSE]
  <2>1. broken \in Sessions /\ broken.rate = sess[s].rate
    BY <1>1 DEF Sessions
  <2>2. SessionMoves(s, ShutDown(broken)) \/ SessionMoves(s, ShutDown(sess[s]))
    BY <1>6 DEF StreamBreaks
  <2> HIDE DEF broken
  <2> QED BY <1>1, <2>1, <2>2, SessionRecords
<1>7. CASE TaskCloses(s)
  <2> DEFINE again == [sess[s] EXCEPT !.asked = FALSE]
             first == [sess[s] EXCEPT !.asked = FALSE, !.told = TRUE, !.up = FALSE, !.takes = FALSE]
  <2>1. again \in Sessions /\ again.rate = sess[s].rate /\ first \in Sessions
          /\ first.rate = sess[s].rate
    BY <1>1 DEF Sessions
  <2>2. SessionMoves(s, again) \/ SessionMoves(s, first)
    BY <1>7 DEF TaskCloses
  <2> HIDE DEF again, first
  <2> QED BY <2>1, <2>2
<1> QED BY <1>2, <1>3, <1>4, <1>5, <1>6, <1>7 DEF SessionStep

\* So it keeps the invariant.
LEMMA SessionsKeep ==
  ASSUME EarsInv, NEW s \in Ear, SessionStep(s) \/ StreamBreaks(s) \/ TaskCloses(s)
  PROVE  EarsInv'
<1>1. PICK new \in Sessions : new.rate = sess[s].rate /\ SessionMoves(s, new)
  BY SessionsMove
<1>2. UNCHANGED <<callVars, earVars, endpointVars, client, clientRate, liveSession, frameVars,
                  muteVars>>
  BY <1>1 DEF SessionMoves
<1>3. sess' \in [Ear -> Sessions] /\ \A r \in Ear : sess'[r].rate = sess[r].rate
  BY <1>1, SessionSet DEF SessionMoves, EarsInv
<1>4. EarsTypeOK'
  BY <1>2, <1>3 DEF EarsInv, EarsTypeOK, callVars, earVars, endpointVars, frameVars, muteVars
<1>5. RateInv'
  BY <1>2, <1>3 DEF EarsInv, RateInv, EarsTypeOK, callVars, earVars, endpointVars
<1>6. (Built /\ LockInv /\ CallInv /\ FreshInv /\ QuietInv)'
  BY <1>2 DEF EarsInv, Built, LockInv, CallInv, FreshInv, QuietInv, Comes, TearsDown, callVars,
     earVars, endpointVars, frameVars, muteVars
<1>7. (HeardInv /\ GenInv /\ MuteInv /\ Right)'
  BY <1>2 DEF EarsInv, HeardInv, GenInv, MuteInv, WordKept, Right, TearsDown, callVars, earVars,
     endpointVars, frameVars, muteVars
<1> QED BY <1>4, <1>5, <1>6, <1>7 DEF EarsInv

\* The invariant holds at first.
LEMMA EarsBegin == EarsInit => EarsInv
<1> SUFFICES ASSUME EarsInit PROVE EarsInv
  OBVIOUS
<1>1. IdleCall \in Calls /\ NoSession \in Sessions
  BY DEF IdleCall, Calls, NoSession, Sessions
<1>2. \A c \in EarThreads : call[c] = IdleCall /\ call[c].at = "idle" /\ call[c].ear = NoneYet
        /\ call[c].old = NoneYet
  BY DEF EarsInit, IdleCall
<1>3. EarsTypeOK
  <2>1. call \in [EarThreads -> Calls] /\ sess \in [Ear -> Sessions]
    BY <1>1 DEF EarsInit
  <2>2. bound \in [Ear -> Nat] /\ capture \in [Ear -> {"idle", "check", "send"}]
    BY DEF EarsInit
  <2>3. built \in 0..MaxEars /\ earGeneration \in Nat
    BY EarFacts DEF EarsInit
  <2> QED BY <2>1, <2>3 DEF EarsInit, EarsTypeOK
<1>4. Built
  BY <1>2, EarFacts DEF EarsInit, Built
<1>5. LockInv /\ CallInv /\ FreshInv /\ QuietInv /\ MuteInv
  BY <1>2, EarFacts DEF EarsInit, LockInv, Holding, Installed, CallInv, FreshInv, Comes, QuietInv,
     MuteInv, WordKept
<1>6. HeardInv /\ GenInv /\ RateInv /\ Right
  BY <1>2, EarFacts DEF EarsInit, HeardInv, GenInv, RateInv, Right
<1> QED BY <1>3, <1>4, <1>5, <1>6 DEF EarsInv

\* A step that changes nothing keeps it.
LEMMA EarsStutter == ASSUME EarsInv, UNCHANGED earsVars PROVE EarsInv'
<1>1. (EarsTypeOK /\ Built /\ LockInv /\ CallInv /\ FreshInv /\ QuietInv)'
  BY DEF EarsInv, EarsTypeOK, Built, LockInv, CallInv, FreshInv, QuietInv, Comes, TearsDown,
     earsVars, callVars, earVars, endpointVars, sessionVars, frameVars, muteVars
<1>2. (HeardInv /\ GenInv /\ RateInv /\ MuteInv /\ Right)'
  BY DEF EarsInv, HeardInv, GenInv, RateInv, MuteInv, WordKept, Right, TearsDown, earsVars,
     callVars, earVars, endpointVars, sessionVars, frameVars, muteVars
<1> QED BY <1>1, <1>2 DEF EarsInv

\* Every step keeps it.
LEMMA EarsInductive == ASSUME EarsInv, [EarsNext]_earsVars PROVE EarsInv'
<1>1. CASE \E c \in EarCallers : StartVoice(c) \/ StopVoice(c) \/ MuteReads(c)
  BY <1>1, StartVoiceKeeps, StopVoiceKeeps, MuteReadsKeeps
<1>2. CASE \E c \in EarThreads : EarCallStep(c)
  BY <1>2, AttachLocksKeeps, InstallEarKeeps, RedialAsksKeeps, RedialJoinsKeeps, DialSessionKeeps,
     StartCaptureKeeps, CarryMuteKeeps, DetachLocksKeeps, TeardownEndsKeeps, MuteSetsKeeps,
     MuteAppliesKeeps, ReapEarsKeeps DEF EarCallStep, AttachStep
<1>3. CASE CloseBegins \/ CloseStopsEars
  BY <1>3, CloseBeginsKeeps, CloseStopsEarsKeeps
<1>4. CASE \E e \in Ear : TeardownLate(e) \/ FrameRead(e) \/ FrameStep(e)
  BY <1>4, TeardownLateKeeps, FrameReadKeeps, FrameCheckKeeps, FrameSendKeeps DEF FrameStep
<1>5. CASE \E s \in Ear : SessionStep(s) \/ StreamBreaks(s) \/ TaskCloses(s)
  BY <1>5, SessionsKeep
<1> QED BY <1>1, <1>2, <1>3, <1>4, <1>5, EarsStutter DEF EarsNext

\* And it says what we want.
LEMMA InvIsEnough == EarsInv => OneEarHeard
<1> SUFFICES ASSUME EarsInv PROVE OneEarHeard
  OBVIOUS
<1>1. \E e : capturing \ leftOver \subseteq {e}
  <2>1. capturing \subseteq Ear
    <3>1. capturing \subseteq 1..built /\ built \in 0..MaxEars /\ MaxEars \in Nat
      BY EarFacts DEF EarsInv, EarsTypeOK
    <3> QED BY <3>1 DEF Ear
  <2>2. CASE \E c \in EarThreads : call[c].at = "teardown"
    <3>1. PICK c \in EarThreads : call[c].at = "teardown"
      BY <2>2
    <3>2. theEar = NoneYet /\ \A d \in EarThreads : call[d].at = "teardown" => d = c
      BY <3>1, EarFacts DEF EarsInv, LockInv, Holding, CallInv
    <3>3. ASSUME NEW e \in capturing \ leftOver PROVE e = call[c].old
      BY <2>1, <3>2, <3>3, EarFacts DEF EarsInv, HeardInv, TearsDown
    <3> QED BY <3>3
  <2>3. CASE ~\E c \in EarThreads : call[c].at = "teardown"
    BY <2>1, <2>3 DEF EarsInv, HeardInv, TearsDown
  <2> QED BY <2>2, <2>3
<1>2. Cardinality(capturing \ leftOver) <= 1
  <2>1. PICK e : capturing \ leftOver \subseteq {e}
    BY <1>1
  <2>2. capturing \ leftOver = {} \/ capturing \ leftOver = {e}
    BY <2>1
  <2>3. Cardinality({}) = 0 /\ Cardinality({e}) = 1
    BY FS_EmptySet, FS_Singleton
  <2> QED BY <2>2, <2>3
<1>3. muteAcked /\ theEar # NoneYet /\ earLock = "nobody" => theEar \in mutedEars \cup missed
  BY EarFacts DEF EarsInv, MuteInv, WordKept, LockInv, Holding
<1> QED BY <1>2, <1>3 DEF OneEarHeard, EarsInv, Right

\* For any threads, endpoints and rates, and whether the daemon closes or streams break: of
\* two ears that capture one was given up on; what the client takes comes from the ear that
\* was attached when it was read, at the rate of the session; and an ear whose attach is
\* over is muted if the operator's last word was a mute -- except one that was attached
\* between set_mute's look at the endpoint and its write of the intent, until a word is
\* said to it.  No other interleaving of attach, detach, close and mute leaves it open.
THEOREM OneEarIsHeard == EarsSpec => []OneEarHeard
<1>1. EarsInit => EarsInv
  BY EarsBegin
<1>2. EarsInv /\ [EarsNext]_earsVars => EarsInv'
  BY EarsInductive
<1> QED BY <1>1, <1>2, InvIsEnough, PTL DEF EarsSpec

\* Every variable of the ear keeps its type.
THEOREM EarsTypeCorrect == EarsSpec => []EarsTypeOK
<1>1. EarsInit => EarsInv
  BY EarsBegin
<1>2. EarsInv /\ [EarsNext]_earsVars => EarsInv'
  BY EarsInductive
<1>3. EarsInv => EarsTypeOK
  BY DEF EarsInv
<1> QED BY <1>1, <1>2, <1>3, PTL DEF EarsSpec
=============================================================================

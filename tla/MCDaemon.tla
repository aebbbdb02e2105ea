------------------------------ MODULE MCDaemon ------------------------------
(***************************************************************************)
(* Parts of the daemon on small instances: its pid file, the asks it       *)
(* posted to the mesh, the marks on to-dos, the questions typed to it, the *)
(* ear.  They share no state: in a behaviour one of them moves, and the    *)
(* others stay as they begin.                                              *)
(***************************************************************************)
EXTENDS PidFile, MeshAsks, TodoMarks, ChatRequests, Ears, TLC

CONSTANTS
  Parts,            \* those that may move
  OldFile,          \* did an earlier daemon leave a pid file
  st1, st2, st3, k1, p1, p2, p3, t1, q1, q2, v1, v2, r1, r2

VARIABLE part

MCSymmetry == Permutations(Pids)

MCRates == {<<r1, r1>>, <<r1, r2>>}
MCOneRate == {<<r1>>}

Is(p) == part = p

Init ==
  /\ part \in Parts
  /\ PidInit /\ named = (IF Is("pid file") /\ OldFile THEN Old ELSE Nobody)
  /\ MeshInit /\ TodoInit /\ ChatInit
  /\ EarsInit /\ (Is("ears") \/ earRate = CHOOSE rate \in EarRates : TRUE)

Next ==
  /\ UNCHANGED part
  /\ IF Is("pid file")  THEN PidNext  ELSE UNCHANGED pidVars
  /\ IF Is("mesh asks") THEN MeshNext ELSE UNCHANGED meshVars
  /\ IF Is("to-dos")    THEN TodoNext ELSE UNCHANGED todoVars
  /\ IF Is("questions") THEN ChatNext ELSE UNCHANGED chatVars
  /\ IF Is("ears")      THEN EarsNext ELSE UNCHANGED earsVars

Spec == Init /\ [][Next]_<<part, pidVars, meshVars, todoVars, chatVars, earsVars>>

\* A part that stays as it begins owes nothing: no action of these is enabled then.
FairSpec == Spec /\ PidFairness /\ MeshFairness /\ TodoFairness /\ ChatFairness
            /\ EarsFairness

\* The part that moves keeps its variables' types; the others stay as they begin.
TypeOK ==
  /\ Is("pid file")  => PidTypeOK
  /\ Is("mesh asks") => MeshTypeOK
  /\ Is("to-dos")    => TodoTypeOK
  /\ Is("questions") => ChatTypeOK
  /\ Is("ears")      => EarsTypeOK
=============================================================================

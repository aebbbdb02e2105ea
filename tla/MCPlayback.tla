----------------------------- MODULE MCPlayback -----------------------------
(***************************************************************************)
(* Playback as TLC runs it: the whole specification with its fairness.     *)
(***************************************************************************)
EXTENDS Playback

FairSpec == PlaybackSpec /\ PlaybackFairness
=============================================================================

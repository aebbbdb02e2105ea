------------------------------ MODULE MCRecall ------------------------------
(* Background recall on small instances.                                   *)
EXTENDS BackgroundRecall

\* The first turn speaks two sentences, any other one.
MCLengths == [t \in Turns |-> IF t = 1 THEN {2} ELSE {1}]
=============================================================================

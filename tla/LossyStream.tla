---------------------------- MODULE LossyStream ----------------------------
(***************************************************************************)
(* What one subscriber of the bus is promised: an ordered stream of        *)
(* numbered events that may lose some, never silently.  A loss happens     *)
(* only when the bounded backlog is full, costs one event, and is told to  *)
(* the reader on the next event it receives.  Which event is lost, and     *)
(* why, is not part of the promise.                                        *)
(***************************************************************************)
EXTENDS Integers, FiniteSets, FiniteSetsExt

CONSTANT Capacity

VARIABLES
  newest,     \* the highest number the source has assigned
  waiting,    \* the backlog: numbers accepted, not lost, not yet read
  last,       \* the number read last
  offered,    \* how many events the source offered to this stream
  got,        \* how many the reader received
  untold,     \* losses the reader has not been told of
  told,       \* losses it has been told of
  ended       \* no event is accepted any more

vars == <<newest, waiting, last, offered, got, untold, told, ended>>

Init ==
  /\ newest = 0 /\ waiting = {} /\ last = 0 /\ offered = 0 /\ got = 0
  /\ untold = 0 /\ told = 0 /\ ended = FALSE

\* The source numbers an event this stream does not carry.
Skip ==
  /\ newest' \in Nat /\ newest' > newest
  /\ UNCHANGED <<waiting, last, offered, got, untold, told, ended>>

\* An event for this stream: it joins the backlog, and a full backlog sheds one.
Accept ==
  LET candidates == waiting \cup {newest'}
  IN /\ ~ended
     /\ newest' \in Nat /\ newest' > newest
     /\ offered' = offered + 1
     /\ \/ /\ Cardinality(waiting) < Capacity
           /\ waiting' = candidates /\ UNCHANGED untold
        \/ /\ Cardinality(waiting) = Capacity
           /\ \E lost \in candidates : waiting' = candidates \ {lost}
           /\ untold' = untold + 1
     /\ UNCHANGED <<last, got, told, ended>>

\* The reader receives the oldest waiting event, with the losses so far.
Read ==
  /\ waiting # {}
  /\ last' = Min(waiting) /\ waiting' = waiting \ {Min(waiting)}
  /\ got' = got + 1
  /\ told' = told + untold /\ untold' = 0
  /\ UNCHANGED <<newest, offered, ended>>

End ==
  /\ ended' = TRUE
  /\ UNCHANGED <<newest, waiting, last, offered, got, untold, told>>

Next == Skip \/ Accept \/ Read \/ End

Spec == Init /\ [][Next]_vars
=============================================================================

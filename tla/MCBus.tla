------------------------------- MODULE MCBus -------------------------------
(* The bus on small instances: one cfg per question.                       *)
EXTENDS Bus

CONSTANTS p1, p2, s1, s2, ticker, closer, worker

\* "features" is shed first, "transcript" is protected, "heartbeat" is what
\* tick publishes, "conversation" stays in the process.
MCKinds       == {"features", "conversation", "heartbeat"}
MCKindsLocal  == {"features", "transcript", "heartbeat", "conversation"}

\* s1 asks for everything; s2 for everything but the live waveform.
MCSubKinds == [s \in Subs |-> IF s = s1 THEN Kinds ELSE Kinds \ {"features"}]

MCPair        == {"transcript", "heartbeat"}
MCNoLocal     == {}
MCLocal       == {"conversation"}

\* p1 publishes all there is, but for the heartbeat; p2 only what is protected.
MCPublishes == [t \in Publishers |-> IF t = p1 THEN Kinds \ {Heartbeat} ELSE Kinds \ {Heartbeat, "features"}]

MCPublishAll == [t \in Publishers |-> Kinds \ {Heartbeat}]

MCSymmetry == Permutations(Publishers)
=============================================================================

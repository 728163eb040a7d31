-------------------------- MODULE MCPipedSession --------------------------
(* Instances of PipedSession for TLC. *)
EXTENDS PipedSession

MCMaxOut == [s \in Streams |-> IF s = "stdout" THEN 3 ELSE 1]

\* Standard output: a character of two bytes and the beginning of another.
MCHold == [s \in Streams |-> [n \in 0..MCMaxOut[s] |->
              IF s = "stdout" /\ n \in {1, 3} THEN 1 ELSE 0]]
===========================================================================

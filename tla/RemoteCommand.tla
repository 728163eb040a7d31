--------------------------- MODULE RemoteCommand ---------------------------
(* What "sudo command" in piped mode and "su user command" promise: the     *)
(* bytes of each output stream are passed on in order, none lost or doubled, *)
(* and the exit code of the command becomes the exit code of sudo or su,     *)
(* after all the output -- except the first bytes of a character that the    *)
(* output ends in the middle of, which are never passed on -- or the         *)
(* connection is lost and sudo or su itself fails.                           *)
(*                                                                           *)
(* A byte is its number in its stream.  What a byte looks like to the caller, *)
(* once the code page has been converted, is not said here.                  *)
EXTENDS Naturals, Sequences

CONSTANTS
    Streams,    \* the command's output streams
    MaxOut,     \* bound on the bytes the command writes to each
    Codes,      \* the exit codes it may end with
    None, Lost

VARIABLES
    written,    \* bytes the command wrote to each stream so far
    due,        \* those of them before the character left unfinished
    status,     \* its exit code, None while it runs
    printed,    \* the bytes passed on to the caller on each stream
    result      \* None, the exit code returned, or Lost

vars == <<written, due, status, printed, result>>

Init ==
    /\ written = [s \in Streams |-> 0]
    /\ due = [s \in Streams |-> 0]
    /\ status = None
    /\ printed = [s \in Streams |-> << >>]
    /\ result = None

\* More bytes, of which up to three begin a character and do not finish it.
Output(s) ==
    \E n \in written[s] + 1 .. MaxOut[s], k \in 0..3 :
        /\ k <= n
        /\ written' = [written EXCEPT ![s] = n]
        /\ due' = [due EXCEPT ![s] = n - k]

Write(s) ==
    /\ status = None
    /\ Output(s)
    /\ UNCHANGED <<status, printed, result>>

Finish ==
    /\ status = None
    /\ status' \in Codes
    /\ UNCHANGED <<written, due, printed, result>>

\* sudo answers itself in place of the command (id, whoami).
Answer(s) ==
    /\ status = None
    /\ Output(s)
    /\ status' \in Codes
    /\ UNCHANGED <<printed, result>>

Show(s) ==
    /\ result = None
    /\ \E n \in Len(printed[s]) + 1 .. written[s] :
          printed' = [printed EXCEPT ![s] = [i \in 1..n |-> i]]
    /\ UNCHANGED <<written, due, status, result>>

Return ==
    /\ result = None
    /\ status # None
    /\ \A s \in Streams : Len(printed[s]) >= due[s]
    /\ result' = status
    /\ UNCHANGED <<written, due, status, printed>>

Lose ==
    /\ result = None
    /\ result' = Lost
    /\ UNCHANGED <<written, due, status, printed>>

Next ==
    \/ \E s \in Streams : Write(s) \/ Answer(s) \/ Show(s)
    \/ Finish \/ Return \/ Lose

Spec == Init /\ [][Next]_vars
=============================================================================

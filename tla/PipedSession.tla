---------------------------- MODULE PipedSession ----------------------------
(***************************************************************************)
(* One piped command of cmd/sudo/main.go, from the accepted request to the  *)
(* end of the connection: the client's three goroutines (runServer), the    *)
(* daemon's handler and stdin goroutine (handleDaemonConn, execPiped), the  *)
(* two directions of the named pipe, and the command.                       *)
(*                                                                         *)
(* A piece of input, or a byte of output, is its number; a message of output *)
(* carries a range of bytes.  Of msgWriter's filter the model has the bytes   *)
(* it keeps back; what the conversion makes of the others is in OutputWriter. *)
(* Closing an end of the pipe leaves what was written before readable at the  *)
(* other end.                                                                *)
(***************************************************************************)
EXTENDS Naturals, Sequences

CONSTANTS
    Streams,    \* "stdout" and "stderr"
    MaxOut,     \* bound on the bytes written to each
    Hold,       \* for each, how many of its first n bytes, seen from the last,
                \* begin a character that is not finished: 0 without a code page
    MaxIn,      \* bound on the pieces of standard input
    MaxSig,     \* bound on the times the user presses Ctrl+C
    Cap,        \* messages each direction of the named pipe holds
    Codes,      \* exit codes; 1 is what a killed or unstartable command gets
    Env,        \* faults: a subset of AllEnv
    None, Lost

AllEnv == {"die", "stop", "nostart", "nopipe", "native"}

ASSUME ConstAssumption ==
    /\ "stdout" \in Streams /\ Streams \cap {"stdin", "error", "exit"} = {}
    /\ MaxOut \in [Streams -> Nat \ {0}]
    /\ \A s \in Streams : \A n \in 0..MaxOut[s] :
          Hold[s][n] \in 0..3 /\ Hold[s][n] <= n
    /\ MaxIn \in Nat /\ MaxSig \in Nat
    /\ Cap \in Nat \ {0}
    /\ {0, 1} \subseteq Codes /\ None \notin Codes /\ Lost # None
    /\ Env \subseteq AllEnv

VARIABLES
    feeder,     \* client: the goroutine reading os.Stdin
    fed,        \* client: pieces of input it has sent
    sigs,       \* client: signals waiting in sc
    pressed,    \* times the user pressed Ctrl+C
    printed,    \* client: what it wrote to each of its streams
    result,     \* client: what runServer returned
    c2s, s2c,   \* messages in the pipe, oldest first
    open,       \* the client's end is open
    handler,    \* daemon: the connection's goroutine
    code,       \* daemon: the exit code it is to send
    reader,     \* daemon: the stdin goroutine
    held,       \* daemon: the piece it is writing to the command
    cmdDone,    \* daemon: the channel cmdDone is closed
    child,      \* the command: "none", "running", "exited"
    status,     \* its exit code
    stdin,      \* the pieces in its standard input
    got,        \* the pieces it has read
    eof,        \* the daemon closed its standard input
    written,    \* bytes it wrote to each stream
    copied,     \* bytes of each stream that os/exec passed to msgWriter
    sent        \* bytes of each stream that msgWriter put into messages

clientVars == <<feeder, fed, sigs, pressed, printed, result, open>>
pipeVars   == <<c2s, s2c>>
daemonVars == <<handler, code, reader, held, cmdDone>>
childVars  == <<child, status, stdin, got, eof, written, copied, sent>>
vars       == <<clientVars, pipeVars, daemonVars, childVars>>

Init ==
    /\ feeder = "read" /\ fed = 0 /\ sigs = 0 /\ pressed = 0
    /\ printed = [s \in Streams |-> << >>]
    /\ result = None
    /\ c2s = << >> /\ s2c = << >>
    /\ open = TRUE
    /\ handler = "start" /\ code = 0 /\ reader = "none" /\ held = 0
    /\ cmdDone = FALSE
    /\ child = "none" /\ status = None /\ stdin = << >> /\ got = << >>
    /\ eof = FALSE
    /\ written = [s \in Streams |-> 0]
    /\ copied = [s \in Streams |-> 0]
    /\ sent = [s \in Streams |-> 0]

Message(name, n) == [name |-> name, n |-> n]
Output(s, from, n) == [name |-> s, from |-> from, n |-> n]

-----------------------------------------------------------------------------
(* The client: runServer from "Piped mode" on. *)

\* Encode blocks while the pipe is full and fails once the daemon is gone.
ToDaemon(m) ==
    \/ handler # "closed" /\ Len(c2s) < Cap /\ c2s' = Append(c2s, m)
    \/ handler = "closed" /\ UNCHANGED c2s

\* os.Stdin.Read returns data, or end of file.
FeederReads ==
    /\ result = None
    /\ feeder = "read"
    /\ \/ fed < MaxIn /\ feeder' = "send"
       \/ feeder' = "eof"
    /\ UNCHANGED <<fed, sigs, pressed, printed, result, open, pipeVars,
                   daemonVars, childVars>>

FeederSends ==
    /\ result = None
    /\ feeder = "send"
    /\ ToDaemon(Message("stdin", fed + 1))
    /\ \/ handler # "closed" /\ fed' = fed + 1 /\ feeder' = "read"
       \/ handler = "closed" /\ UNCHANGED fed /\ feeder' = "done"
    /\ UNCHANGED <<sigs, pressed, printed, result, open, s2c, daemonVars,
                   childVars>>

\* Mutant: the goroutine reads on after the end of file.
FeederClosesMut ==
    /\ result = None
    /\ feeder = "eof"
    /\ ToDaemon(Message("close", 0))
    /\ feeder' = "read"
    /\ UNCHANGED <<fed, sigs, pressed, printed, result, open, s2c, daemonVars,
                   childVars>>

FeederCloses ==
    /\ result = None
    /\ feeder = "eof"
    /\ ToDaemon(Message("close", 0))
    /\ feeder' = "done"
    /\ UNCHANGED <<fed, sigs, pressed, printed, result, open, s2c, daemonVars,
                   childVars>>

\* signal.Notify drops a signal when sc, of capacity 1, is full.
Press ==
    /\ result = None
    /\ pressed < MaxSig
    /\ pressed' = pressed + 1
    /\ sigs' = 1
    /\ UNCHANGED <<feeder, fed, printed, result, open, pipeVars, daemonVars,
                   childVars>>

SendCtrlC ==
    /\ result = None
    /\ sigs = 1
    /\ ToDaemon(Message("ctrlc", 0))
    /\ sigs' = 0
    /\ UNCHANGED <<feeder, fed, pressed, printed, result, open, s2c, daemonVars,
                   childVars>>

\* runServer returns and the process exits.
Returns(r) ==
    /\ result' = r
    /\ open' = FALSE
    /\ UNCHANGED <<feeder, fed, sigs, pressed, printed>>

\* The bytes that a message carries.
Bytes(m) == [i \in 1..m.n - m.from + 1 |-> m.from + i - 1]

Receive ==
    /\ result = None
    /\ s2c # << >>
    /\ s2c' = Tail(s2c)
    /\ LET m == Head(s2c) IN
       \/ /\ m.name \in Streams
          /\ printed' = [printed EXCEPT ![m.name] = @ \o Bytes(m)]
          /\ UNCHANGED <<feeder, fed, sigs, pressed, result, open>>
       \/ /\ m.name = "error"
          /\ UNCHANGED clientVars
       \/ /\ m.name = "exit"
          /\ Returns(m.n)
    /\ UNCHANGED <<c2s, daemonVars, childVars>>

\* Decode fails once the daemon's end is closed.
ReceiveEOF ==
    /\ result = None
    /\ s2c = << >>
    /\ handler = "closed"
    /\ Returns(Lost)
    /\ UNCHANGED <<pipeVars, daemonVars, childVars>>

\* The sudo process is killed, or its terminal closes.
Die ==
    /\ "die" \in Env
    /\ result = None
    /\ Returns(Lost)
    /\ UNCHANGED <<pipeVars, daemonVars, childVars>>

-----------------------------------------------------------------------------
(* The daemon's handler: execPiped, then the end of handleDaemonConn. *)

\* Encode blocks while the pipe is full and fails once the client is gone.
ToClient(m) ==
    \/ open /\ Len(s2c) < Cap /\ s2c' = Append(s2c, m)
    \/ ~ open /\ UNCHANGED s2c

\* id and whoami are answered by the daemon itself, in one message past the
\* filter; there is no command and no stdin goroutine.
Intercept ==
    /\ "native" \in Env
    /\ handler = "start"
    /\ \E n \in 1..MaxOut["stdout"] :
          /\ ToClient(Output("stdout", 1, n))
          /\ written' = [written EXCEPT !["stdout"] = n]
          /\ copied' = [copied EXCEPT !["stdout"] = n]
          /\ sent' = [sent EXCEPT !["stdout"] = n]
    /\ handler' = "exit"
    /\ reader' = "done"
    /\ child' = "exited" /\ status' = 0
    /\ UNCHANGED <<clientVars, c2s, code, held, cmdDone, stdin, got, eof>>

\* cmd.StdinPipe fails: an error, exit code 1, and no stdin goroutine.
NoStdinPipe ==
    /\ "nopipe" \in Env
    /\ handler = "start"
    /\ ToClient(Message("error", 0))
    /\ handler' = "exit"
    /\ code' = 1
    /\ reader' = "done"
    /\ child' = "exited" /\ status' = 1
    /\ UNCHANGED <<clientVars, c2s, held, cmdDone, stdin, got, eof, written,
                   copied, sent>>

StartReader ==
    /\ handler = "start"
    /\ handler' = "launch"
    /\ reader' = "check"
    /\ UNCHANGED <<clientVars, pipeVars, code, held, cmdDone, childVars>>

\* cmd.Run: Start sets cmd.Process, or fails.
Launch ==
    /\ handler = "launch"
    /\ child' = "running"
    /\ handler' = "run"
    /\ UNCHANGED <<clientVars, pipeVars, code, reader, held, cmdDone, status,
                   stdin, got, eof, written, copied, sent>>

LaunchFails ==
    /\ "nostart" \in Env
    /\ handler = "launch"
    /\ ToClient(Message("error", 0))
    /\ child' = "exited" /\ status' = 1
    /\ eof' = TRUE
    /\ code' = 1
    /\ handler' = "cmdDone"
    /\ UNCHANGED <<clientVars, c2s, reader, held, cmdDone, stdin, got, written,
                   copied, sent>>

\* The bytes that splitIncompleteUTF8Tail keeps back of a buffer with the bytes
\* from..n: it looks for the character's first byte in the buffer only.
KeptBack(s, from, n) == IF Hold[s][n] <= n - from + 1 THEN Hold[s][n] ELSE 0

\* Mutant: what was kept back is not put before the next bytes.
CopyMut(s) ==
    /\ handler # "closed"
    /\ \E n \in copied[s] + 1 .. written[s] :
          LET to == n - KeptBack(s, copied[s] + 1, n)
          IN  /\ IF to = copied[s] THEN UNCHANGED s2c
                 ELSE ToClient(Output(s, copied[s] + 1, to))
              /\ copied' = [copied EXCEPT ![s] = n]
              /\ sent' = [sent EXCEPT ![s] = to]
    /\ UNCHANGED <<clientVars, c2s, daemonVars, child, status, stdin, got, eof,
                   written>>

\* The os/exec goroutine of one stream reads some of the bytes that are there
\* and calls msgWriter.Write: what was kept back goes before them, an
\* unfinished character is kept back again, and without the rest no message.
Copy(s) ==
    /\ handler # "closed"
    /\ \E n \in copied[s] + 1 .. written[s] :
          LET to == n - KeptBack(s, sent[s] + 1, n)
          IN  /\ IF to = sent[s] THEN UNCHANGED s2c
                 ELSE ToClient(Output(s, sent[s] + 1, to))
              /\ copied' = [copied EXCEPT ![s] = n]
              /\ sent' = [sent EXCEPT ![s] = to]
    /\ UNCHANGED <<clientVars, c2s, daemonVars, child, status, stdin, got, eof,
                   written>>

\* Mutant: Run does not wait for the command.
EndedMut == child # "none"

Ended == child = "exited"
AllCopied == \A s \in Streams : copied[s] = written[s]

\* cmd.Run returns: the process has ended and both streams are copied.  It
\* has closed the command's standard input.  What msgWriter keeps back stays
\* there.
RunReturns ==
    /\ handler = "run"
    /\ Ended
    /\ AllCopied
    /\ code' = status
    /\ eof' = TRUE
    /\ handler' = "cmdDone"
    /\ UNCHANGED <<clientVars, pipeVars, reader, held, cmdDone, child, status,
                   stdin, got, written, copied, sent>>

CloseCmdDone ==
    /\ handler = "cmdDone"
    /\ cmdDone' = TRUE
    /\ handler' = "exit"
    /\ UNCHANGED <<clientVars, pipeVars, code, reader, held, childVars>>

\* Mutant: the exit message waits for the stdin goroutine.
SendExitMut ==
    /\ handler = "exit"
    /\ reader = "done"
    /\ ToClient(Message("exit", code))
    /\ handler' = "wait"
    /\ UNCHANGED <<clientVars, c2s, code, reader, held, cmdDone, childVars>>

SendExit ==
    /\ handler = "exit"
    /\ ToClient(Message("exit", code))
    /\ handler' = "wait"
    /\ UNCHANGED <<clientVars, c2s, code, reader, held, cmdDone, childVars>>

\* Mutant: the connection is drained without waiting for stdinDone.
StdinDoneMut == TRUE

StdinDone == reader = "done"

WaitStdinDone ==
    /\ handler = "wait"
    /\ StdinDone
    /\ handler' = "drain"
    /\ UNCHANGED <<clientVars, pipeVars, code, reader, held, cmdDone, childVars>>

\* io.Copy(io.Discard, conn) until the client closes; then conn.Close.
Drain ==
    /\ handler = "drain"
    /\ \/ /\ c2s # << >>
          /\ c2s' = Tail(c2s)
          /\ UNCHANGED handler
       \/ /\ c2s = << >>
          /\ ~ open
          /\ handler' = "closed"
          /\ UNCHANGED c2s
    /\ UNCHANGED <<clientVars, s2c, code, reader, held, cmdDone, childVars>>

\* Another "sudo -k", or the idle watchdog, ends the daemon (Cygsec): every
\* goroutine and every end of a pipe it holds; the command lives on.
DaemonStops ==
    /\ "stop" \in Env
    /\ handler # "closed"
    /\ handler' = "closed"
    /\ reader' = "done"
    /\ eof' = TRUE
    /\ UNCHANGED <<clientVars, pipeVars, code, held, cmdDone, child, status,
                   stdin, got, written, copied, sent>>

-----------------------------------------------------------------------------
(* The daemon's stdin goroutine. *)

\* It returns, and the deferred calls close the command's standard input and
\* stdinDone.
ReaderEnds == reader' = "done" /\ eof' = TRUE

ReaderChecks ==
    /\ reader = "check"
    /\ \/ cmdDone /\ ReaderEnds
       \/ ~ cmdDone /\ reader' = "decode" /\ UNCHANGED eof
    /\ UNCHANGED <<clientVars, pipeVars, handler, code, held, cmdDone, child,
                   status, stdin, got, written, copied, sent>>

\* cmd.Process.Kill, if there is a process.
Kill ==
    \/ child = "running" /\ child' = "exited" /\ status' = 1
    \/ child # "running" /\ UNCHANGED <<child, status>>

ReaderDecodes ==
    /\ reader = "decode"
    /\ c2s # << >>
    /\ c2s' = Tail(c2s)
    /\ LET m == Head(c2s) IN
       \/ /\ m.name = "stdin"
          /\ held' = m.n
          /\ reader' = "write"
          /\ UNCHANGED <<child, status, eof>>
       \/ /\ m.name = "close"
          /\ ReaderEnds
          /\ UNCHANGED <<held, child, status>>
       \/ /\ m.name = "ctrlc"
          /\ Kill
          /\ ReaderEnds
          /\ UNCHANGED held
    /\ UNCHANGED <<clientVars, s2c, handler, code, cmdDone, stdin, got, written,
                   copied, sent>>

\* Mutant: after an error of Decode the goroutine calls it again.
ReaderEOFMut ==
    /\ reader = "decode"
    /\ c2s = << >>
    /\ ~ open
    /\ UNCHANGED vars

ReaderEOF ==
    /\ reader = "decode"
    /\ c2s = << >>
    /\ ~ open
    /\ ReaderEnds
    /\ UNCHANGED <<clientVars, pipeVars, handler, code, held, cmdDone, child,
                   status, stdin, got, written, copied, sent>>

\* Mutant: a piece the command has no room for is dropped.
ReaderWritesMut ==
    /\ reader = "write"
    /\ stdin' = IF stdin = << >> THEN <<held>> ELSE stdin
    /\ reader' = "check"
    /\ UNCHANGED <<clientVars, pipeVars, handler, code, held, cmdDone, child,
                   status, got, eof, written, copied, sent>>

\* stdinPipe.Write blocks while the anonymous pipe (one piece) is full; its
\* error, once the command has ended, is ignored.
ReaderWrites ==
    /\ reader = "write"
    /\ \/ /\ child # "exited" /\ stdin = << >>
          /\ stdin' = <<held>>
       \/ /\ child = "exited"
          /\ UNCHANGED stdin
    /\ reader' = "check"
    /\ UNCHANGED <<clientVars, pipeVars, handler, code, held, cmdDone, child,
                   status, got, eof, written, copied, sent>>

-----------------------------------------------------------------------------
(* The command itself: it writes, reads and ends as it likes. *)

ChildWrites(s) ==
    /\ child = "running"
    /\ handler # "closed"
    /\ \E n \in written[s] + 1 .. MaxOut[s] : written' = [written EXCEPT ![s] = n]
    /\ UNCHANGED <<clientVars, pipeVars, daemonVars, child, status, stdin, got,
                   eof, copied, sent>>

ChildReads ==
    /\ child = "running"
    /\ stdin # << >>
    /\ got' = got \o stdin
    /\ stdin' = << >>
    /\ UNCHANGED <<clientVars, pipeVars, daemonVars, child, status, eof, written,
                   copied, sent>>

ChildExits ==
    /\ child = "running"
    /\ child' = "exited"
    /\ status' \in Codes
    /\ UNCHANGED <<clientVars, pipeVars, daemonVars, stdin, got, eof, written,
                   copied, sent>>

-----------------------------------------------------------------------------

FeederStep == FeederReads \/ FeederSends \/ FeederCloses
ClientStep == Receive \/ ReceiveEOF
HandlerStep ==
    \/ Intercept \/ NoStdinPipe \/ StartReader \/ Launch \/ LaunchFails
    \/ RunReturns \/ CloseCmdDone \/ SendExit \/ WaitStdinDone \/ Drain
ReaderStep == ReaderChecks \/ ReaderDecodes \/ ReaderEOF \/ ReaderWrites

Next ==
    \/ FeederStep \/ SendCtrlC \/ ClientStep \/ HandlerStep \/ ReaderStep
    \/ Press \/ Die \/ DaemonStops \/ ChildReads \/ ChildExits
    \/ \E s \in Streams : ChildWrites(s) \/ Copy(s)

Spec == Init /\ [][Next]_vars

\* Every goroutine of the two programs runs on while it can.  The user and the
\* command do what they like: in particular the command may never end, and
\* standard input may never reach its end.
Fairness ==
    /\ WF_vars(FeederSends) /\ WF_vars(FeederCloses)
    /\ SF_vars(SendCtrlC)
    /\ WF_vars(ClientStep) /\ WF_vars(HandlerStep) /\ WF_vars(ReaderStep)
    /\ \A s \in Streams : WF_vars(Copy(s))

LiveSpec == Spec /\ Fairness

-----------------------------------------------------------------------------

Numbers(n) == [i \in 1..n |-> i]
Held == IF reader = "write" THEN <<held>> ELSE << >>

\* Where the bytes or the piece of a message begin; they end with m.n.
First(m) == IF m.name \in Streams THEN m.from ELSE m.n

\* The messages called x in the queue q carry the bytes or pieces a + 1 to b,
\* each once and in this order.
Carries(q, x, a, b) ==
    /\ a <= b
    /\ \A i \in 1..Len(q) : q[i].name = x =>
           First(q[i]) \in a + 1 .. b /\ q[i].n \in First(q[i]) .. b
    /\ \A n \in a + 1 .. b : \E i \in 1..Len(q) :
           q[i].name = x /\ n \in First(q[i]) .. q[i].n
    /\ \A i, j \in 1..Len(q) :
          i < j /\ q[i].name = x /\ q[j].name = x => q[i].n < First(q[j])

ClientMessages == [name : {"stdin"}, n : 1..MaxIn] \cup
                  [name : {"close", "ctrlc"}, n : {0}]
DaemonMessages == [name : Streams, from : Nat, n : Nat] \cup
                  [name : {"error"}, n : {0}] \cup [name : {"exit"}, n : Codes]

\* Every variable has a value of its type; the exit codes are those of the
\* command, and neither direction of the pipe holds more than it can.
TypeOK ==
    /\ feeder \in {"read", "send", "eof", "done"}
    /\ fed \in 0..MaxIn /\ sigs \in 0..1 /\ pressed \in 0..MaxSig
    /\ printed \in [Streams -> Seq(Nat)]
    /\ result \in Codes \cup {None, Lost}
    /\ c2s \in Seq(ClientMessages) /\ s2c \in Seq(DaemonMessages)
    /\ Len(c2s) <= Cap /\ Len(s2c) <= Cap
    /\ open \in BOOLEAN
    /\ handler \in {"start", "launch", "run", "cmdDone", "exit", "wait", "drain",
                    "closed"}
    /\ code \in Codes
    /\ reader \in {"none", "check", "decode", "write", "done"}
    /\ held \in 0..MaxIn
    /\ cmdDone \in BOOLEAN
    /\ child \in {"none", "running", "exited"}
    /\ status \in Codes \cup {None}
    /\ stdin \in Seq(1..MaxIn) /\ got \in Seq(1..MaxIn) /\ eof \in BOOLEAN
    /\ written \in [Streams -> Nat] /\ \A s \in Streams : written[s] <= MaxOut[s]
    /\ copied \in [Streams -> Nat] /\ sent \in [Streams -> Nat]

\* main.go:810: the stdin goroutine and the drain never read the connection
\* at once ("the two readers race and one may hang forever").
SingleReader == ~ (reader = "decode" /\ handler = "drain")

\* No piece of standard input is lost, doubled or overtaken between the
\* client and a command that has not ended, whatever blocks on the way; when
\* the command or the daemon has ended, only the last pieces are lost.
InputInOrder ==
    /\ child # "exited" /\ handler # "closed" =>
           LET taken == got \o stdin \o Held
           IN  /\ taken = Numbers(Len(taken))
               /\ Carries(c2s, "stdin", Len(taken), fed)
    /\ \E n \in 0..fed : got \o stdin = Numbers(n)

\* A running command sees the end of its input only after all the input and
\* only when the user's input has ended, unless Ctrl+C or the end of the
\* client or of the daemon intervened.
EofAfterInput ==
    child = "running" /\ eof /\ result = None /\ handler # "closed"
      /\ pressed = 0 =>
        feeder = "done" /\ got \o stdin = Numbers(fed)

\* "stdin, stdout and stderr are forwarded transparently; exit codes are
\* preserved" (main.go:435), as far as it holds: the session implements
\* RemoteCommand.  When sudo returns the exit code, the caller was sent every byte
\* of each stream once and in order, but for the first bytes of a character that
\* the stream does not finish.
Remote == INSTANCE RemoteCommand WITH
    written <- written, status <- status, printed <- printed, result <- result,
    due     <- [s \in Streams |-> written[s] - Hold[s][written[s]]]
ForwardsCommand == Remote!Spec

\* Once the command has ended, sudo returns, even if its own standard input
\* never does.
ExitDelivered == (child = "exited") ~> (result # None)

\* Once both the command and sudo have ended the handler ends, so that the
\* daemon's activeConns drops.
HandlerReleased == (child = "exited" /\ result # None) ~> (handler = "closed")

\* Help text, main.go:436: "Ctrl+C is forwarded to the elevated process."  A
\* Ctrl+C pressed while the command runs ends it.
CtrlCForwarded == (sigs = 1 /\ child = "running") ~> (child # "running")
=============================================================================

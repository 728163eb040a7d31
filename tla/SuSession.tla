------------------------------ MODULE SuSession ------------------------------
(***************************************************************************)
(* One call of su (cmd/su): runServer and runServerAsToken in the caller's   *)
(* process, with the goroutines that spawn the helper, accept its call and   *)
(* forward Ctrl+C and standard input; the helper, runClient, with the        *)
(* goroutine that reads the messages and the one of os/exec that copies the  *)
(* output; the loopback connection between them; and the command.            *)
(*                                                                         *)
(* The token is acquired as in SuToken, the command's output is filtered as  *)
(* in OutputWriter; it is a text of real bytes, which the command writes in  *)
(* steps of its own.  One output stream stands for both.                     *)
(***************************************************************************)
EXTENDS SuToken, OutputWriter

CONSTANTS
    Calls,      \* calls of su
    Scenario,   \* for each, whom it asks for and the text its command writes
    MaxIn,      \* bound on the pieces of standard input
    MaxSig,     \* bound on the times the user presses Ctrl+C
    Codes,      \* exit codes; 1 is what a killed or unstartable command gets
    Env,        \* who may be killed, one in a behaviour: of {"su", "helper"}
    None, Lost

ASSUME ConstAssumption ==
    /\ \A c \in Calls :
          /\ Scenario[c].user \in Users
          /\ Scenario[c].text.bytes \in Seq(0..255)
          /\ Scenario[c].text.cuts \subseteq 1..Len(Scenario[c].text.bytes)
    /\ MaxIn \in Nat /\ MaxSig \in Nat
    /\ {0, 1} \subseteq Codes /\ {None, Lost} \cap Codes = {}
    /\ None \notin {Lost, "conn", "err", "failed", "ended"}
    /\ Env \subseteq {"su", "helper"}

VARIABLES
    call,       \* which call it is
    spc,        \* su: the main goroutine
    result,     \* su: what it returned; Lost if not the code of an exit message
    told,       \* su: why it says that nobody connected
    spawn,      \* su: the goroutine that starts the helper and waits for it
    spawnErr,   \* su: the channel of that name
    lis,        \* su: the listener
    ch,         \* su: the channel of the goroutine in Accept
    typed,      \* su: pieces of standard input read
    stdin,      \* su: the goroutine reading os.Stdin
    pressed,    \* times the user pressed Ctrl+C
    shown,      \* su: the elements written to its own output
    conn,       \* the connection
    toHelper,   \* messages on their way to the helper
    toServer,   \* messages on their way to su
    hpc,        \* helper: the main goroutine
    reader,     \* helper: the goroutine that decodes messages
    copier,     \* helper: the goroutine of os/exec
    tail,       \* helper: the bytes msgWriter keeps back
    copied,     \* helper: bytes read from the command
    child,      \* the command and who holds its output: "none", "running", "ended"
    written,    \* bytes it wrote
    code,       \* its exit code
    killed      \* who was

suVars      == <<spc, result, told, spawn, spawnErr, lis, ch, typed, stdin,
                 pressed, shown>>
connVars    == <<conn, toHelper, toServer>>
helperVars  == <<hpc, reader, copier, tail, copied>>
childVars   == <<child, written, code>>
sessionVars == <<call, suVars, connVars, helperVars, childVars, killed>>
vars        == <<tokenVars, sessionVars>>

Init ==
    /\ call \in Calls
    /\ TokenInit({Scenario[call].user})
    /\ spc = "token" /\ result = None /\ told = "nothing"
    /\ spawn = "none" /\ spawnErr = None /\ lis = "none" /\ ch = None
    /\ typed = 0 /\ stdin = "none" /\ pressed = 0 /\ shown = << >>
    /\ conn = "none" /\ toHelper = << >> /\ toServer = << >>
    /\ hpc = "none" /\ reader = "none" /\ copier = "none"
    /\ tail = << >> /\ copied = 0
    /\ child = "none" /\ written = 0 /\ code = None
    /\ killed = {}

\* What the command would write: its bytes and the places where it may end a
\* write; oem if it is text of the code page, and what the caller is to see of it
\* then; command unless it is the bash that su starts when it is given no
\* command, whose output is not converted.
text == Scenario[call].text

Message(name, data) == [name |-> name, data |-> data]

Running == result = None
HelperLives == hpc \notin {"none", "ended"}

-----------------------------------------------------------------------------
(* su returns, and with it its process ends: the listener and its side of the *)
(* connection close, a caller not yet accepted is refused.                    *)

ConnGone == IF conn = "none" THEN "none" ELSE "closed"

Returns(r) ==
    /\ spc' = "returned"
    /\ result' = r
    /\ lis' = IF lis = "none" THEN "none" ELSE "closed"
    /\ conn' = ConnGone
    /\ UNCHANGED <<spawn, spawnErr, ch, typed, stdin, pressed>>

GivesUp(why) == told' = why /\ UNCHANGED shown /\ Returns(Lost)

\* The token is there: on to the listener, for an account by way of its
\* password.
Acquire ==
    /\ Running /\ spc = "token"
    /\ \/ SuAcquires /\ UNCHANGED sessionVars
       \/ /\ tpc = "acquired"
          /\ spc' = IF user = "logon" THEN "password" ELSE "listen"
          /\ UNCHANGED <<result, told, spawn, spawnErr, lis, ch, typed, stdin,
                         pressed, shown, connVars>>
          /\ UNCHANGED <<tokenVars, call, helperVars, childVars, killed>>
       \/ /\ tpc = "failed"
          /\ GivesUp("no token")
          /\ UNCHANGED <<toHelper, toServer>>
          /\ UNCHANGED <<tokenVars, call, helperVars, childVars, killed>>

Service == Running /\ ServiceMoves /\ UNCHANGED sessionVars

\* checkSecondaryLogon, lookupUserDomain, readPassword: each may fail.  A
\* password that is piped in is read through a buffer, which may take the input
\* that follows it.
Password ==
    /\ Running /\ spc = "password"
    /\ \/ /\ spc' = "listen"
          /\ typed' \in 0..MaxIn
          /\ UNCHANGED <<result, told, spawn, spawnErr, lis, ch, stdin, pressed,
                         shown, conn>>
       \/ GivesUp("no user")
    /\ UNCHANGED <<tokenVars, call, toHelper, toServer, helperVars, childVars,
                   killed>>

\* net.Listen, os.Executable; then the two goroutines start.
Listen ==
    /\ Running /\ spc = "listen"
    /\ \/ /\ spc' = "accept"
          /\ lis' = "open"
          /\ spawn' = "calling"
          /\ UNCHANGED <<result, told, spawnErr, ch, typed, stdin, pressed,
                         shown, conn>>
       \/ GivesUp("no listener")
    /\ UNCHANGED <<tokenVars, call, toHelper, toServer, helperVars, childVars,
                   killed>>

-----------------------------------------------------------------------------
(* The goroutine with spawnAsUser or spawnWithToken. *)

OnlySpawn == UNCHANGED <<tokenVars, call, spc, result, told, ch, typed, stdin,
                         pressed, shown, toHelper, toServer, reader, copier,
                         tail, copied, childVars, killed>>

\* CreateProcessWithLogonW or CreateProcessWithTokenW.  The Secondary Logon
\* service carries the call out, also when su has returned in the meantime.
StartHelper ==
    /\ spawn = "calling"
    /\ spawn' = "waiting" /\ hpc' = "dial"
    /\ UNCHANGED <<spawnErr, lis, conn>> /\ OnlySpawn

StartHelperFails ==
    /\ Running /\ spawn = "calling"
    /\ spawn' = "failed"
    /\ UNCHANGED <<spawnErr, lis, conn, hpc>> /\ OnlySpawn

\* WaitForSingleObject
HelperGone ==
    /\ Running /\ spawn = "waiting" /\ hpc = "ended"
    /\ spawn' = "ended"
    /\ UNCHANGED <<spawnErr, lis, conn, hpc>> /\ OnlySpawn

\* Mutant: the listener is closed before the outcome is in the channel.
SendSpawnErrMut ==
    /\ Running
    /\ \/ /\ spawn \in {"failed", "ended"}
          /\ spawn' = "sent" /\ lis' = "closed"
          /\ UNCHANGED <<spawnErr, conn, hpc>>
       \/ /\ spawn = "sent" /\ spawnErr = None /\ lis = "closed"
          /\ spawnErr' = IF hpc = "none" THEN "failed" ELSE "ended"
          /\ UNCHANGED <<spawn, lis, conn, hpc>>
    /\ OnlySpawn

SendSpawnErr ==
    /\ Running /\ spawn \in {"failed", "ended"}
    /\ spawnErr' = spawn /\ spawn' = "sent"
    /\ UNCHANGED <<lis, conn, hpc>> /\ OnlySpawn

\* lis.Close; a connection that Accept has not taken is reset.
CloseListener ==
    /\ Running /\ spawn = "sent" /\ spawnErr # None
    /\ spawn' = "done" /\ lis' = "closed"
    /\ conn' = IF conn = "queued" THEN "closed" ELSE conn
    /\ UNCHANGED <<spawnErr, hpc>> /\ OnlySpawn

-----------------------------------------------------------------------------
(* Accept, the timeout and the handshake. *)

\* The goroutine in Accept gets a connection, or the error of a closed
\* listener.
Accept ==
    /\ Running /\ ch = None
    /\ \/ conn = "queued" /\ lis = "open" /\ conn' = "open" /\ ch' = "conn"
       \/ lis = "closed" /\ ch' = "err" /\ UNCHANGED conn
    /\ UNCHANGED <<tokenVars, call, spc, result, told, spawn, spawnErr, lis,
                   typed, stdin, pressed, shown, toHelper, toServer, helperVars,
                   childVars, killed>>

\* The first case of the select; Encode sends the one-time token.
Accepted ==
    /\ Running /\ spc = "accept"
    /\ \/ /\ ch = "conn"
          /\ spc' = "handshake"
          /\ toHelper' = Append(toHelper, "token")
          /\ UNCHANGED <<result, told, spawn, spawnErr, lis, ch, typed, stdin,
                         pressed, shown, conn>>
       \/ /\ ch = "err"
          /\ GivesUp(CASE spawnErr = None -> "accept error"
                       [] spawnErr = "failed" -> "spawn error"
                       [] spawnErr = "ended" -> "did not connect back")
          /\ UNCHANGED toHelper
    /\ UNCHANGED <<tokenVars, call, toServer, helperVars, childVars, killed>>

\* Mutant: Accept is waited for without a limit.
TimeoutMut == FALSE

Timeout ==
    /\ Running /\ spc = "accept"
    /\ GivesUp("timed out")
    /\ UNCHANGED <<tokenVars, call, toHelper, toServer, helperVars, childVars,
                   killed>>

\* The helper's end of the connection is closed and nothing more will come.
HelperSilent == toServer = << >> /\ (hpc = "ended" \/ conn = "closed")

\* Decode of the helper's answer; then the goroutine of standard input starts.
Handshake ==
    /\ Running /\ spc = "handshake"
    /\ \/ /\ toServer # << >>
          /\ toServer' = Tail(toServer)
          /\ spc' = "relay" /\ stdin' = "read"
          /\ UNCHANGED <<result, told, spawn, spawnErr, lis, ch, typed, pressed,
                         shown, conn>>
       \/ HelperSilent /\ GivesUp("authentication failed") /\ UNCHANGED toServer
    /\ UNCHANGED <<tokenVars, call, toHelper, helperVars, childVars, killed>>

-----------------------------------------------------------------------------
(* su's relay. *)

OnlyInput == UNCHANGED <<tokenVars, call, spc, result, told, spawn, spawnErr,
                         lis, ch, shown, conn, toServer, helperVars, childVars,
                         killed>>

\* Encode is given no heed: su sends also when the helper has ended.
SendCtrlC ==
    /\ Running /\ spc = "relay" /\ pressed < MaxSig
    /\ pressed' = pressed + 1
    /\ toHelper' = Append(toHelper, "ctrlc")
    /\ UNCHANGED <<typed, stdin>> /\ OnlyInput

SendStdin ==
    /\ Running /\ stdin = "read" /\ typed < MaxIn
    /\ typed' = typed + 1
    /\ toHelper' = Append(toHelper, "stdin")
    /\ UNCHANGED <<stdin, pressed>> /\ OnlyInput

\* End of file is passed on, another error is not.
StdinEnds ==
    /\ Running /\ stdin = "read"
    /\ stdin' = "done"
    /\ \/ toHelper' = Append(toHelper, "close")
       \/ UNCHANGED toHelper
    /\ UNCHANGED <<typed, pressed>> /\ OnlyInput

\* The loop over the helper's messages.  A connection that ends without an
\* exit message makes su return 1.
Receive ==
    /\ Running /\ spc = "relay"
    /\ \/ /\ toServer # << >>
          /\ toServer' = Tail(toServer)
          /\ LET m == Head(toServer) IN
             CASE m.name = "stdout" ->
                    /\ shown' = shown \o m.data
                    /\ UNCHANGED <<spc, result, told, spawn, spawnErr, lis, ch,
                                   typed, stdin, pressed, conn>>
               [] m.name = "error" ->
                    UNCHANGED <<suVars, conn>>
               [] m.name = "exit" ->
                    Returns(m.data) /\ UNCHANGED <<told, shown>>
       \/ HelperSilent /\ GivesUp("nothing") /\ UNCHANGED toServer
    /\ UNCHANGED <<tokenVars, call, toHelper, helperVars, childVars, killed>>

-----------------------------------------------------------------------------
(* The helper. *)

OnlyHelper == UNCHANGED <<tokenVars, call, suVars, killed>>

\* A message to su is lost once su has gone.
ToServer(m) == toServer' = IF Running THEN Append(toServer, m) ELSE toServer

Dial ==
    /\ hpc = "dial"
    /\ lis = "open"
    /\ conn' = "queued" /\ hpc' = "token"
    /\ UNCHANGED <<toHelper, toServer, reader, copier, tail, copied, childVars>>
    /\ OnlyHelper

\* Mutant: the helper tries again for ever.
DialFailsMut == FALSE

\* The listener is closed, or the connection fails for another reason.
DialFails ==
    /\ hpc = "dial"
    /\ hpc' = "ended"
    /\ UNCHANGED <<connVars, reader, copier, tail, copied, childVars>>
    /\ OnlyHelper

\* Decode of the token and the answer to it.
Authenticate ==
    /\ hpc = "token"
    /\ \/ /\ toHelper # << >>
          /\ toHelper' = Tail(toHelper)
          /\ ToServer(Message("true", 0))
          /\ hpc' = "prepare"
       \/ /\ toHelper = << >> /\ conn = "closed"
          /\ hpc' = "ended"
          /\ UNCHANGED <<toHelper, toServer>>
    /\ UNCHANGED <<conn, reader, copier, tail, copied, childVars>>
    /\ OnlyHelper

\* cmd.StdinPipe; then the goroutine that reads messages starts.
Prepare ==
    /\ hpc = "prepare"
    /\ \/ hpc' = "run" /\ reader' = "read" /\ UNCHANGED toServer
       \/ /\ ToServer(Message("error", 0))
          /\ hpc' = "ended" /\ UNCHANGED reader
    /\ UNCHANGED <<conn, toHelper, copier, tail, copied, childVars>>
    /\ OnlyHelper

\* cmd.Run starts the command, or fails and has the code 1.
Run ==
    /\ hpc = "run"
    /\ \/ /\ child' = "running" /\ copier' = "copy" /\ hpc' = "wait"
          /\ UNCHANGED <<code, toServer>>
       \/ /\ child' = "ended" /\ code' = 1
          /\ ToServer(Message("error", 0))
          /\ hpc' = "exit" /\ UNCHANGED copier
    /\ UNCHANGED <<conn, toHelper, reader, tail, copied, written>>
    /\ OnlyHelper

\* The copying goroutine reads what there is and writes it to msgWriter, whose
\* Encode fails sooner or later when su has gone.
Copy ==
    /\ HelperLives /\ copier = "copy" /\ copied < written
    /\ LET w == MsgWrite(text.command, tail, SubSeq(text.bytes, copied + 1, written))
       IN  /\ tail' = w.tail
           /\ IF w.data = << >> THEN UNCHANGED toServer
              ELSE ToServer(Message("stdout", w.data))
    /\ copied' = written
    /\ copier' \in IF Running THEN {"copy"} ELSE {"copy", "failed"}
    /\ UNCHANGED <<conn, toHelper, hpc, reader, childVars>>
    /\ OnlyHelper

\* Mutant: Run does not wait for the copying goroutine.
WaitMut ==
    /\ hpc = "wait" /\ child = "ended"
    /\ hpc' = "exit"
    /\ UNCHANGED <<connVars, reader, copier, tail, copied, childVars>>
    /\ OnlyHelper

\* Run returns when the command has ended and its output is copied.
Wait ==
    /\ hpc = "wait" /\ child = "ended"
    /\ copied = written \/ copier = "failed"
    /\ hpc' = "exit"
    /\ UNCHANGED <<connVars, reader, copier, tail, copied, childVars>>
    /\ OnlyHelper

\* Mutant: a command that fails is not reported.
ExitMut ==
    /\ hpc = "exit"
    /\ IF code = 0 THEN ToServer(Message("exit", code)) ELSE UNCHANGED toServer
    /\ hpc' = "ended"
    /\ UNCHANGED <<conn, toHelper, reader, copier, tail, copied, childVars>>
    /\ OnlyHelper

\* The exit message, and the process ends.
Exit ==
    /\ hpc = "exit"
    /\ ToServer(Message("exit", code))
    /\ hpc' = "ended"
    /\ UNCHANGED <<conn, toHelper, reader, copier, tail, copied, childVars>>
    /\ OnlyHelper

\* The goroutine that reads messages.  Writing a piece of input blocks, and with
\* it the reading, if the command's input is full and it does not read it.
Read ==
    /\ HelperLives /\ reader = "read"
    /\ \/ /\ toHelper # << >>
          /\ toHelper' = Tail(toHelper)
          /\ reader' \in IF Head(toHelper) = "stdin" THEN {"read", "blocked"}
                         ELSE {"done"}
          /\ IF Head(toHelper) = "ctrlc" /\ child = "running"
             THEN child' = "ended" /\ code' = 1
             ELSE UNCHANGED <<child, code>>
       \/ /\ conn = "closed"
          /\ reader' = "done"
          /\ UNCHANGED <<toHelper, child, code>>
    /\ UNCHANGED <<conn, toServer, hpc, copier, tail, copied, written>>
    /\ OnlyHelper

-----------------------------------------------------------------------------
(* The command, the connection and the user. *)

CommandWrites ==
    /\ child = "running"
    /\ \E n \in text.cuts : n > written /\ written' = n
    /\ UNCHANGED <<tokenVars, call, suVars, connVars, helperVars, child, code,
                   killed>>

CommandEnds ==
    /\ child = "running"
    /\ child' = "ended" /\ code' \in Codes
    /\ UNCHANGED <<tokenVars, call, suVars, connVars, helperVars, written,
                   killed>>

\* A socket closed with messages unread in it, or sent messages after it was
\* closed, resets the connection, and what it had sent before may be lost.
Reset ==
    /\ Running /\ hpc = "ended" /\ toHelper # << >> /\ toServer # << >>
    /\ toServer' = << >>
    /\ UNCHANGED <<tokenVars, call, suVars, conn, toHelper, helperVars,
                   childVars, killed>>

KillSu ==
    /\ "su" \in Env /\ Running /\ killed = {}
    /\ GivesUp("nothing")
    /\ killed' = killed \cup {"su"}
    /\ UNCHANGED <<tokenVars, call, toHelper, toServer, helperVars, childVars>>

KillHelper ==
    /\ "helper" \in Env /\ HelperLives /\ killed = {}
    /\ hpc' = "ended"
    /\ killed' = killed \cup {"helper"}
    /\ UNCHANGED <<tokenVars, call, suVars, connVars, reader, copier, tail,
                   copied, childVars>>

Server == Acquire \/ Listen \/ Accepted \/ Handshake \/ Receive
Spawner == HelperGone \/ SendSpawnErr \/ CloseListener
Helper == Dial \/ DialFails \/ Authenticate \/ Prepare \/ Run \/ Wait \/ Exit

Next ==
    \/ Server \/ Password \/ Timeout \/ Service
    \/ Spawner \/ StartHelper \/ StartHelperFails \/ Accept
    \/ SendCtrlC \/ SendStdin \/ StdinEnds
    \/ Helper \/ Copy \/ Read
    \/ CommandWrites \/ CommandEnds
    \/ Reset \/ KillSu \/ KillHelper

Spec == Init /\ [][Next]_vars

\* Goroutines that can run do, and the timer fires.  The user, the command and
\* Windows starting a process may take for ever.
PollTimeout == Running /\ spc = "token" /\ PollEnds /\ UNCHANGED sessionVars

\* The part of Copy that the others do not do: with it, WF_copied is weak
\* fairness of Copy.
CopyMoves ==
    /\ HelperLives /\ copier = "copy" /\ copied < written
    /\ copied' = written

Fairness ==
    /\ WF_vars(Server) /\ WF_vars(Timeout) /\ WF_vars(PollTimeout)
    /\ WF_vars(Spawner) /\ WF_vars(Accept)
    /\ WF_vars(Helper) /\ WF_copied(CopyMoves)

LiveSpec == Spec /\ Fairness

-----------------------------------------------------------------------------
(* Properties. *)

\* The types of the session: su has returned exactly when there is a result, and
\* msgWriter never keeps more back than the beginning of one character.
TypeOK ==
    /\ TokenTypeOK
    /\ call \in Calls
    /\ spc \in {"token", "password", "listen", "accept", "handshake", "relay",
                "returned"}
    /\ result \in Codes \cup {None, Lost}
    /\ result = None <=> spc # "returned"
    /\ spawn \in {"none", "calling", "waiting", "failed", "ended", "sent", "done"}
    /\ spawnErr \in {None, "failed", "ended"}
    /\ lis \in {"none", "open", "closed"} /\ ch \in {None, "conn", "err"}
    /\ typed \in 0..MaxIn /\ pressed \in 0..MaxSig
    /\ stdin \in {"none", "read", "done"}
    /\ conn \in {"none", "queued", "open", "closed"}
    /\ toHelper \in Seq({"token", "stdin", "close", "ctrlc"})
    /\ \A i \in DOMAIN toServer :
          toServer[i].name \in {"true", "stdout", "error", "exit"}
    /\ hpc \in {"none", "dial", "token", "prepare", "run", "wait", "exit", "ended"}
    /\ reader \in {"none", "read", "blocked", "done"}
    /\ copier \in {"none", "copy", "failed"}
    /\ Len(tail) <= 3
    /\ copied \in 0..written /\ written \in 0..Len(text.bytes)
    /\ child \in {"none", "running", "ended"}
    /\ code \in Codes \cup {None}
    /\ killed \subseteq Env

\* When Accept fails because the goroutine that started the helper has closed
\* the listener, the reason is already in spawnErr, and su can print it: the
\* default case "accept error" (main.go:422, token_windows.go:351) is not taken.
SpawnErrorKnown == told # "accept error"

\* "exit codes are preserved" (main.go:235): if the command has ended and su
\* returns without its code, somebody was killed, or input that the helper did
\* not read any more has reset the connection (main.go:462, 477, 594).
LostMeansFault ==
    result = Lost /\ code # None => killed # {} \/ toHelper # << >>

\* The bytes of a UTF-8 character that begins with b.
Announced(b) == CASE b < 194 -> 1
                  [] b \in 194..223 -> 2
                  [] b \in 224..239 -> 3
                  [] b > 239 -> 4

\* How many of the first n bytes of the text begin, at its end, a UTF-8 character
\* that is not finished.  OEM text, too, may end as if it did.
Unfinished(n) ==
    Max({0} \cup {h \in 1..Min({3, n}) : h < Announced(text.bytes[n - h + 1])})

Ordinals(n) == [i \in 1..n |-> i]

\* "stdin, stdout and stderr are forwarded transparently; exit codes are
\* preserved" (main.go:234), as far as it holds: the session implements
\* RemoteCommand.  However the bytes fall into writes, each of them reaches the
\* caller once and in order, converted or not; when su returns the exit code only
\* the first bytes of a character that the output does not finish may be missing.
Remote == INSTANCE RemoteCommand WITH
    Streams <- {"stdout"},
    MaxOut  <- [s \in {"stdout"} |-> Max({Len(Scenario[c].text.bytes) : c \in Calls})],
    written <- [s \in {"stdout"} |-> written],
    due     <- [s \in {"stdout"} |->
                  IF text.command THEN written - Unfinished(written) ELSE written],
    status  <- code,
    printed <- [s \in {"stdout"} |->
                  IF IsPrefix(Source(shown), text.bytes)
                  THEN Ordinals(Len(Source(shown)))
                  ELSE <<0>>],
    result  <- result

ForwardsCommand == Remote!Spec

\* A character of two bytes that could be one of code page 936: most accented
\* letters and all Greek and Cyrillic ones up to U+07FF end in such a byte.
Ambiguous == \E i \in 1..Len(text.bytes) - 1 :
                text.bytes[i] \in 194..223 /\ text.bytes[i + 1] \in 161..191

\* OEM text written in whole lines, none of which is UTF-8 as well or ends, before
\* the newline, in what begins a UTF-8 character.
PlainLines ==
    \A b \in text.cuts :
        LET a == Max({0} \cup {c \in text.cuts : c < b})
        IN  /\ text.bytes[b] = 10 /\ Unfinished(b) = 0
            /\ ~ValidUTF8(SubSeq(text.bytes, a + 1, b))

\* Conversion "handles Windows native commands (icacls, net, dir, ...) ... while
\* leaving genuine UTF-8 output untouched" (main.go:65), as far as it holds: UTF-8
\* text without an ambiguous character stays as it is wherever a write cuts it,
\* and OEM text in plain lines is converted, however many of them a write takes.
\* The output of bash stays as it is whatever it holds.
ShownRight ==
    /\ ~text.oem /\ ~(text.command /\ Ambiguous) =>
           IsPrefix(shown, Unchanged(text.bytes))
    /\ text.oem /\ PlainLines => IsPrefix(shown, text.chars)

\* "leaving genuine UTF-8 output untouched" (main.go:66), as it is written.
UTF8Untouched == ~text.oem => IsPrefix(shown, Unchanged(text.bytes))

\* su returns, however slow Windows is in starting the helper and whatever
\* becomes of it, unless it waits for the password or for a command that does
\* not end (main.go:411-431).
SuReturns ==
    \/ <>[](spc = "password")
    \/ <>[](child = "running")
    \/ <>(result # None)

\* The helper does not outlive su for ever, also when it was started after su
\* has given up waiting, unless its command does not end.
HelperEnds == []<>(Running \/ hpc \in {"none", "ended"} \/ child = "running")
=============================================================================

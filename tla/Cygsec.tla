------------------------------- MODULE Cygsec -------------------------------
(***************************************************************************)
(* The cygsec daemon of cmd/sudo/main.go: how sudo processes find it, how   *)
(* they start it, how it authenticates and counts them, and how it stops.   *)
(*                                                                         *)
(* A client is one sudo process.  It spawns at most one daemon, with a      *)
(* fresh token, so daemon d and its token are both named by the client d    *)
(* that spawned it.  The processes share one file (the token lock file),    *)
(* one pipe name, and the connections <<c, n>>, the n-th that client c      *)
(* opened.  What a command does with its streams is PipedSession's matter.  *)
(***************************************************************************)
EXTENDS Integers, FiniteSets

CONSTANTS
    Clients,    \* the sudo processes
    MaxConns,   \* bound on the connections one sudo process opens
    Modes,      \* what they ask for: a subset of {"attached", "piped", "kill"}
    Env,        \* the faults and outside events a run admits, see AllEnv
    NoLock,     \* the lock file does not exist
    Empty,      \* it exists and is empty
    Stale,      \* it holds the token of a daemon of an earlier session
    Free,       \* a pipe instance nobody has connected to
    Invalid,    \* windows.InvalidHandle
    None

AllModes == {"attached", "piped", "kill"}
AllEnv == {"denied", "late", "abort", "crash", "lockfail", "noinstance",
           "noattach", "expire"}
Conns == Clients \X (1..MaxConns)
Tokens == Clients \cup {NoLock, Empty, Stale}

ASSUME ConstAssumption ==
    /\ IsFiniteSet(Clients)
    /\ MaxConns \in Nat \ {0}
    /\ Modes \subseteq AllModes
    /\ Env \subseteq AllEnv
    /\ {NoLock, Empty, Stale, Free, Invalid, None} \cap (Clients \cup Conns) = {}
    /\ NoLock \notin {Empty, Stale} /\ Empty # Stale /\ Free # Invalid

VARIABLES
    lock,       \* content of the lock file
    pc, op,     \* client: where it is, what it was asked to do
    tok,        \* client: the token it read, or the one it spawned with
    dials,      \* client: connections opened so far
    peer,       \* connection: the daemon it reached
    link,       \* connection: where the daemon's side of it is
    up, down,   \* connection: the unread message in each direction
    hung,       \* connection: the client has closed its end
    dpc,        \* daemon: where its main goroutine is
    inst,       \* daemon: lis.curr, the pipe instance waiting for a client
    acc,        \* daemon: the connection Accept returned, not yet counted
    active,     \* daemon: activeConns
    recent,     \* daemon: lastDoneNs is less than 24 hours old
    dog,        \* daemon: where the idle watchdog is
    timer,      \* daemon: sudo -k started the 50 ms timer
    stopping,   \* daemon: stopFn has removed the lock file, os.Exit is next
    console     \* daemon: the connection holding consoleMu

clientVars == <<pc, op, tok, dials>>
connVars   == <<peer, link, up, down, hung>>
daemonVars == <<dpc, inst, acc, active, recent, dog, timer, stopping, console>>
vars       == <<lock, clientVars, connVars, daemonVars>>

Owning == {"owner", "writing", "serving"}
Finished == {"done", "failed"}
Handling == {"auth", "request", "lock", "running", "drain", "closing"}
Admitted == {"request", "lock", "running", "drain"}
HungUpOn == {"stamp", "closed", "gone"}     \* the client reads EOF

Owns(d) == dpc[d] \in Owning
\* Mutant: listenPipe without FILE_FLAG_FIRST_PIPE_INSTANCE.
NameFreeMut == TRUE

NameFree == ~ \E d \in Clients : Owns(d)
Current(c) == <<c, dials[c]>>
Waiting(c) == dpc[c] # "unborn"             \* c is in waitAndConnectDaemon

Init ==
    /\ lock \in {NoLock, Stale}
    /\ pc = [c \in Clients |-> "idle"]
    /\ op = [c \in Clients |-> "none"]
    /\ tok = [c \in Clients |-> NoLock]
    /\ dials = [c \in Clients |-> 0]
    /\ peer = [k \in Conns |-> None]
    /\ link = [k \in Conns |-> "none"]
    /\ up = [k \in Conns |-> "nothing"]
    /\ down = [k \in Conns |-> "nothing"]
    /\ hung = [k \in Conns |-> FALSE]
    /\ dpc = [d \in Clients |-> "unborn"]
    /\ inst = [d \in Clients |-> Invalid]
    /\ acc = [d \in Clients |-> None]
    /\ active = [d \in Clients |-> 0]
    /\ recent = [d \in Clients |-> FALSE]
    /\ dog = [d \in Clients |-> "sleep"]
    /\ timer = [d \in Clients |-> FALSE]
    /\ stopping = [d \in Clients |-> FALSE]
    /\ console = [d \in Clients |-> None]

-----------------------------------------------------------------------------
(* The client: tryConnectDaemon, spawnDaemon, waitAndConnectDaemon and the   *)
(* main lines of runServer and killDaemon.                                   *)

Goto(c, l) == pc' = [pc EXCEPT ![c] = l]

\* The process exits: every handle it still has is closed.
HangUp(c) ==
    hung' = [k \in Conns |-> hung[k] \/ (k[1] = c /\ k[2] <= dials[c])]

\* tryConnectDaemon failed: sudo -k gives up, sudo prompts for a daemon.
NoDaemon(m) == IF m = "kill" THEN "failed" ELSE "spawn"

ReadLock(c) ==
    \E m \in Modes :
        /\ pc[c] = "idle"
        /\ op' = [op EXCEPT ![c] = m]
        /\ \/ /\ lock = NoLock
              /\ Goto(c, NoDaemon(m))
              /\ UNCHANGED tok
           \/ /\ lock # NoLock
              /\ tok' = [tok EXCEPT ![c] = lock]
              /\ Goto(c, "dial")
        /\ UNCHANGED <<lock, dials, connVars, daemonVars>>

\* CreateFile succeeds on the pending instance of whichever daemon has one.
Dial(c) ==
    \E d \in Clients :
        LET k == <<c, dials[c] + 1>> IN
        /\ pc[c] = "dial"
        /\ inst[d] = Free
        /\ inst' = [inst EXCEPT ![d] = k]
        /\ dials' = [dials EXCEPT ![c] = @ + 1]
        /\ peer' = [peer EXCEPT ![k] = d]
        /\ link' = [link EXCEPT ![k] = "pending"]
        /\ Goto(c, "send")
        /\ UNCHANGED <<lock, op, tok, up, down, hung, dpc, acc, active, recent,
                       dog, timer, stopping, console>>

\* Two seconds have passed and CreateFile failed again.
DialTimeout(c) ==
    /\ pc[c] = "dial"
    /\ \A d \in Clients : inst[d] # Free
    /\ Goto(c, IF Waiting(c) THEN "poll" ELSE "dropLock")
    /\ UNCHANGED <<lock, op, tok, dials, connVars, daemonVars>>

SendToken(c) ==
    /\ pc[c] = "send"
    /\ \/ /\ link[Current(c)] # "gone"
          /\ up' = [up EXCEPT ![Current(c)] = "token"]
          /\ Goto(c, "auth")
          /\ UNCHANGED hung
       \/ /\ link[Current(c)] = "gone"       \* Encode fails: the lock stays
          /\ HangUp(c)
          /\ Goto(c, IF Waiting(c) THEN "poll" ELSE NoDaemon(op[c]))
          /\ UNCHANGED up
    /\ UNCHANGED <<lock, op, tok, dials, peer, link, down, daemonVars>>

Authenticated(c) ==
    /\ pc[c] = "auth"
    /\ down[Current(c)] = "yes"
    /\ down' = [down EXCEPT ![Current(c)] = "nothing"]
    /\ Goto(c, "session")
    /\ UNCHANGED <<lock, op, tok, dials, peer, link, up, hung, daemonVars>>

\* The token was refused, or the connection broke before an answer.
Refused(c) ==
    LET k == Current(c) IN
    /\ pc[c] = "auth"
    /\ \/ down[k] = "no"
       \/ down[k] = "nothing" /\ link[k] \in HungUpOn
    /\ HangUp(c)
    /\ Goto(c, IF Waiting(c) THEN "poll" ELSE "dropLock")
    /\ UNCHANGED <<lock, op, tok, dials, peer, link, up, down, daemonVars>>

\* os.Remove of the lock file, whatever it holds by now.  Windows refuses it while
\* another process has the file open for os.ReadFile or os.WriteFile, which do not
\* share it for deletion; the error is ignored.
RemoveLock ==
    \/ lock' = NoLock /\ \A d \in Clients : dpc[d] # "writing"
    \/ UNCHANGED lock

DropLock(c) ==
    /\ pc[c] = "dropLock"
    /\ RemoveLock
    /\ Goto(c, NoDaemon(op[c]))
    /\ UNCHANGED <<op, tok, dials, connVars, daemonVars>>

\* The UAC prompt was approved: the daemon process exists.
Spawn(c) ==
    /\ pc[c] = "spawn"
    /\ dpc' = [dpc EXCEPT ![c] = "starting"]
    /\ tok' = [tok EXCEPT ![c] = c]
    /\ Goto(c, "poll")
    /\ UNCHANGED <<lock, op, dials, connVars, inst, acc, active, recent, dog,
                   timer, stopping, console>>

\* The prompt was refused, or 60 seconds passed; in the second case the
\* elevated process may have been created all the same.
SpawnFails(c) ==
    /\ pc[c] = "spawn"
    /\ \/ "denied" \in Env /\ UNCHANGED dpc
       \/ "late" \in Env /\ dpc' = [dpc EXCEPT ![c] = "starting"]
    /\ Goto(c, "failed")
    /\ UNCHANGED <<lock, op, tok, dials, connVars, inst, acc, active, recent,
                   dog, timer, stopping, console>>

\* MaxConns bounds the polls that go on to dial.
Poll(c) ==
    /\ pc[c] = "poll"
    /\ lock = tok[c]
    /\ dials[c] < MaxConns
    /\ Goto(c, "dial")
    /\ UNCHANGED <<lock, op, tok, dials, connVars, daemonVars>>

PollTimeout(c) ==
    /\ pc[c] = "poll"
    /\ Goto(c, "failed")
    /\ UNCHANGED <<lock, op, tok, dials, connVars, daemonVars>>

\* Encode of the request; killDaemon ignores its error, runServer does not.
SendRequest(c) ==
    LET k == Current(c) IN
    /\ pc[c] = "session"
    /\ \/ /\ link[k] # "gone"
          /\ up' = [up EXCEPT ![k] = "request"]
          /\ Goto(c, "await")
          /\ UNCHANGED hung
       \/ /\ link[k] = "gone"
          /\ HangUp(c)
          /\ Goto(c, IF op[c] = "kill" THEN "done" ELSE "failed")
          /\ UNCHANGED up
    /\ UNCHANGED <<lock, op, tok, dials, peer, link, down, daemonVars>>

\* The exit message ends the call; so does EOF, which only killDaemon ignores.
Return(c) ==
    LET k == Current(c) IN
    /\ pc[c] = "await"
    /\ \/ /\ down[k] = "exit"
          /\ Goto(c, "done")
       \/ /\ down[k] = "nothing"
          /\ link[k] \in HungUpOn
          /\ Goto(c, IF op[c] = "kill" THEN "done" ELSE "failed")
    /\ HangUp(c)
    /\ UNCHANGED <<lock, op, tok, dials, peer, link, up, down, daemonVars>>

\* The user interrupts the sudo process, or it is killed.
Abort(c) ==
    /\ "abort" \in Env
    /\ pc[c] \notin Finished \cup {"idle"}
    /\ HangUp(c)
    /\ Goto(c, "failed")
    /\ UNCHANGED <<lock, op, tok, dials, peer, link, up, down, daemonVars>>

-----------------------------------------------------------------------------
(* The daemon's main goroutine: runDaemon and pipeListener.                  *)

\* The process ends: its pipe handles close and all its goroutines vanish.
Exit(d) ==
    /\ dpc' = [dpc EXCEPT ![d] = "dead"]
    /\ inst' = [inst EXCEPT ![d] = Invalid]
    /\ acc' = [acc EXCEPT ![d] = None]
    /\ active' = [active EXCEPT ![d] = 0]
    /\ recent' = [recent EXCEPT ![d] = FALSE]
    /\ dog' = [dog EXCEPT ![d] = "sleep"]
    /\ timer' = [timer EXCEPT ![d] = FALSE]
    /\ stopping' = [stopping EXCEPT ![d] = FALSE]
    /\ console' = [console EXCEPT ![d] = None]
    /\ link' = [k \in Conns |-> IF peer[k] = d THEN "gone" ELSE link[k]]
    /\ UNCHANGED <<lock, clientVars, peer, up, down, hung>>

\* listenPipe: FILE_FLAG_FIRST_PIPE_INSTANCE fails while the name is in use.
Listen(d) ==
    /\ dpc[d] = "starting"
    /\ \/ /\ NameFree
          /\ dpc' = [dpc EXCEPT ![d] = "owner"]
          /\ inst' = [inst EXCEPT ![d] = Free]
       \/ /\ ~ NameFree
          /\ dpc' = [dpc EXCEPT ![d] = "dead"]
          /\ UNCHANGED inst
    /\ UNCHANGED <<lock, clientVars, connVars, acc, active, recent, dog, timer,
                   stopping, console>>

\* os.WriteFile is two steps: open with O_TRUNC, then write.
TruncateLock(d) ==
    /\ dpc[d] = "owner"
    /\ lock' = Empty
    /\ dpc' = [dpc EXCEPT ![d] = "writing"]
    /\ UNCHANGED <<clientVars, connVars, inst, acc, active, recent, dog, timer,
                   stopping, console>>

\* Mutant: an error of the write is ignored.
WriteLockMut(d) ==
    /\ dpc[d] = "writing"
    /\ dpc' = [dpc EXCEPT ![d] = "serving"]
    /\ recent' = [recent EXCEPT ![d] = TRUE]
    /\ UNCHANGED <<lock, clientVars, connVars, inst, acc, active, dog, timer,
                   stopping, console>>

WriteLock(d) ==
    /\ dpc[d] = "writing"
    /\ lock' = d
    /\ dpc' = [dpc EXCEPT ![d] = "serving"]
    /\ recent' = [recent EXCEPT ![d] = TRUE]
    /\ UNCHANGED <<clientVars, connVars, inst, acc, active, dog, timer,
                   stopping, console>>

LockFails(d) ==
    /\ "lockfail" \in Env
    /\ dpc[d] \in {"owner", "writing"}
    /\ Exit(d)

\* A client is connected to the pending instance; the next one is created
\* before this one is handed over, and an error of that is ignored.
Accept(d) ==
    /\ dpc[d] = "serving"
    /\ acc[d] = None
    /\ inst[d] \in Conns
    /\ acc' = [acc EXCEPT ![d] = inst[d]]
    /\ \/ inst' = [inst EXCEPT ![d] = Free]
       \/ "noinstance" \in Env /\ inst' = [inst EXCEPT ![d] = Invalid]
    /\ UNCHANGED <<lock, clientVars, connVars, dpc, active, recent, dog, timer,
                   stopping, console>>

\* Accept fails: there is no instance, or its client left before
\* ConnectNamedPipe was called (ERROR_NO_DATA).  runDaemon returns, and the
\* lock file stays.
AcceptFails(d) ==
    /\ dpc[d] = "serving"
    /\ acc[d] = None
    /\ \/ inst[d] = Invalid
       \/ inst[d] \in Conns /\ hung[inst[d]]
    /\ Exit(d)

\* activeConns++ and the connection's goroutine starts.
StartHandler(d) ==
    /\ acc[d] # None
    /\ active' = [active EXCEPT ![d] = @ + 1]
    /\ link' = [link EXCEPT ![acc[d]] = "auth"]
    /\ acc' = [acc EXCEPT ![d] = None]
    /\ UNCHANGED <<lock, clientVars, peer, up, down, hung, dpc, inst, recent,
                   dog, timer, stopping, console>>

-----------------------------------------------------------------------------
(* One connection's goroutine: handleDaemonConn, execAttached, execPiped.    *)

\* Mutant: the comparison of the tokens is missing.
TokenMatchesMut(k) == TRUE

TokenMatches(k) == tok[k[1]] = peer[k]

ReadToken(k) ==
    /\ link[k] = "auth"
    /\ up[k] = "token"
    /\ up' = [up EXCEPT ![k] = "nothing"]
    /\ \/ /\ TokenMatches(k)
          /\ down' = [down EXCEPT ![k] = "yes"]
          /\ link' = [link EXCEPT ![k] = "request"]
       \/ /\ ~ TokenMatches(k)
          /\ down' = [down EXCEPT ![k] = "no"]
          /\ link' = [link EXCEPT ![k] = "closing"]
    /\ UNCHANGED <<lock, clientVars, peer, hung, daemonVars>>

\* Mutant: the early return on EOF skips the deferred accounting.
ReadEOFMut(k) ==
    /\ link[k] \in {"auth", "request"}
    /\ up[k] = "nothing"
    /\ hung[k]
    /\ link' = [link EXCEPT ![k] = "closed"]
    /\ UNCHANGED <<lock, clientVars, peer, up, down, hung, daemonVars>>

\* Decode of the token or of the request meets EOF.
ReadEOF(k) ==
    /\ link[k] \in {"auth", "request"}
    /\ up[k] = "nothing"
    /\ hung[k]
    /\ link' = [link EXCEPT ![k] = "closing"]
    /\ UNCHANGED <<lock, clientVars, peer, up, down, hung, daemonVars>>

\* Mutant: the goroutine that stops the daemon is not started.
StopSoonMut(k) == UNCHANGED timer

StopSoon(k) == timer' = [timer EXCEPT ![peer[k]] = TRUE]

ReadRequest(k) ==
    /\ link[k] = "request"
    /\ up[k] = "request"
    /\ up' = [up EXCEPT ![k] = "nothing"]
    /\ \/ /\ op[k[1]] = "kill"
          /\ down' = [down EXCEPT ![k] = "exit"]
          /\ StopSoon(k)
          /\ link' = [link EXCEPT ![k] = "closing"]
       \/ /\ op[k[1]] = "attached"
          /\ link' = [link EXCEPT ![k] = "lock"]
          /\ UNCHANGED <<down, timer>>
       \/ /\ op[k[1]] = "piped"
          /\ link' = [link EXCEPT ![k] = "running"]
          /\ UNCHANGED <<down, timer>>
    /\ UNCHANGED <<lock, clientVars, peer, hung, dpc, inst, acc, active, recent,
                   dog, stopping, console>>

\* Mutant: execAttached without consoleMu.
ConsoleFreeMut(k) == TRUE

ConsoleFree(k) == console[peer[k]] = None

\* consoleMu.Lock, then AttachConsole, which fails when the client has gone.
AttachConsole(k) ==
    /\ link[k] = "lock"
    /\ ConsoleFree(k)
    /\ \/ /\ ~ hung[k]
          /\ console' = [console EXCEPT ![peer[k]] = k]
          /\ link' = [link EXCEPT ![k] = "running"]
          /\ UNCHANGED down
       \/ /\ hung[k] \/ "noattach" \in Env
          /\ down' = [down EXCEPT ![k] = "exit"]
          /\ link' = [link EXCEPT ![k] = "closing"]
          /\ UNCHANGED console
    /\ UNCHANGED <<lock, clientVars, peer, up, hung, dpc, inst, acc, active,
                   recent, dog, timer, stopping>>

\* Mutant: no deferred Unlock.
UnlockMut(k) == UNCHANGED console

\* The deferred consoleMu.Unlock.
Unlock(k) == console' = [d \in Clients |-> IF console[d] = k THEN None
                                           ELSE console[d]]

\* cmd.Run returns and the exit message is sent; the piped path then drains.
CommandEnds(k) ==
    /\ link[k] = "running"
    /\ down' = [down EXCEPT ![k] = "exit"]
    /\ Unlock(k)
    /\ link' = [link EXCEPT ![k] = IF op[k[1]] = "piped" THEN "drain"
                                   ELSE "closing"]
    /\ UNCHANGED <<lock, clientVars, peer, up, hung, dpc, inst, acc, active,
                   recent, dog, timer, stopping>>

\* The stdin goroutine and io.Copy both end when the client closes.
Drained(k) ==
    /\ link[k] = "drain"
    /\ hung[k]
    /\ link' = [link EXCEPT ![k] = "closing"]
    /\ UNCHANGED <<lock, clientVars, peer, up, down, hung, daemonVars>>

\* Mutant: the refusal of a token decrements activeConns a second time.
DecrementTwiceMut(k) ==
    active' = [active EXCEPT ![peer[k]] = @ - IF TokenMatches(k) THEN 1 ELSE 2]

\* Mutant: the refusal of a token never decrements activeConns.
DecrementMut(k) ==
    active' = [active EXCEPT ![peer[k]] = @ - IF TokenMatches(k) THEN 1 ELSE 0]

Decrement(k) == active' = [active EXCEPT ![peer[k]] = @ - 1]

\* The deferred conn.Close and activeConns--, then the store of lastDoneNs.
Uncount(k) ==
    /\ link[k] = "closing"
    /\ link' = [link EXCEPT ![k] = "stamp"]
    /\ Decrement(k)
    /\ UNCHANGED <<lock, clientVars, peer, up, down, hung, dpc, inst, acc,
                   recent, dog, timer, stopping, console>>

Stamp(k) ==
    /\ link[k] = "stamp"
    /\ link' = [link EXCEPT ![k] = "closed"]
    /\ recent' = [recent EXCEPT ![peer[k]] = TRUE]
    /\ UNCHANGED <<lock, clientVars, peer, up, down, hung, dpc, inst, acc,
                   active, dog, timer, stopping, console>>

-----------------------------------------------------------------------------
(* The idle watchdog, the kill timer, stopFn, and what happens to a daemon.  *)

Watch(d, from, to, cond) ==
    /\ dpc[d] = "serving"
    /\ dog[d] = from
    /\ cond
    /\ dog' = [dog EXCEPT ![d] = to]
    /\ UNCHANGED <<lock, clientVars, connVars, dpc, inst, acc, active, recent,
                   timer, stopping, console>>

\* The two atomic loads of the watchdog's condition, one after the other.
SeesIdle(d) == Watch(d, "sleep", "idle", active[d] = 0)
SeesRecent(d) == Watch(d, "idle", "sleep", recent[d])
Fires(d) == Watch(d, "idle", "fire", ~ recent[d])

\* stopOnce.Do: remove the lock file, then exit.
StopFn(d) ==
    /\ timer[d] \/ dog[d] = "fire"
    /\ ~ stopping[d]
    /\ RemoveLock
    /\ stopping' = [stopping EXCEPT ![d] = TRUE]
    /\ UNCHANGED <<clientVars, connVars, dpc, inst, acc, active, recent, dog,
                   timer, console>>

StopExit(d) == stopping[d] /\ Exit(d)

\* Twenty-four hours pass with no store to lastDoneNs.
Expire(d) ==
    /\ "expire" \in Env
    /\ dpc[d] = "serving"
    /\ recent[d]
    /\ recent' = [recent EXCEPT ![d] = FALSE]
    /\ UNCHANGED <<lock, clientVars, connVars, dpc, inst, acc, active, dog,
                   timer, stopping, console>>

\* The daemon is killed, or the user logs off.
Crash(d) ==
    /\ "crash" \in Env
    /\ dpc[d] \in Owning \cup {"starting"}
    /\ Exit(d)

-----------------------------------------------------------------------------

ClientStep(c) ==
    \/ Dial(c) \/ DialTimeout(c) \/ SendToken(c) \/ Authenticated(c)
    \/ Refused(c) \/ DropLock(c) \/ Spawn(c) \/ SpawnFails(c) \/ Poll(c)
    \/ PollTimeout(c) \/ SendRequest(c) \/ Return(c)

DaemonStep(d) ==
    \/ Listen(d) \/ TruncateLock(d) \/ WriteLock(d) \/ Accept(d)
    \/ AcceptFails(d) \/ StartHandler(d)

WatchdogStep(d) == SeesIdle(d) \/ SeesRecent(d) \/ Fires(d)

HandlerStep(k) ==
    \/ ReadToken(k) \/ ReadEOF(k) \/ ReadRequest(k) \/ AttachConsole(k)
    \/ CommandEnds(k) \/ Drained(k) \/ Uncount(k) \/ Stamp(k)

Next ==
    \/ \E c \in Clients : ReadLock(c) \/ ClientStep(c) \/ Abort(c)
    \/ \E d \in Clients : DaemonStep(d) \/ WatchdogStep(d)
    \/ \E d \in Clients : StopFn(d) \/ StopExit(d)
    \/ \E d \in Clients : LockFails(d) \/ Expire(d) \/ Crash(d)
    \/ \E k \in Conns : HandlerStep(k)

Spec == Init /\ [][Next]_vars

\* Every goroutine and every process that is not waiting on the user runs on;
\* commands end, and the 15 seconds of waitAndConnectDaemon are over at some
\* poll.  Nothing makes the user start or abort a call, or stay away for a day.
Fairness ==
    /\ \A c \in Clients : WF_vars(ClientStep(c)) /\ SF_vars(PollTimeout(c))
    /\ \A d \in Clients : /\ WF_vars(DaemonStep(d))
                          /\ WF_vars(WatchdogStep(d))
                          /\ WF_vars(StopFn(d) \/ StopExit(d))
    /\ \A k \in Conns : WF_vars(HandlerStep(k))

LiveSpec == Spec /\ Fairness

-----------------------------------------------------------------------------

\* Every variable has a value of its type; activeConns alone may be any
\* integer.
ShapeOK ==
    /\ lock \in Tokens
    /\ pc \in [Clients -> {"idle", "dial", "send", "auth", "dropLock", "spawn",
                           "poll", "session", "await"} \cup Finished]
    /\ op \in [Clients -> AllModes \cup {"none"}]
    /\ tok \in [Clients -> Tokens]
    /\ dials \in [Clients -> 0..MaxConns]
    /\ peer \in [Conns -> Clients \cup {None}]
    /\ link \in [Conns -> {"none", "pending"} \cup Handling \cup HungUpOn]
    /\ up \in [Conns -> {"nothing", "token", "request"}]
    /\ down \in [Conns -> {"nothing", "yes", "no", "exit"}]
    /\ hung \in [Conns -> BOOLEAN]
    /\ dpc \in [Clients -> {"unborn", "starting", "dead"} \cup Owning]
    /\ inst \in [Clients -> Conns \cup {Free, Invalid}]
    /\ acc \in [Clients -> Conns \cup {None}]
    /\ active \in [Clients -> Int]
    /\ recent \in [Clients -> BOOLEAN]
    /\ dog \in [Clients -> {"sleep", "idle", "fire"}]
    /\ timer \in [Clients -> BOOLEAN]
    /\ stopping \in [Clients -> BOOLEAN]
    /\ console \in [Clients -> Conns \cup {None}]

\* Every variable has a value of its type: the lock file, the pipe and the
\* connections are as described above, and activeConns is never negative.
TypeOK == ShapeOK /\ active \in [Clients -> Nat]

\* At most one daemon holds the pipe name, whatever number of them was
\* spawned by sudo processes that did not see one another.
SingleDaemon == \A d, e \in Clients : Owns(d) /\ Owns(e) => d = e

\* While a daemon serves, the lock file is absent or holds that daemon's own
\* token: no token of an earlier daemon survives its start, and no later
\* daemon overwrites it.
LockNamesDaemon ==
    \A d \in Clients : dpc[d] = "serving" => lock \in {NoLock, d}

\* A sudo process hands its command only to the daemon whose token it read
\* from the lock file or made up itself, although the pipe it dials may by
\* then belong to another daemon.
SessionIsAuthentic ==
    \A c \in Clients : pc[c] \in {"session", "await"} =>
        tok[c] = peer[Current(c)]

\* The connections of d with a running goroutine.
Handlers(d) == {k \in Conns : peer[k] = d /\ link[k] \in Handling}

\* activeConns is the number of connections with a running goroutine, on
\* every path out of handleDaemonConn; the watchdog relies on it.
ActiveCountsHandlers ==
    \A d \in Clients : active[d] = Cardinality(Handlers(d))

\* An attached command runs only while its connection holds consoleMu, so
\* that two sudo commands never run on one another's console.
OneConsole ==
    \A k \in Conns : link[k] = "running" /\ op[k[1]] = "attached" =>
        console[peer[k]] = k

\* stopFn removes the lock file by name, late and without reading it: what it
\* removes is never the token of another daemon.
StopRemovesOwnLock ==
    [][\A d \in Clients : ~ stopping[d] /\ stopping'[d] =>
           lock \in {NoLock, d}]_vars

\* Every sudo call returns, whatever daemons come and go meanwhile.
CallsReturn ==
    \A c \in Clients : (pc[c] # "idle") ~> (pc[c] \in Finished)

\* "sudo: cygsec daemon stopped" comes true: the daemon that sudo -k reached
\* does end, and without the 24 hours of the watchdog.
KillStops ==
    \A c \in Clients :
        (pc[c] = "done" /\ op[c] = "kill") ~>
            (\E k \in Conns : k = Current(c) /\ dpc[peer[k]] = "dead")

\* Once the users stay away for a day, every daemon ends, also one whose lock
\* file is lost.
DaemonsEnd ==
    (\A d \in Clients : WF_vars(Expire(d))) =>
        <>[](\A d \in Clients : dpc[d] \in {"unborn", "dead"})

\* Help text, main.go:432: "A background daemon (cygsec) persists for 24 hours
\* so repeated calls don't retrigger UAC".  A call made while a daemon serves
\* does not go straight to the UAC prompt.
NoRetrigger ==
    [][\A c \in Clients :
          pc[c] = "idle" /\ pc'[c] = "spawn" =>
              ~ \E d \in Clients : dpc[d] = "serving"]_vars

\* Comment, main.go:738: "Idle watchdog: shut down after daemonIdleTimeout
\* with no active connections."
WatchdogSparesActive ==
    [][\A d \in Clients :
          dog[d] = "fire" /\ ~ stopping[d] /\ stopping'[d] /\ ~ timer[d] =>
              active[d] = 0]_vars
=============================================================================

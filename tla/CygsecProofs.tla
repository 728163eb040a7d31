---------------------------- MODULE CygsecProofs ----------------------------
(* What holds of the cygsec daemon and its clients for any number of sudo    *)
(* processes, any mix of requests and all the faults of AllEnv.              *)
EXTENDS Cygsec, FiniteSetTheorems, TLAPS

\* A client about to dial has a connection left to open, and one that has not
\* started has opened none.
DialBound ==
    \A c \in Clients : /\ pc[c] = "idle" => dials[c] = 0
                       /\ pc[c] = "dial" => dials[c] < MaxConns

TypeInv == ShapeOK /\ DialBound

\* The processes start with values of the right types.
LEMMA TypeInit == Init => TypeInv
  BY ConstAssumption
  DEF Init, TypeInv, ShapeOK, DialBound, Tokens, Finished, Handling, HungUpOn,
      Owning

\* A client that ends closes its connections and leaves them Booleans.
LEMMA HangUpType ==
  ASSUME NEW c \in Clients, hung \in [Conns -> BOOLEAN], HangUp(c)
  PROVE  hung' \in [Conns -> BOOLEAN]
  BY DEF HangUp

\* No step of a sudo process (tryConnectDaemon to Return) breaks a type.
LEMMA TypeClient ==
  ASSUME TypeInv, NEW c \in Clients, ReadLock(c) \/ ClientStep(c) \/ Abort(c)
  PROVE  TypeInv'
  <1> USE ConstAssumption
      DEF TypeInv, ShapeOK, DialBound, Goto, Finished, Handling, HungUpOn,
          Owning, Tokens, AllModes, connVars, daemonVars, NoDaemon
  <1>1. CASE ReadLock(c)
    BY <1>1 DEF ReadLock
  <1>2. CASE Dial(c)
    BY <1>2 DEF Dial, Conns
  <1>3. CASE DialTimeout(c)
    BY <1>3 DEF DialTimeout
  <1>4. CASE SendToken(c)
    <2>1. up' \in [Conns -> {"nothing", "token", "request"}]
      BY <1>4 DEF SendToken
    <2>2. hung' \in [Conns -> BOOLEAN]
      BY <1>4, HangUpType DEF SendToken
    <2> QED BY <1>4, <2>1, <2>2 DEF SendToken
  <1>5. CASE Authenticated(c)
    <2>1. pc' \in [Clients -> {"idle", "dial", "send", "auth", "dropLock",
                        "spawn", "poll", "session", "await"} \cup Finished]
      BY <1>5 DEF Authenticated
    <2>2. down' \in [Conns -> {"nothing", "yes", "no", "exit"}]
      BY <1>5 DEF Authenticated
    <2> QED BY <1>5, <2>1, <2>2 DEF Authenticated
  <1>6. CASE Refused(c)
    BY <1>6 DEF Refused, HangUp
  <1>7. CASE DropLock(c)
    BY <1>7 DEF DropLock, RemoveLock
  <1>8. CASE Spawn(c)
    BY <1>8 DEF Spawn
  <1>9. CASE SpawnFails(c)
    BY <1>9 DEF SpawnFails
  <1>10. CASE Poll(c)
    BY <1>10 DEF Poll
  <1>11. CASE PollTimeout(c)
    BY <1>11 DEF PollTimeout
  <1>12. CASE SendRequest(c)
    <2>1. up' \in [Conns -> {"nothing", "token", "request"}]
      BY <1>12 DEF SendRequest
    <2>2. hung' \in [Conns -> BOOLEAN]
      BY <1>12, HangUpType DEF SendRequest
    <2> QED BY <1>12, <2>1, <2>2 DEF SendRequest
  <1>13. CASE Return(c)
    BY <1>13 DEF Return, HangUp
  <1>14. CASE Abort(c)
    BY <1>14 DEF Abort, HangUp
  <1> QED BY <1>1, <1>2, <1>3, <1>4, <1>5, <1>6, <1>7, <1>8, <1>9, <1>10, <1>11, <1>12, <1>13, <1>14 DEF ClientStep

\* No step of a daemon's main goroutine, watchdog or end breaks a type.
LEMMA TypeDaemon ==
  ASSUME TypeInv, NEW d \in Clients,
         \/ DaemonStep(d) \/ WatchdogStep(d) \/ StopFn(d) \/ StopExit(d)
         \/ LockFails(d) \/ Expire(d) \/ Crash(d)
  PROVE  TypeInv'
  <1> USE ConstAssumption
      DEF TypeInv, ShapeOK, DialBound, Finished, Handling, HungUpOn, Owning,
          Tokens, AllModes, clientVars, connVars
  <1>1. CASE Exit(d)
    BY <1>1 DEF Exit
  <1>2. CASE Listen(d)
    BY <1>2 DEF Listen
  <1>3. CASE TruncateLock(d)
    BY <1>3 DEF TruncateLock
  <1>4. CASE WriteLock(d)
    BY <1>4 DEF WriteLock
  <1>5. CASE Accept(d)
    BY <1>5 DEF Accept
  <1>6. CASE StartHandler(d)
    BY <1>6 DEF StartHandler
  <1>7. CASE WatchdogStep(d)
    BY <1>7 DEF WatchdogStep, SeesIdle, SeesRecent, Fires, Watch
  <1>8. CASE StopFn(d)
    BY <1>8 DEF StopFn, RemoveLock
  <1>9. CASE Expire(d)
    BY <1>9 DEF Expire
  <1> QED BY <1>1, <1>2, <1>3, <1>4, <1>5, <1>6, <1>7, <1>8, <1>9
      DEF DaemonStep, AcceptFails, StopExit, LockFails, Crash

\* No step of a connection's goroutine breaks a type.
LEMMA TypeHandler ==
  ASSUME TypeInv, NEW k \in Conns, HandlerStep(k)
  PROVE  TypeInv'
  <1> USE DEF TypeInv, ShapeOK, DialBound, Finished, Handling, HungUpOn,
              clientVars, connVars, daemonVars
  <1>1. CASE ReadToken(k)
    <2>1. up' \in [Conns -> {"nothing", "token", "request"}]
      BY <1>1 DEF ReadToken
    <2>2. down' \in [Conns -> {"nothing", "yes", "no", "exit"}]
      BY <1>1 DEF ReadToken
    <2>3. link' \in [Conns -> {"none", "pending"} \cup Handling \cup HungUpOn]
      BY <1>1 DEF ReadToken
    <2> QED BY <1>1, <2>1, <2>2, <2>3 DEF ReadToken
  <1>2. CASE ReadEOF(k)
    BY <1>2 DEF ReadEOF
  <1>3. CASE ReadRequest(k)
    <2>1. up' \in [Conns -> {"nothing", "token", "request"}]
      BY <1>3 DEF ReadRequest
    <2>2. down' \in [Conns -> {"nothing", "yes", "no", "exit"}]
      BY <1>3 DEF ReadRequest
    <2>3. link' \in [Conns -> {"none", "pending"} \cup Handling \cup HungUpOn]
      BY <1>3 DEF ReadRequest
    <2>4. timer' \in [Clients -> BOOLEAN]
      BY <1>3 DEF ReadRequest, StopSoon
    <2> QED BY <1>3, <2>1, <2>2, <2>3, <2>4 DEF ReadRequest
  <1>4. CASE AttachConsole(k)
    BY <1>4 DEF AttachConsole
  <1>5. CASE CommandEnds(k)
    BY <1>5 DEF CommandEnds, Unlock
  <1>6. CASE Drained(k)
    BY <1>6 DEF Drained
  <1>7. CASE Uncount(k)
    <2>1. active' \in [Clients -> Int]
      <3>1. CASE peer[k] \in Clients
        BY <1>7, <3>1 DEF Uncount, Decrement
      <3>2. CASE peer[k] \notin Clients
        <4>1. active' = active
          BY <1>7, <3>2 DEF Uncount, Decrement
        <4> QED BY <4>1
      <3> QED BY <3>1, <3>2
    <2> QED BY <1>7, <2>1 DEF Uncount
  <1>8. CASE Stamp(k)
    BY <1>8 DEF Stamp
  <1> QED BY <1>1, <1>2, <1>3, <1>4, <1>5, <1>6, <1>7, <1>8 DEF HandlerStep

\* Types are kept by every step of the system.
LEMMA TypeStep == TypeInv /\ [Next]_vars => TypeInv'
  <1> SUFFICES ASSUME TypeInv, [Next]_vars PROVE TypeInv'
    OBVIOUS
  <1>1. CASE UNCHANGED vars
    BY <1>1 DEF vars, clientVars, connVars, daemonVars, TypeInv, ShapeOK,
                DialBound
  <1>2. CASE Next
    BY <1>2, TypeClient, TypeDaemon, TypeHandler DEF Next
  <1> QED BY <1>1, <1>2

-----------------------------------------------------------------------------

LockInv == SingleDaemon /\ LockNamesDaemon

\* A daemon's start, the two steps of writing the lock, its end, and the two
\* ways the lock file disappears are all that touches the name or the file.
LEMMA LockStep ==
  ASSUME TypeInv, LockInv, [Next]_vars
  PROVE  LockInv'
  <1> USE ConstAssumption
      DEF TypeInv, ShapeOK, LockInv, SingleDaemon, LockNamesDaemon, Owns, Owning
  <1>1. ASSUME UNCHANGED <<lock, dpc>> PROVE LockInv'
    BY <1>1
  <1>2. ASSUME NEW c \in Clients, DropLock(c) PROVE LockInv'
    BY <1>2 DEF DropLock, RemoveLock, daemonVars
  <1>3. ASSUME NEW c \in Clients, Spawn(c) \/ SpawnFails(c) PROVE LockInv'
    BY <1>3 DEF Spawn, SpawnFails
  <1>4. ASSUME NEW d \in Clients, Exit(d) PROVE LockInv'
    BY <1>4 DEF Exit
  <1>5. ASSUME NEW d \in Clients, Listen(d) PROVE LockInv'
    BY <1>5 DEF Listen, NameFree
  <1>6. ASSUME NEW d \in Clients, TruncateLock(d) PROVE LockInv'
    BY <1>6 DEF TruncateLock
  <1>7. ASSUME NEW d \in Clients, WriteLock(d) PROVE LockInv'
    BY <1>7 DEF WriteLock
  <1>8. ASSUME NEW d \in Clients, StopFn(d) PROVE LockInv'
    BY <1>8 DEF StopFn, RemoveLock
  <1>9. CASE UNCHANGED vars
    BY <1>1, <1>9 DEF vars, daemonVars
  <1>10. ASSUME NEW c \in Clients, ReadLock(c) \/ ClientStep(c) \/ Abort(c)
         PROVE  LockInv'
    BY <1>1, <1>2, <1>3, <1>10
    DEF ReadLock, ClientStep, Abort, Dial, DialTimeout, SendToken,
        Authenticated, Refused, Poll, PollTimeout, SendRequest, Return,
        daemonVars
  <1>11. ASSUME NEW d \in Clients,
                \/ DaemonStep(d) \/ WatchdogStep(d) \/ StopFn(d) \/ StopExit(d)
                \/ LockFails(d) \/ Expire(d) \/ Crash(d)
         PROVE  LockInv'
    BY <1>1, <1>4, <1>5, <1>6, <1>7, <1>8, <1>11
    DEF DaemonStep, WatchdogStep, StopExit, LockFails, Expire, Crash, Accept,
        AcceptFails, StartHandler, SeesIdle, SeesRecent, Fires, Watch
  <1>12. ASSUME NEW k \in Conns, HandlerStep(k) PROVE LockInv'
    BY <1>1, <1>12
    DEF HandlerStep, ReadToken, ReadEOF, ReadRequest, AttachConsole,
        CommandEnds, Drained, Uncount, Stamp, daemonVars
  <1> QED BY <1>9, <1>10, <1>11, <1>12 DEF Next

-----------------------------------------------------------------------------

\* A connection is untouched until its client dials it; from then on it has a
\* peer, which is alive while its side of the connection is.
Fresh == \A k \in Conns : k[2] > dials[k[1]] =>
    peer[k] = None /\ link[k] = "none" /\ up[k] = "nothing" /\ down[k] = "nothing"

Peered == \A k \in Conns :
    /\ link[k] # "none" => peer[k] \in Clients
    /\ link[k] = "pending" => Owns(peer[k])
    /\ link[k] \in Handling \cup {"stamp"} => dpc[peer[k]] = "serving"

\* The instance waiting for a client and the connection waiting for its
\* goroutine are two different connections of the daemon, not yet handled.
Queued == \A d \in Clients :
    /\ inst[d] # Invalid => Owns(d)
    /\ inst[d] \in Conns => link[inst[d]] = "pending" /\ peer[inst[d]] = d
    /\ acc[d] # None => /\ dpc[d] = "serving"
                        /\ link[acc[d]] = "pending" /\ peer[acc[d]] = d
                        /\ acc[d] # inst[d]

\* Only a serving daemon has a timer, a watchdog or a stopFn at work.
Armed == \A d \in Clients :
    timer[d] \/ stopping[d] \/ dog[d] # "sleep" => dpc[d] = "serving"

\* A client that has yet to spawn a daemon has not spawned one.
Unspawned == \A c \in Clients :
    pc[c] \in {"idle", "dropLock", "spawn"} => dpc[c] = "unborn"

ConnInv == Fresh /\ Peered /\ Queued /\ Armed /\ Unspawned

\* Initially there is no connection, and no daemon refers to one.
LEMMA ConnInit == Init => ConnInv
  BY ConstAssumption
  DEF Init, ConnInv, Fresh, Peered, Queued, Armed, Unspawned, Handling

\* A client's CreateFile connects it to one daemon, as a fresh connection.
LEMMA ConnDial ==
  ASSUME TypeInv, ConnInv, NEW c \in Clients, Dial(c)
  PROVE  ConnInv'
  <1> USE ConstAssumption DEF TypeInv, ShapeOK, ConnInv, Owns
  <1>1. PICK d \in Clients :
          LET k == <<c, dials[c] + 1>> IN
            /\ pc[c] = "dial" /\ inst[d] = Free
            /\ inst' = [inst EXCEPT ![d] = k]
            /\ dials' = [dials EXCEPT ![c] = dials[c] + 1]
            /\ peer' = [peer EXCEPT ![k] = d]
            /\ link' = [link EXCEPT ![k] = "pending"]
            /\ UNCHANGED <<up, down, dpc, acc, dog, timer, stopping>>
            /\ pc' = [pc EXCEPT ![c] = "send"]
    BY DEF Dial, Goto
  <1> DEFINE k == <<c, dials[c] + 1>>
  <1>2. k \in Conns /\ k[1] = c /\ k[2] = dials[c] + 1 /\ dials[c] \in Nat
    BY <1>1 DEF DialBound, Conns
  <1>3. link[k] = "none"
    BY <1>2 DEF Fresh
  <1> HIDE DEF k
  <1>4. /\ inst' = [inst EXCEPT ![d] = k]
        /\ peer' = [peer EXCEPT ![k] = d]
        /\ link' = [link EXCEPT ![k] = "pending"]
    BY <1>1 DEF k
  <1>5. Fresh'
    <2> SUFFICES ASSUME NEW j \in Conns, j[2] > dials'[j[1]]
                 PROVE  /\ peer'[j] = None /\ link'[j] = "none"
                        /\ up'[j] = "nothing" /\ down'[j] = "nothing"
      BY DEF Fresh
    <2>1. j[1] \in Clients /\ j[2] \in Nat
      BY DEF Conns
    <2>2. j # k /\ j[2] > dials[j[1]]
      BY <1>1, <1>2, <2>1
    <2> QED BY <1>1, <1>4, <2>2 DEF Fresh
  <1>6. Owns(d)
    BY <1>1 DEF Queued
  <1>7. Peered'
    BY <1>1, <1>2, <1>4, <1>6 DEF Peered, Handling
  <1>8. Queued'
    <2>1. \A e \in Clients : acc[e] # k /\ inst[e] # k
      BY <1>2, <1>3 DEF Queued
    <2>2. ASSUME NEW e \in Clients, e # d
          PROVE  inst'[e] = inst[e] /\ acc'[e] = acc[e]
      BY <1>1, <1>4, <2>2
    <2>3. inst'[d] = k /\ acc'[d] = acc[d] /\ link'[k] = "pending"
          /\ peer'[k] = d
      BY <1>1, <1>2, <1>4
    <2>4. \A j \in Conns : j # k => link'[j] = link[j] /\ peer'[j] = peer[j]
      BY <1>4
    <2>5. \A e \in Clients : acc[e] # None => acc[e] \in Conns
      OBVIOUS
    <2>6. dpc' = dpc
      BY <1>1
    <2> QED BY <1>2, <1>6, <2>1, <2>2, <2>3, <2>4, <2>5, <2>6 DEF Queued
  <1>9. Armed'
    BY <1>1 DEF Armed
  <1>10. Unspawned'
    BY <1>1 DEF Unspawned
  <1> QED BY <1>5, <1>7, <1>8, <1>9, <1>10

\* The other steps of a client leave the daemons' view of connections alone.
LEMMA ConnClient ==
  ASSUME TypeInv, ConnInv,
         NEW c \in Clients, ReadLock(c) \/ ClientStep(c) \/ Abort(c)
  PROVE  ConnInv'
  <1> USE ConstAssumption DEF TypeInv, ShapeOK, ConnInv, Owns
  <1>1. Unspawned'
    BY DEF ReadLock, ClientStep, Abort, Dial, DialTimeout, SendToken, Refused,
           Authenticated, DropLock, Spawn, SpawnFails, Poll, PollTimeout,
           SendRequest, Return, Unspawned, Goto, NoDaemon, Waiting, Finished,
           daemonVars
  <1>2. CASE UNCHANGED <<dials, peer, link, up, down, daemonVars>>
    BY <1>1, <1>2 DEF daemonVars, Fresh, Peered, Queued, Armed
  <1>3. CASE SendToken(c) \/ SendRequest(c)
    <2>1. UNCHANGED <<dials, peer, link, down, daemonVars>>
      BY <1>3 DEF SendToken, SendRequest
    <2>2. Fresh'
      <3> SUFFICES ASSUME NEW j \in Conns, j[2] > dials[j[1]]
                   PROVE  up'[j] = "nothing"
        BY <2>1 DEF Fresh
      <3>1. j # Current(c)
        BY DEF Current, Conns
      <3> QED BY <1>3, <3>1 DEF SendToken, SendRequest, Fresh
    <2> QED BY <1>1, <2>1, <2>2 DEF daemonVars, Peered, Queued, Armed
  <1>4. CASE Authenticated(c)
    <2>1. UNCHANGED <<dials, peer, link, up, daemonVars>>
      BY <1>4 DEF Authenticated
    <2>2. Fresh'
      BY <1>4, <2>1 DEF Authenticated, Fresh
    <2> QED BY <1>1, <2>1, <2>2 DEF daemonVars, Peered, Queued, Armed
  <1>5. CASE Spawn(c) \/ SpawnFails(c)
    <2>1. /\ UNCHANGED <<dials, connVars, inst, acc, timer, stopping, dog>>
          /\ dpc' = dpc \/ dpc' = [dpc EXCEPT ![c] = "starting"]
          /\ dpc[c] = "unborn"
      BY <1>5 DEF Spawn, SpawnFails, Unspawned
    <2>2. \A d \in Clients : dpc[d] # "unborn" => dpc'[d] = dpc[d]
      BY <2>1
    <2> QED BY <1>1, <2>1, <2>2
        DEF connVars, Fresh, Peered, Queued, Armed, Owning, Handling
  <1> QED
    BY <1>2, <1>3, <1>4, <1>5, ConnDial
    DEF ReadLock, ClientStep, Abort, DialTimeout, DropLock, Poll, PollTimeout,
        Refused, Return, connVars

\* Accepting a connection, starting its goroutine and ending the daemon keep
\* each connection with the daemon it reached.
LEMMA ConnDaemon ==
  ASSUME TypeInv, ConnInv, NEW d \in Clients,
         \/ DaemonStep(d) \/ WatchdogStep(d) \/ StopFn(d) \/ StopExit(d)
         \/ LockFails(d) \/ Expire(d) \/ Crash(d)
  PROVE  ConnInv'
  <1> USE ConstAssumption DEF TypeInv, ShapeOK, ConnInv, Owns, Owning, clientVars
  <1>1. CASE Exit(d) /\ dpc[d] # "unborn"
    <2>1. Unspawned'
      BY <1>1 DEF Exit, Unspawned
    <2>2. Fresh' /\ Armed'
      BY <1>1 DEF Exit, Fresh, Armed
    <2>3. Peered'
      BY <1>1 DEF Exit, Peered, Handling
    <2>4. Queued'
      BY <1>1 DEF Exit, Queued
    <2> QED BY <2>1, <2>2, <2>3, <2>4
  <1>2. CASE Listen(d)
    BY <1>2 DEF Listen, Fresh, Peered, Queued, Armed, Unspawned, connVars,
                Handling
  <1>3. CASE TruncateLock(d) \/ WriteLock(d)
    BY <1>3 DEF TruncateLock, WriteLock, Fresh, Peered, Queued, Armed,
                Unspawned, connVars, Handling
  <1>4. CASE Accept(d)
    BY <1>4 DEF Accept, Fresh, Peered, Queued, Armed, Unspawned, connVars
  <1>5. CASE StartHandler(d)
    <2>1. acc[d] \in Conns /\ link[acc[d]] = "pending" /\ dpc[d] = "serving"
      BY <1>5 DEF StartHandler, Queued
    <2>2. Fresh' /\ Armed' /\ Unspawned'
      BY <1>5, <2>1 DEF StartHandler, Fresh, Armed, Unspawned
    <2>3. Peered'
      BY <1>5, <2>1 DEF StartHandler, Peered, Queued, Handling
    <2>4. Queued'
      BY <1>5, <2>1 DEF StartHandler, Queued
    <2> QED BY <2>2, <2>3, <2>4
  <1>6. CASE WatchdogStep(d) \/ StopFn(d) \/ Expire(d)
    BY <1>6 DEF WatchdogStep, SeesIdle, SeesRecent, Fires, Watch, StopFn,
                Expire, Fresh, Peered, Queued, Armed, Unspawned, connVars
  <1>7. StopExit(d) => dpc[d] # "unborn"
    BY DEF StopExit, Armed
  <1> QED BY <1>1, <1>2, <1>3, <1>4, <1>5, <1>6, <1>7
      DEF DaemonStep, AcceptFails, StopExit, LockFails, Crash

\* A connection's goroutine moves only its own connection on.
LEMMA ConnHandler ==
  ASSUME TypeInv, ConnInv, NEW k \in Conns, HandlerStep(k)
  PROVE  ConnInv'
  <1> USE ConstAssumption DEF TypeInv, ShapeOK, ConnInv, Owns, clientVars
  <1>1. /\ UNCHANGED <<pc, dials, peer, dpc, inst, acc, dog, stopping>>
        /\ link[k] \in Handling \cup {"stamp"}
        /\ \A j \in Conns : j # k => /\ link'[j] = link[j] /\ up'[j] = up[j]
                                     /\ down'[j] = down[j]
        /\ link'[k] \in Handling \cup {"stamp", "closed"}
        /\ timer' # timer => timer' = [timer EXCEPT ![peer[k]] = TRUE]
    BY DEF HandlerStep, ReadToken, ReadEOF, ReadRequest, StopSoon,
           AttachConsole, CommandEnds, Drained, Uncount, Stamp, daemonVars,
           Handling
  <1>2. dpc[peer[k]] = "serving" /\ peer[k] \in Clients
    BY <1>1 DEF Peered, Handling
  <1>3. Fresh'
    BY <1>1 DEF Fresh, Handling
  <1>4. Peered'
    BY <1>1, <1>2 DEF Peered, Handling
  <1>5. Queued'
    BY <1>1 DEF Queued, Handling
  <1>6. Armed' /\ Unspawned'
    BY <1>1, <1>2 DEF Armed, Unspawned
  <1> QED BY <1>3, <1>4, <1>5, <1>6

\* The bookkeeping of connections is kept by every step of the system.
LEMMA ConnStep == TypeInv /\ ConnInv /\ [Next]_vars => ConnInv'
  <1> SUFFICES ASSUME TypeInv, ConnInv, [Next]_vars PROVE ConnInv'
    OBVIOUS
  <1>1. CASE UNCHANGED vars
    BY <1>1 DEF vars, clientVars, connVars, daemonVars, ConnInv, Fresh, Peered,
                Queued, Armed, Unspawned, Owns
  <1>2. CASE Next
    BY <1>2, ConnClient, ConnDaemon, ConnHandler DEF Next
  <1> QED BY <1>1, <1>2

-----------------------------------------------------------------------------

\* What a client knows of its current connection at each point.
AuthInv == \A c \in Clients :
    /\ pc[c] \in {"send", "auth", "session", "await"} => Current(c) \in Conns
    /\ pc[c] = "send" => /\ up[Current(c)] = "nothing"
                         /\ down[Current(c)] # "yes"
    /\ pc[c] = "auth" /\ down[Current(c)] = "yes" => tok[c] = peer[Current(c)]
    /\ pc[c] \in {"session", "await"} => tok[c] = peer[Current(c)]

\* A client keeps the token it was authenticated with while it talks.
LEMMA AuthClient ==
  ASSUME TypeInv, ConnInv, AuthInv,
         NEW c \in Clients, ReadLock(c) \/ ClientStep(c) \/ Abort(c)
  PROVE  AuthInv'
  <1> USE ConstAssumption DEF TypeInv, ShapeOK
  <1>1. \A e \in Clients : Current(e)[1] = e
    BY DEF Current
  <1>2. ASSUME NEW e \in Clients, e # c
        PROVE  /\ pc'[e] = pc[e] /\ tok'[e] = tok[e] /\ dials'[e] = dials[e]
               /\ Current(e)' = Current(e)
               /\ Current(e) \in Conns =>
                    /\ up'[Current(e)] = up[Current(e)]
                    /\ down'[Current(e)] = down[Current(e)]
                    /\ peer'[Current(e)] = peer[Current(e)]
    <2>1. /\ pc'[e] = pc[e] /\ tok'[e] = tok[e] /\ dials'[e] = dials[e]
      BY <1>2
      DEF ReadLock, ClientStep, Abort, Dial, DialTimeout, SendToken, Refused,
          Authenticated, DropLock, Spawn, SpawnFails, Poll, PollTimeout,
          SendRequest, Return, Goto
    <2>2. Current(e) # Current(c) /\ Current(e) # <<c, dials[c] + 1>>
      BY <1>2 DEF Current
    <2>3. Current(e)' = Current(e)
      BY <2>1 DEF Current
    <2>4. CASE Dial(c)
      BY <2>1, <2>2, <2>3, <2>4 DEF Dial
    <2>5. CASE ~ Dial(c)
      <3>1. UNCHANGED peer
        BY <2>5
        DEF ReadLock, ClientStep, Abort, DialTimeout, SendToken, Refused,
            Authenticated, DropLock, Spawn, SpawnFails, Poll, PollTimeout,
            SendRequest, Return, connVars
      <3>2. \A k \in Conns : k # Current(c) =>
               up'[k] = up[k] /\ down'[k] = down[k]
        BY <2>5
        DEF ReadLock, ClientStep, Abort, DialTimeout, SendToken, Refused,
            Authenticated, DropLock, Spawn, SpawnFails, Poll, PollTimeout,
            SendRequest, Return, connVars
      <3> QED BY <2>1, <2>2, <2>3, <3>1, <3>2
    <2> QED BY <2>4, <2>5
  <1>3. /\ pc'[c] \in {"send", "auth", "session", "await"} => Current(c)' \in Conns
        /\ pc'[c] = "send" => /\ up'[Current(c)'] = "nothing"
                              /\ down'[Current(c)'] # "yes"
        /\ pc'[c] = "auth" /\ down'[Current(c)'] = "yes" =>
             tok'[c] = peer'[Current(c)']
        /\ pc'[c] \in {"session", "await"} => tok'[c] = peer'[Current(c)']
    <2>1. CASE Dial(c)
      <3>1. Current(c)' = <<c, dials[c] + 1>> /\ Current(c)' \in Conns
        BY <2>1 DEF Dial, Current, DialBound, Conns
      <3>2. up[Current(c)'] = "nothing" /\ down[Current(c)'] = "nothing"
        BY <2>1, <3>1 DEF ConnInv, Fresh, Conns
      <3> QED BY <2>1, <3>1, <3>2 DEF Dial, Goto
    <2>2. CASE SendToken(c) \/ Authenticated(c) \/ SendRequest(c)
      <3>1. UNCHANGED <<dials, tok, peer>> /\ Current(c)' = Current(c)
        BY <2>2 DEF SendToken, Authenticated, SendRequest, Current
      <3> QED BY <2>2, <3>1
          DEF SendToken, Authenticated, SendRequest, AuthInv, Goto, NoDaemon
    <2>3. CASE pc'[c] \notin {"send", "auth", "session", "await"}
      BY <2>3
    <2> QED BY <2>1, <2>2, <2>3
        DEF ReadLock, ClientStep, Abort, DialTimeout, Refused, DropLock, Spawn,
            SpawnFails, Poll, PollTimeout, Return, Goto, NoDaemon, Finished
  <1> QED BY <1>2, <1>3 DEF AuthInv

\* A daemon says yes only to its own token.
LEMMA AuthHandler ==
  ASSUME TypeInv, AuthInv, NEW k \in Conns, HandlerStep(k)
  PROVE  AuthInv'
  <1> USE DEF TypeInv, ShapeOK
  <1>1. UNCHANGED <<pc, tok, dials, peer>>
    BY DEF HandlerStep, ReadToken, ReadEOF, ReadRequest, AttachConsole,
           CommandEnds, Drained, Uncount, Stamp, clientVars
  <1>2. \A e \in Clients : Current(e)' = Current(e)
    BY <1>1 DEF Current
  <1>3. CASE ReadToken(k)
    <2>1. /\ up[k] = "token" /\ \A j \in Conns : j # k => down'[j] = down[j]
          /\ \A j \in Conns : up'[j] \in {up[j], "nothing"}
          /\ down'[k] = "yes" => tok[k[1]] = peer[k]
      BY <1>3 DEF ReadToken, TokenMatches
    <2>2. \A e \in Clients : Current(e)[1] = e
      BY DEF Current
    <2> QED BY <1>1, <1>2, <2>1, <2>2 DEF AuthInv
  <1>4. CASE ~ ReadToken(k)
    <2>1. /\ \A j \in Conns : down'[j] \in {down[j], "exit"}
          /\ \A j \in Conns : up'[j] \in {up[j], "nothing"}
          /\ \A j \in Conns : down'[j] # down[j] => j = k
          /\ link[k] \in Handling \cup {"stamp"}
      BY <1>4 DEF HandlerStep, ReadEOF, ReadRequest, AttachConsole, CommandEnds,
                  Drained, Uncount, Stamp, Handling
    <2> QED BY <1>1, <1>2, <2>1 DEF AuthInv
  <1> QED BY <1>3, <1>4

\* What a client and a daemon agree on is kept by every step of the system.
LEMMA AuthStep ==
  TypeInv /\ ConnInv /\ AuthInv /\ [Next]_vars => AuthInv'
  <1> SUFFICES ASSUME TypeInv, ConnInv, AuthInv, [Next]_vars PROVE AuthInv'
    OBVIOUS
  <1>1. ASSUME UNCHANGED <<pc, tok, dials, peer, up, down>> PROVE AuthInv'
    BY <1>1 DEF AuthInv, Current
  <1>2. CASE UNCHANGED vars
    BY <1>1, <1>2 DEF vars, clientVars, connVars
  <1>3. ASSUME NEW d \in Clients,
               \/ DaemonStep(d) \/ WatchdogStep(d) \/ StopFn(d) \/ StopExit(d)
               \/ LockFails(d) \/ Expire(d) \/ Crash(d)
        PROVE  AuthInv'
    BY <1>1, <1>3
    DEF DaemonStep, WatchdogStep, StopFn, StopExit, LockFails, Expire, Crash,
        Listen, TruncateLock, WriteLock, Accept, AcceptFails, StartHandler,
        Exit, SeesIdle, SeesRecent, Fires, Watch, clientVars, connVars
  <1> QED BY <1>2, <1>3, AuthClient, AuthHandler DEF Next

-----------------------------------------------------------------------------

\* consoleMu: a client that has not started has no connection, so that its
\* request is the one its handler read.
ConsoleInv == OneConsole

\* consoleMu passes from one attached command to the next by every step.
LEMMA ConsoleStep ==
  TypeInv /\ ConnInv /\ ConsoleInv /\ [Next]_vars => ConsoleInv'
  <1> SUFFICES ASSUME TypeInv, ConnInv, ConsoleInv, [Next]_vars,
                      NEW k \in Conns, link'[k] = "running",
                      op'[k[1]] = "attached"
               PROVE  console'[peer'[k]] = k
    BY DEF ConsoleInv, OneConsole
  <1> USE ConstAssumption DEF TypeInv, ShapeOK, ConsoleInv, OneConsole
  <1>1. k[1] \in Clients /\ k[2] \in Nat /\ k[2] > 0
    BY DEF Conns
  <1>2. ASSUME UNCHANGED <<link, op, console, peer>> PROVE console'[peer'[k]] = k
    BY <1>2
  <1>3. ASSUME NEW c \in Clients, ReadLock(c) \/ ClientStep(c) \/ Abort(c)
        PROVE  console'[peer'[k]] = k
    <2>1. CASE ReadLock(c)
      <3>1. UNCHANGED <<link, console, peer>>
        BY <2>1 DEF ReadLock, connVars, daemonVars
      <3>2. k[1] # c
        BY <1>1, <2>1, <3>1 DEF ReadLock, DialBound, ConnInv, Fresh
      <3> QED BY <1>1, <2>1, <3>1, <3>2 DEF ReadLock
    <2>2. CASE Dial(c)
      BY <2>2 DEF Dial
    <2>3. CASE ~ ReadLock(c) /\ ~ Dial(c)
      BY <1>2, <1>3, <2>3
      DEF ClientStep, Abort, DialTimeout, SendToken, Refused, Authenticated,
          DropLock, Spawn, SpawnFails, Poll, PollTimeout, SendRequest, Return,
          connVars, daemonVars
    <2> QED BY <2>1, <2>2, <2>3
  <1>4. ASSUME NEW d \in Clients,
               \/ DaemonStep(d) \/ WatchdogStep(d) \/ StopFn(d) \/ StopExit(d)
               \/ LockFails(d) \/ Expire(d) \/ Crash(d)
        PROVE  console'[peer'[k]] = k
    <2>1. CASE Exit(d)
      BY <2>1 DEF Exit, clientVars, ConnInv, Peered, Handling
    <2>2. CASE StartHandler(d)
      BY <2>2 DEF StartHandler, clientVars
    <2>3. CASE ~ Exit(d) /\ ~ StartHandler(d)
      BY <1>2, <1>4, <2>3
      DEF DaemonStep, WatchdogStep, StopFn, StopExit, LockFails, Expire, Crash,
          Listen, TruncateLock, WriteLock, Accept, AcceptFails,
          SeesIdle, SeesRecent, Fires, Watch, clientVars, connVars
    <2> QED BY <2>1, <2>2, <2>3
  <1>5. ASSUME NEW j \in Conns, HandlerStep(j) PROVE console'[peer'[k]] = k
    <2>1. UNCHANGED <<op, peer>> /\ peer[j] \in Clients
      BY <1>5 DEF HandlerStep, ReadToken, ReadEOF, ReadRequest, AttachConsole,
                  CommandEnds, Drained, Uncount, Stamp, clientVars, ConnInv,
                  Peered, Handling
    <2>2. CASE AttachConsole(j)
      <3>1. console[peer[j]] = None /\ (link'[j] = "running" =>
                console' = [console EXCEPT ![peer[j]] = j])
        BY <2>2 DEF AttachConsole, ConsoleFree
      <3>2. CASE k = j
        BY <2>1, <3>1, <3>2
      <3>3. CASE k # j
        <4>1. link[k] = "running"
          BY <2>2, <3>3 DEF AttachConsole
        <4>2. console[peer[k]] = k /\ k # None /\ peer[k] # peer[j]
          BY <2>1, <3>1, <4>1
        <4>3. peer[k] \in Clients
          BY <4>1 DEF ConnInv, Peered
        <4> QED BY <2>1, <2>2, <4>2, <4>3 DEF AttachConsole
      <3> QED BY <3>2, <3>3
    <2>3. CASE CommandEnds(j)
      <3>1. link[k] = "running" /\ k # j
        BY <2>3 DEF CommandEnds
      <3>2. peer[k] \in Clients /\ console[peer[k]] = k
        BY <2>1, <3>1 DEF ConnInv, Peered, Handling
      <3> QED BY <2>1, <2>3, <3>1, <3>2 DEF CommandEnds, Unlock
    <2>4. CASE ~ AttachConsole(j) /\ ~ CommandEnds(j)
      BY <1>5, <2>1, <2>4
      DEF HandlerStep, ReadToken, ReadEOF, ReadRequest, Drained, Uncount, Stamp,
          daemonVars, StopSoon, clientVars
    <2> QED BY <2>2, <2>3, <2>4
  <1>6. CASE UNCHANGED vars
    BY <1>2, <1>6 DEF vars, clientVars, connVars, daemonVars
  <1> QED BY <1>3, <1>4, <1>5, <1>6 DEF Next

-----------------------------------------------------------------------------

\* activeConns: every step keeps it equal to the number of goroutines.
CountInv == ActiveCountsHandlers

\* A daemon has finitely many goroutines.
LEMMA HandlersFinite ==
  ASSUME NEW d
  PROVE  IsFiniteSet(Handlers(d)) /\ Cardinality(Handlers(d)) \in Nat
  <1>1. IsFiniteSet(Conns)
    <2>1. IsFiniteSet(Clients) /\ IsFiniteSet(1..MaxConns)
      BY ConstAssumption, FS_Interval
    <2> QED BY <2>1, FS_Product DEF Conns
  <1>2. Handlers(d) \in SUBSET Conns
    BY DEF Handlers
  <1>3. IsFiniteSet(Handlers(d))
    BY <1>1, <1>2, FS_Subset
  <1> QED BY <1>3, FS_CardinalityType

\* A step that neither starts nor ends a goroutine keeps the set of them.
LEMMA CountFrame ==
  ASSUME CountInv, UNCHANGED active,
         \A k \in Conns :
            \/ peer'[k] = peer[k] /\ (link'[k] \in Handling <=> link[k] \in Handling)
            \/ link[k] \notin Handling /\ link'[k] \notin Handling
  PROVE  CountInv'
  <1>1. \A d \in Clients : Handlers(d)' = Handlers(d)
    BY DEF Handlers
  <1> QED BY <1>1 DEF CountInv, ActiveCountsHandlers

\* A daemon that ends has no goroutines and counts none.
LEMMA CountExit ==
  ASSUME TypeInv, CountInv, NEW d \in Clients, Exit(d)
  PROVE  CountInv'
  <1> USE DEF TypeInv, ShapeOK
  <1>1. ASSUME NEW e \in Clients, e # d
        PROVE  active'[e] = active[e] /\ Handlers(e)' = Handlers(e)
    BY <1>1 DEF Exit, Handlers
  <1>2. active'[d] = 0 /\ Handlers(d)' = {}
    BY DEF Exit, Handlers, Handling
  <1> QED BY <1>1, <1>2, FS_EmptySet DEF CountInv, ActiveCountsHandlers

\* Starting a goroutine adds one to both sides (runDaemon's accept loop).
LEMMA CountStart ==
  ASSUME TypeInv, ConnInv, CountInv, NEW d \in Clients, StartHandler(d)
  PROVE  CountInv'
  <1> USE DEF TypeInv, ShapeOK
  <1>1. acc[d] \in Conns /\ link[acc[d]] = "pending" /\ peer[acc[d]] = d
    BY DEF StartHandler, ConnInv, Queued
  <1>2. ASSUME NEW e \in Clients, e # d
        PROVE  active'[e] = active[e] /\ Handlers(e)' = Handlers(e)
    BY <1>1, <1>2 DEF StartHandler, Handlers
  <1>3. active'[d] = active[d] + 1 /\ Handlers(d)' = Handlers(d) \cup {acc[d]}
    BY <1>1 DEF StartHandler, Handlers, Handling
  <1>4. acc[d] \notin Handlers(d)
    BY <1>1 DEF Handlers, Handling
  <1>5. Cardinality(Handlers(d) \cup {acc[d]}) = Cardinality(Handlers(d)) + 1
    BY <1>4, HandlersFinite, FS_AddElement
  <1> QED BY <1>2, <1>3, <1>5 DEF CountInv, ActiveCountsHandlers

\* The deferred decrement takes one from both sides.
LEMMA CountUncount ==
  ASSUME TypeInv, ConnInv, CountInv, NEW k \in Conns, Uncount(k)
  PROVE  CountInv'
  <1> USE DEF TypeInv, ShapeOK
  <1>1. PICK d \in Clients : d = peer[k]
    BY DEF Uncount, ConnInv, Peered, Handling
  <1>6. link[k] = "closing"
    BY DEF Uncount
  <1>2. ASSUME NEW e \in Clients, e # d
        PROVE  active'[e] = active[e] /\ Handlers(e)' = Handlers(e)
    BY <1>1, <1>2 DEF Uncount, Decrement, Handlers
  <1>3. active'[d] = active[d] - 1 /\ Handlers(d)' = Handlers(d) \ {k}
    BY <1>1 DEF Uncount, Decrement, Handlers, Handling
  <1>4. k \in Handlers(d)
    BY <1>1, <1>6 DEF Handlers, Handling
  <1>5. Cardinality(Handlers(d) \ {k}) = Cardinality(Handlers(d)) - 1
    BY <1>4, HandlersFinite, FS_RemoveElement
  <1> QED BY <1>1, <1>2, <1>3, <1>5 DEF CountInv, ActiveCountsHandlers

\* activeConns stays right under every step of the system.
LEMMA CountStep ==
  TypeInv /\ ConnInv /\ CountInv /\ [Next]_vars => CountInv'
  <1> SUFFICES ASSUME TypeInv, ConnInv, CountInv, [Next]_vars PROVE CountInv'
    OBVIOUS
  <1> USE DEF TypeInv, ShapeOK
  <1>1. ASSUME UNCHANGED <<peer, link, active>> PROVE CountInv'
    BY <1>1, CountFrame
  <1>2. ASSUME NEW c \in Clients, ReadLock(c) \/ ClientStep(c) \/ Abort(c)
        PROVE  CountInv'
    <2>1. CASE Dial(c)
      <3>1. /\ <<c, dials[c] + 1>> \in Conns
            /\ <<c, dials[c] + 1>>[2] > dials[<<c, dials[c] + 1>>[1]]
        BY <2>1, ConstAssumption DEF Dial, DialBound, Conns
      <3>2. link[<<c, dials[c] + 1>>] = "none"
        BY <3>1 DEF ConnInv, Fresh
      <3> QED BY <2>1, <3>2, CountFrame DEF Dial, Handling
    <2> QED
      BY <1>1, <1>2, <2>1
      DEF ReadLock, ClientStep, Abort, DialTimeout, SendToken, Refused,
          Authenticated, DropLock, Spawn, SpawnFails, Poll, PollTimeout,
          SendRequest, Return, connVars, daemonVars
  <1>3. ASSUME NEW d \in Clients,
               \/ DaemonStep(d) \/ WatchdogStep(d) \/ StopFn(d) \/ StopExit(d)
               \/ LockFails(d) \/ Expire(d) \/ Crash(d)
        PROVE  CountInv'
    BY <1>1, <1>3, CountExit, CountStart
    DEF DaemonStep, WatchdogStep, StopFn, StopExit, LockFails, Expire, Crash,
        Listen, TruncateLock, WriteLock, Accept, AcceptFails, SeesIdle,
        SeesRecent, Fires, Watch, connVars
  <1>4. ASSUME NEW k \in Conns, HandlerStep(k) PROVE CountInv'
    <2>1. CASE ~ Uncount(k)
      <3>1. /\ UNCHANGED <<peer, active>>
            /\ \A j \in Conns : link'[j] # link[j] => j = k
            /\ link[k] \in Handling <=> link'[k] \in Handling
        BY <1>4, <2>1
        DEF HandlerStep, ReadToken, ReadEOF, ReadRequest, AttachConsole,
            CommandEnds, Drained, Stamp, daemonVars, Handling
      <3> QED BY <3>1, CountFrame
    <2> QED BY <2>1, CountUncount
  <1>5. CASE UNCHANGED vars
    BY <1>1, <1>5 DEF vars, connVars, daemonVars
  <1> QED BY <1>2, <1>3, <1>4, <1>5 DEF Next

-----------------------------------------------------------------------------

IInv == TypeInv /\ LockInv /\ ConnInv /\ AuthInv /\ ConsoleInv /\ CountInv

\* The inductive invariant holds initially.
LEMMA InvInit == Init => IInv
  <1> SUFFICES ASSUME Init PROVE IInv
    OBVIOUS
  <1>1. \A d \in Clients : Handlers(d) = {}
    BY DEF Init, Handlers, Handling
  <1>2. CountInv
    BY <1>1, FS_EmptySet DEF Init, CountInv, ActiveCountsHandlers
  <1> QED
    BY <1>2, TypeInit, ConnInit, ConstAssumption
    DEF Init, IInv, LockInv, SingleDaemon, LockNamesDaemon, Owns, Owning,
        AuthInv, ConsoleInv, OneConsole

\* The inductive invariant is kept by every step.
LEMMA InvStep == IInv /\ [Next]_vars => IInv'
  BY TypeStep, LockStep, ConnStep, AuthStep, ConsoleStep, CountStep DEF IInv

\* The inductive invariant behind all the theorems that follow: types, the lock
\* file, the connections, the tokens, the console and the count of goroutines
\* need one another and hold together.
THEOREM Inductive == Spec => []IInv
  BY InvInit, InvStep, PTL DEF Spec

\* activeConns is the number of running connection goroutines, on
\* every path through a handler.
THEOREM ActiveCountsHandlersHolds == Spec => []ActiveCountsHandlers
  <1>1. IInv => ActiveCountsHandlers
    BY DEF IInv, CountInv
  <1> QED BY <1>1, Inductive, PTL

\* All variables keep their types; activeConns, which is decremented from
\* several goroutines, never becomes negative.
THEOREM TypeOKHolds == Spec => []TypeOK
  <1>1. IInv => TypeOK
    <2> SUFFICES ASSUME IInv PROVE \A d \in Clients : active[d] \in Nat
      BY DEF IInv, TypeInv, ShapeOK, TypeOK
    <2> QED BY HandlersFinite DEF IInv, CountInv, ActiveCountsHandlers
  <1> QED BY <1>1, Inductive, PTL

\* However many sudo processes spawn a daemon, at most one of the daemons
\* holds the pipe name (listenPipe).
THEOREM SingleDaemonHolds == Spec => []SingleDaemon
  <1>1. IInv => SingleDaemon
    BY DEF IInv, LockInv
  <1> QED BY <1>1, Inductive, PTL

\* The lock file of a serving daemon is missing or holds its own token.
THEOREM LockNamesDaemonHolds == Spec => []LockNamesDaemon
  <1>1. IInv => LockNamesDaemon
    BY DEF IInv, LockInv
  <1> QED BY <1>1, Inductive, PTL

\* A request goes only to a daemon that proved to have the token the client
\* holds, for any interleaving of daemons that come and go.
THEOREM SessionIsAuthenticHolds == Spec => []SessionIsAuthentic
  <1>1. IInv => SessionIsAuthentic
    BY DEF IInv, AuthInv, SessionIsAuthentic
  <1> QED BY <1>1, Inductive, PTL

\* Attached commands of one daemon run one at a time.
THEOREM OneConsoleHolds == Spec => []OneConsole
  <1>1. IInv => OneConsole
    BY DEF IInv, ConsoleInv
  <1> QED BY <1>1, Inductive, PTL

\* stopFn, which removes the lock file without reading it, removes nobody
\* else's token.
THEOREM StopRemovesOwnLockHolds == Spec => StopRemovesOwnLock
  <1> DEFINE A == \A d \in Clients : ~ stopping[d] /\ stopping'[d] =>
                     lock \in {NoLock, d}
  <1>1. IInv /\ [Next]_vars => [A]_vars
    <2> SUFFICES ASSUME IInv, Next, NEW d \in Clients,
                        ~ stopping[d], stopping'[d]
                 PROVE  lock \in {NoLock, d}
      OBVIOUS
    <2> USE DEF IInv, TypeInv, ShapeOK
    <2>1. ASSUME NEW c \in Clients, ReadLock(c) \/ ClientStep(c) \/ Abort(c)
          PROVE  FALSE
      BY <2>1
      DEF ReadLock, ClientStep, Abort, Dial, DialTimeout, SendToken, Refused,
          Authenticated, DropLock, Spawn, SpawnFails, Poll, PollTimeout,
          SendRequest, Return, daemonVars
    <2>2. ASSUME NEW k \in Conns, HandlerStep(k) PROVE FALSE
      BY <2>2 DEF HandlerStep, ReadToken, ReadEOF, ReadRequest, AttachConsole,
                  CommandEnds, Drained, Uncount, Stamp, daemonVars
    <2>3. ASSUME NEW e \in Clients,
                 \/ DaemonStep(e) \/ WatchdogStep(e) \/ StopFn(e)
                 \/ StopExit(e) \/ LockFails(e) \/ Expire(e) \/ Crash(e)
          PROVE  StopFn(d)
      <3>1. ~ Exit(e)
        BY DEF Exit
      <3>2. StopFn(e)
        BY <2>3, <3>1
        DEF DaemonStep, WatchdogStep, StopExit, LockFails, Expire, Crash,
            Listen, TruncateLock, WriteLock, Accept, AcceptFails, StartHandler,
            SeesIdle, SeesRecent, Fires, Watch
      <3> QED BY <3>2 DEF StopFn
    <2>4. StopFn(d)
      BY <2>1, <2>2, <2>3 DEF Next
    <2>5. dpc[d] = "serving"
      BY <2>4 DEF StopFn, ConnInv, Armed
    <2> QED BY <2>5 DEF LockInv, LockNamesDaemon
  <1> QED BY <1>1, Inductive, PTL DEF Spec, StopRemovesOwnLock
===========================================================================

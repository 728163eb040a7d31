-------------------------- MODULE SuSessionProofs --------------------------
(* Proofs about SuSession, for every set of calls, whatever their commands   *)
(* write, and for every bound.                                               *)
EXTENDS SuSession, SuTokenProofs, SequenceTheorems

-----------------------------------------------------------------------------
(* The inductive invariant. *)

IsSequence(q) == q \in Seq(Range(q))

\* The helper has not been asked for anything yet, or never came so far.
Unasked ==
    /\ hpc \in {"none", "dial", "token", "ended"}
    /\ child = "none"
    /\ toHelper = << >>

\* Where su is, where the goroutine that starts the helper is and where the
\* listener is.
SpawnInv ==
    /\ spc \in {"token", "password", "listen"} => spawn = "none"
    /\ spc \in {"accept", "handshake", "relay"} => spawn # "none"
    /\ lis = "none" <=> spawn = "none"
    /\ spawnErr = None <=> spawn \notin {"sent", "done"}
    /\ spawn \in {"none", "calling", "failed"} => hpc = "none"
    /\ spawnErr = "failed" => hpc = "none"
    /\ spawn = "ended" \/ spawnErr = "ended" => hpc = "ended"
    /\ lis = "open" => Running
    /\ Running /\ lis = "closed" => spawn = "done"

\* What became of the helper's connection.
ConnInv ==
    /\ hpc \in {"none", "dial"} => conn # "open"
    /\ hpc \in {"none", "dial"} /\ Running => conn = "none"
    /\ conn = "queued" => Running /\ lis = "open" /\ ch = None
    /\ conn = "open" => Running
    /\ Running => (ch = "conn" <=> conn = "open")
    /\ ch = "err" => lis = "closed"
    /\ spc \in {"handshake", "relay"} => ch = "conn"

\* How far the helper is and what becomes of its command.
HelperInv ==
    /\ hpc \in {"none", "dial", "token"} =>
           toServer = << >> /\ reader = "none" /\ spc # "relay"
    /\ hpc \in {"none", "dial", "token", "prepare", "run"} =>
           child = "none" /\ copier = "none"
    /\ hpc = "exit" => child = "ended"
    /\ hpc = "ended" /\ killed = {} => child # "running"
    /\ child = "ended" <=> code # None

\* The answer to the token comes first, the exit message last.
AnswersInv ==
    /\ spc \in {"token", "password", "listen", "accept"} =>
           Unasked /\ toServer = << >> /\ stdin = "none"
    /\ spc = "handshake" =>
           /\ stdin = "none"
           /\ hpc \in {"prepare", "run", "wait", "exit"} => toServer # << >>
           /\ toServer # << >> => toServer[1].name = "true"
    /\ \A i \in 1..Len(toServer) :
           toServer[i].name = "true" => i = 1 /\ spc # "relay"
    /\ \A i \in 1..Len(toServer) :
           toServer[i].name = "exit" =>
               /\ i = Len(toServer)
               /\ hpc = "ended" /\ child = "ended" /\ toServer[i].data = code

\* The code of the command is on its way or was returned, or its loss has a
\* reason.
ExitInv ==
    /\ Running /\ hpc = "ended" /\ killed = {} /\ child = "ended" =>
           \/ toHelper # << >>
           \/ toServer # << >> /\ toServer[Len(toServer)].name = "exit"
    /\ result = Lost /\ killed = {} =>
           \/ Unasked
           \/ hpc = "ended" /\ (child = "ended" => toHelper # << >>)
    /\ result \in Codes => child = "ended" /\ result = code

\* The token is there before su goes on.
AcquiredInv == tpc # "acquired" => spc \in {"token", "returned"} /\ spawn = "none"

\* What the types do not say.
DataInv == IsSequence(toServer) /\ tail \in Seq(0..255)

IInv ==
    /\ TypeOK /\ SpawnErrorKnown /\ DataInv
    /\ SpawnInv /\ ConnInv /\ HelperInv /\ AnswersInv /\ ExitInv
    /\ TokenInv /\ AcquiredInv

-----------------------------------------------------------------------------
(* Lemmas about queues. *)

LEMMA OwnRange ==
    ASSUME NEW S, NEW q \in Seq(S)
    PROVE  q \in Seq(Range(q))
<1>1. /\ Len(q) \in Nat /\ DOMAIN q = 1..Len(q)
      /\ q \in [1..Len(q) -> S]
  BY LenProperties
<1>2. \A i \in 1..Len(q) : q[i] \in Range(q)
  BY <1>1 DEF Range
<1>3. q \in [1..Len(q) -> Range(q)]
  BY <1>1, <1>2
<1>4. QED
  BY <1>1, <1>3, SeqDef

LEMMA SequenceLength ==
    ASSUME NEW q, IsSequence(q)
    PROVE  /\ Len(q) \in Nat /\ DOMAIN q = 1..Len(q)
           /\ Len(q) = 0 <=> q = << >>
<1> DEFINE S == Range(q)
<1>1. q \in Seq(S)
  BY DEF IsSequence
<1> HIDE DEF S
<1>2. QED
  BY <1>1, LenProperties, EmptySeq

LEMMA NoneIsSequence == IsSequence(<< >>)
BY EmptySeq DEF IsSequence

LEMMA SequenceAppend ==
    ASSUME NEW q, IsSequence(q), NEW m
    PROVE  /\ IsSequence(Append(q, m))
           /\ Append(q, m) # << >>
           /\ Len(Append(q, m)) = Len(q) + 1
           /\ \A i \in 1..Len(q) : Append(q, m)[i] = q[i]
           /\ Append(q, m)[Len(q) + 1] = m
<1> DEFINE S == Range(q) \cup {m}
           r == Append(q, m)
<1>1. q \in Seq(Range(q)) /\ Range(q) \subseteq S /\ m \in S
  BY DEF IsSequence
<1> HIDE DEF S
<1>2. q \in Seq(S)
  BY <1>1, SeqMonotonic
<1>3. /\ r \in Seq(S) /\ r # << >>
      /\ Len(r) = Len(q) + 1 /\ Len(q) \in Nat
      /\ \A i \in 1..Len(q) : r[i] = q[i]
      /\ r[Len(q) + 1] = m
  BY <1>1, <1>2, AppendProperties, LenProperties
<1> HIDE DEF r
<1>4. r \in Seq(Range(r))
  BY <1>3, OwnRange
<1>5. QED
  BY <1>3, <1>4 DEF IsSequence, r

LEMMA SequenceTail ==
    ASSUME NEW q, IsSequence(q), q # << >>
    PROVE  /\ IsSequence(Tail(q))
           /\ Len(Tail(q)) = Len(q) - 1
           /\ \A i \in 1..Len(Tail(q)) : Tail(q)[i] = q[i + 1]
           /\ Head(q) = q[1]
<1> DEFINE S == Range(q)
           r == Tail(q)
<1>1. q \in Seq(S)
  BY DEF IsSequence
<1> HIDE DEF S
<1>2. /\ r \in Seq(S)
      /\ Len(r) = Len(q) - 1
      /\ \A i \in 1..Len(r) : r[i] = q[i + 1]
  BY <1>1, HeadTailProperties
<1>3. Head(q) = q[1]
  OBVIOUS
<1> HIDE DEF r
<1>4. r \in Seq(Range(r))
  BY <1>2, OwnRange
<1>5. QED
  BY <1>2, <1>3, <1>4 DEF IsSequence, r
-----------------------------------------------------------------------------
(* What msgWriter keeps back. *)

\* The last place of a set of places among the last three.
LEMMA LastPlace ==
    ASSUME NEW n \in Nat, NEW S \in SUBSET (1..n), S # {},
           \A i \in S : i >= n - 2
    PROVE  \E i \in S : \A j \in S : j <= i
<1>1. CASE n \in S
  BY <1>1
<1>2. CASE n \notin S /\ n - 1 \in S
  BY <1>2
<1>3. CASE n \notin S /\ n - 1 \notin S
  <2>1. PICK i \in S : TRUE
    OBVIOUS
  <2>2. \A j \in S : j = n - 2
    BY <1>3
  <2>3. QED
    BY <2>1, <2>2
<1>4. QED
  BY <1>1, <1>2, <1>3

\* The bytes kept back are the beginning of a character at the end of what was
\* written: there are at most three of them.
LEMMA KeepsLittle ==
    ASSUME NEW fromCP, NEW kept \in Seq(0..255), NEW p \in Seq(0..255)
    PROVE  /\ MsgWrite(fromCP, kept, p).tail \in Seq(0..255)
           /\ Len(MsgWrite(fromCP, kept, p).tail) <= 3
<1> DEFINE buf == kept \o p
           n == Len(buf)
           at == IF CutOff(buf) = {} THEN n + 1
                 ELSE CHOOSE i \in CutOff(buf) : \A j \in CutOff(buf) : j <= i
           rest == SubSeq(buf, at, n)
<1>1. buf \in Seq(0..255) /\ n \in Nat
  BY ConcatProperties, LenProperties
<1>2. at \in 1 .. n + 1 /\ at >= n - 2
  <2>1. CASE CutOff(buf) = {}
    BY <1>1, <2>1
  <2>2. CASE CutOff(buf) # {}
    <3>1. /\ CutOff(buf) \in SUBSET (1..n)
          /\ \A i \in CutOff(buf) : i >= n - 2
      BY <1>1 DEF CutOff
    <3>2. \E i \in CutOff(buf) : \A j \in CutOff(buf) : j <= i
      BY <1>1, <2>2, <3>1, LastPlace
    <3>3. at \in CutOff(buf)
      BY <2>2, <3>2
    <3>4. QED
      BY <1>1, <3>1, <3>3
  <2>3. QED
    BY <2>1, <2>2
<1>3. splitIncompleteUTF8Tail(buf).incomplete = rest
  BY DEF splitIncompleteUTF8Tail
<1>4. MsgWrite(fromCP, kept, p).tail \in {<< >>, rest}
  BY <1>3 DEF MsgWrite
<1> HIDE DEF buf, n, at
<1>5. /\ rest \in Seq(0..255)
      /\ Len(rest) = IF at <= n THEN n - at + 1 ELSE 0
  <2>1. \A i \in at..n : buf[i] \in 0..255
    BY <1>1, <1>2, ElementOfSeq DEF n
  <2>2. QED
    BY <1>1, <1>2, <2>1, SubSeqProperties
<1>6. << >> \in Seq(0..255) /\ Len(<< >>) <= 3
  BY EmptySeq
<1> HIDE DEF rest
<1>7. Len(rest) <= 3
  BY <1>1, <1>2, <1>5
<1>8. QED
  BY <1>4, <1>5, <1>6, <1>7, Zenon
-----------------------------------------------------------------------------
(* What most steps leave alone: the token, the text and what was copied.      *)

LEMMA TokenKept == TokenInv /\ UNCHANGED tokenVars => TokenInv' /\ UNCHANGED tpc
BY TokenStepInv DEF tokenVars

LEMMA TokenMoved == TokenInv /\ (SuAcquires \/ ServiceMoves) => TokenInv'
BY TokenStepInv DEF TokenNext

LEMMA TextSize ==
    ASSUME call \in Calls
    PROVE  /\ text.bytes \in Seq(0..255) /\ Len(text.bytes) \in Nat
           /\ text.cuts \subseteq 1..Len(text.bytes)
BY ConstAssumption, LenProperties DEF text

LEMMA TextKept == UNCHANGED call => text' = text
BY DEF text

\* What holds after a step that leaves them alone.
Framed ==
    /\ TokenInv /\ TokenTypeOK
    /\ call \in Calls
    /\ tail \in Seq(0..255) /\ Len(tail) <= 3
    /\ copied \in 0..written /\ written \in 0..Len(text.bytes)

LEMMA Frame ==
    ASSUME IInv, UNCHANGED <<tokenVars, call, tail, copied, written>>
    PROVE  Framed' /\ tpc' = tpc
<1>1. TokenInv' /\ tpc' = tpc
  BY TokenKept DEF IInv
<1>2. TokenTypeOK'
  BY <1>1 DEF TokenInv
<1>3. text' = text
  BY TextKept
<1>4. QED
  BY <1>1, <1>2, <1>3 DEF IInv, TypeOK, DataInv, Framed
-----------------------------------------------------------------------------
(* The goroutine that starts the helper and closes the listener, and the one   *)
(* that accepts.                                                              *)

LEMMA StartHelperInv == IInv /\ StartHelper => IInv'
<1> SUFFICES ASSUME IInv, StartHelper PROVE IInv'
  OBVIOUS
<1> USE DEF StartHelper, OnlySpawn, childVars
<1>1. Framed' /\ tpc' = tpc
  BY Frame
<1>2. TypeOK'
  BY <1>1, ConstAssumption DEF IInv, TypeOK, Framed
<1>3. SpawnErrorKnown' /\ DataInv'
  BY <1>1 DEF IInv, SpawnErrorKnown, DataInv, Framed
<1>4. SpawnInv' /\ ConnInv' /\ AcquiredInv'
  BY <1>1, ConstAssumption DEF IInv, TypeOK, SpawnInv, ConnInv, AcquiredInv, Running
<1>5. HelperInv' /\ AnswersInv' /\ ExitInv'
  BY ConstAssumption DEF IInv, TypeOK, SpawnInv, ConnInv, HelperInv, AnswersInv,
     ExitInv, Unasked, Running
<1>6. QED
  BY <1>1, <1>2, <1>3, <1>4, <1>5 DEF IInv, Framed

LEMMA StartHelperFailsInv == IInv /\ StartHelperFails => IInv'
<1> SUFFICES ASSUME IInv, StartHelperFails PROVE IInv'
  OBVIOUS
<1> USE DEF StartHelperFails, OnlySpawn, childVars
<1>1. Framed' /\ tpc' = tpc
  BY Frame
<1>2. TypeOK'
  BY <1>1, ConstAssumption DEF IInv, TypeOK, Framed
<1>3. SpawnErrorKnown' /\ DataInv'
  BY <1>1 DEF IInv, SpawnErrorKnown, DataInv, Framed
<1>4. SpawnInv' /\ ConnInv' /\ AcquiredInv'
  BY <1>1, ConstAssumption DEF IInv, TypeOK, SpawnInv, ConnInv, AcquiredInv, Running
<1>5. HelperInv' /\ AnswersInv' /\ ExitInv'
  BY ConstAssumption DEF IInv, TypeOK, SpawnInv, ConnInv, HelperInv, AnswersInv,
     ExitInv, Unasked, Running
<1>6. QED
  BY <1>1, <1>2, <1>3, <1>4, <1>5 DEF IInv, Framed

LEMMA HelperGoneInv == IInv /\ HelperGone => IInv'
<1> SUFFICES ASSUME IInv, HelperGone PROVE IInv'
  OBVIOUS
<1> USE DEF HelperGone, OnlySpawn, childVars
<1>1. Framed' /\ tpc' = tpc
  BY Frame
<1>2. TypeOK'
  BY <1>1, ConstAssumption DEF IInv, TypeOK, Framed
<1>3. SpawnErrorKnown' /\ DataInv'
  BY <1>1 DEF IInv, SpawnErrorKnown, DataInv, Framed
<1>4. SpawnInv' /\ ConnInv' /\ AcquiredInv'
  BY <1>1, ConstAssumption DEF IInv, TypeOK, SpawnInv, ConnInv, AcquiredInv, Running
<1>5. HelperInv' /\ AnswersInv' /\ ExitInv'
  BY ConstAssumption DEF IInv, TypeOK, SpawnInv, ConnInv, HelperInv, AnswersInv,
     ExitInv, Unasked, Running
<1>6. QED
  BY <1>1, <1>2, <1>3, <1>4, <1>5 DEF IInv, Framed

LEMMA SendSpawnErrInv == IInv /\ SendSpawnErr => IInv'
<1> SUFFICES ASSUME IInv, SendSpawnErr PROVE IInv'
  OBVIOUS
<1> USE DEF SendSpawnErr, OnlySpawn, childVars
<1>1. Framed' /\ tpc' = tpc
  BY Frame
<1>2. TypeOK'
  BY <1>1, ConstAssumption DEF IInv, TypeOK, Framed
<1>3. SpawnErrorKnown' /\ DataInv'
  BY <1>1 DEF IInv, SpawnErrorKnown, DataInv, Framed
<1>4. SpawnInv' /\ ConnInv' /\ AcquiredInv'
  BY <1>1, ConstAssumption DEF IInv, TypeOK, SpawnInv, ConnInv, AcquiredInv, Running
<1>5. HelperInv' /\ AnswersInv' /\ ExitInv'
  BY ConstAssumption DEF IInv, TypeOK, SpawnInv, ConnInv, HelperInv, AnswersInv,
     ExitInv, Unasked, Running
<1>6. QED
  BY <1>1, <1>2, <1>3, <1>4, <1>5 DEF IInv, Framed

LEMMA CloseListenerInv == IInv /\ CloseListener => IInv'
<1> SUFFICES ASSUME IInv, CloseListener PROVE IInv'
  OBVIOUS
<1> USE DEF CloseListener, OnlySpawn, childVars
<1>1. Framed' /\ tpc' = tpc
  BY Frame
<1>2. TypeOK'
  BY <1>1, ConstAssumption DEF IInv, TypeOK, Framed
<1>3. SpawnErrorKnown' /\ DataInv'
  BY <1>1 DEF IInv, SpawnErrorKnown, DataInv, Framed
<1>4. SpawnInv' /\ ConnInv' /\ AcquiredInv'
  BY <1>1, ConstAssumption DEF IInv, TypeOK, SpawnInv, ConnInv, AcquiredInv, Running
<1>5. HelperInv' /\ AnswersInv' /\ ExitInv'
  BY ConstAssumption DEF IInv, TypeOK, SpawnInv, ConnInv, HelperInv, AnswersInv,
     ExitInv, Unasked, Running
<1>6. QED
  BY <1>1, <1>2, <1>3, <1>4, <1>5 DEF IInv, Framed

LEMMA AcceptInv == IInv /\ Accept => IInv'
<1> SUFFICES ASSUME IInv, Accept PROVE IInv'
  OBVIOUS
<1> USE DEF Accept, helperVars, childVars
<1>1. Framed' /\ tpc' = tpc
  BY Frame
<1>2. TypeOK'
  BY <1>1, ConstAssumption DEF IInv, TypeOK, Framed
<1>3. SpawnErrorKnown' /\ DataInv'
  BY <1>1 DEF IInv, SpawnErrorKnown, DataInv, Framed
<1>4. SpawnInv' /\ ConnInv' /\ AcquiredInv'
  BY <1>1, ConstAssumption DEF IInv, TypeOK, SpawnInv, ConnInv, AcquiredInv, Running
<1>5. HelperInv' /\ AnswersInv' /\ ExitInv'
  BY ConstAssumption DEF IInv, TypeOK, SpawnInv, ConnInv, HelperInv, AnswersInv,
     ExitInv, Unasked, Running
<1>6. QED
  BY <1>1, <1>2, <1>3, <1>4, <1>5 DEF IInv, Framed
-----------------------------------------------------------------------------
(* su gives up: then the helper was not asked for anything, or has lost the   *)
(* connection with something unread, or somebody was killed.                  *)

Excused ==
    \/ killed # {}
    \/ Unasked
    \/ hpc = "ended" /\ (child = "ended" => toHelper # << >>)

LEMMA GivesUpInv ==
    ASSUME IInv, Running, Excused',
           NEW why, why # "accept error", GivesUp(why),
           UNCHANGED <<tokenVars, call, helperVars, childVars, toHelper, toServer>>,
           killed \subseteq killed', killed' \subseteq Env
    PROVE  IInv'
<1> USE DEF helperVars, childVars
<1>1. Framed' /\ tpc' = tpc
  BY Frame
<1>2. /\ spc' = "returned" /\ result' = Lost /\ ~Running'
      /\ lis' = IF lis = "none" THEN "none" ELSE "closed"
      /\ conn' = IF conn = "none" THEN "none" ELSE "closed"
      /\ told' # "accept error"
      /\ UNCHANGED <<spawn, spawnErr, ch, typed, stdin, pressed, shown>>
      /\ Lost # None /\ Lost \notin Codes
  BY ConstAssumption DEF GivesUp, Returns, ConnGone, Running
<1>3. TypeOK'
  <2>1. /\ spc' = "returned" /\ result' \in Codes \cup {None, Lost} /\ result' # None
        /\ lis' \in {"none", "open", "closed"}
        /\ conn' \in {"none", "queued", "open", "closed"}
    BY <1>2
  <2>2. /\ spawn' \in {"none", "calling", "waiting", "failed", "ended", "sent", "done"}
        /\ spawnErr' \in {None, "failed", "ended"}
        /\ ch' \in {None, "conn", "err"} /\ stdin' \in {"none", "read", "done"}
        /\ typed' \in 0..MaxIn /\ pressed' \in 0..MaxSig
    BY <1>2 DEF IInv, TypeOK
  <2>3. /\ toHelper' \in Seq({"token", "stdin", "close", "ctrlc"})
        /\ \A i \in DOMAIN toServer' :
              toServer'[i].name \in {"true", "stdout", "error", "exit"}
    BY DEF IInv, TypeOK
  <2>4. /\ hpc' \in {"none", "dial", "token", "prepare", "run", "wait", "exit", "ended"}
        /\ reader' \in {"none", "read", "blocked", "done"}
        /\ copier' \in {"none", "copy", "failed"}
        /\ child' \in {"none", "running", "ended"}
        /\ code' \in Codes \cup {None}
    BY DEF IInv, TypeOK
  <2>5. QED
    BY <1>1, <2>1, <2>2, <2>3, <2>4 DEF TypeOK, Framed
<1>4. SpawnErrorKnown' /\ DataInv'
  BY <1>1, <1>2 DEF IInv, SpawnErrorKnown, DataInv, Framed
<1>5. SpawnInv' /\ ConnInv' /\ AcquiredInv'
  BY <1>1, <1>2 DEF IInv, SpawnInv, ConnInv, AcquiredInv
<1>6. HelperInv' /\ AnswersInv'
  BY <1>2 DEF IInv, HelperInv, AnswersInv
<1>7. ExitInv'
  BY <1>2 DEF IInv, ExitInv, Excused, Unasked
<1>8. QED
  BY <1>1, <1>3, <1>4, <1>5, <1>6, <1>7 DEF IInv, Framed

\* Before the helper is accepted it was not asked for anything.
LEMMA NotYetAsked ==
    IInv /\ spc \in {"token", "password", "listen", "accept"} => Unasked
BY DEF IInv, AnswersInv

\* When the helper has nothing more to say, its exit message was lost with
\* something unread, or it was killed before it could send one.
LEMMA SilenceExcused ==
    IInv /\ Running /\ spc \in {"handshake", "relay"} /\ HelperSilent => Excused
BY DEF IInv, ConnInv, HelperInv, ExitInv, Excused, HelperSilent, Running

LEMMA TimeoutInv == IInv /\ Timeout => IInv'
<1> SUFFICES ASSUME IInv, Timeout PROVE IInv'
  OBVIOUS
<1>1. Running /\ Excused'
  BY NotYetAsked DEF Timeout, Excused, Unasked, helperVars, childVars
<1>2. killed' \subseteq Env
  BY DEF IInv, TypeOK, Timeout
<1>3. QED
  BY <1>1, <1>2, GivesUpInv DEF Timeout

LEMMA KillSuInv == IInv /\ KillSu => IInv'
<1> SUFFICES ASSUME IInv, KillSu PROVE IInv'
  OBVIOUS
<1>1. Running /\ Excused'
  BY DEF KillSu, Excused
<1>2. killed \subseteq killed' /\ killed' \subseteq Env
  BY DEF IInv, TypeOK, KillSu
<1>3. QED
  BY <1>1, <1>2, GivesUpInv DEF KillSu

LEMMA PasswordInv == IInv /\ Password => IInv'
<1> SUFFICES ASSUME IInv, Password PROVE IInv'
  OBVIOUS
<1>1. CASE GivesUp("no user")
  <2>1. Running /\ Excused'
    BY NotYetAsked DEF Password, Excused, Unasked, helperVars, childVars
  <2>2. killed' \subseteq Env
    BY DEF IInv, TypeOK, Password
  <2>3. QED
    BY <1>1, <2>1, <2>2, GivesUpInv DEF Password
<1>2. CASE ~ GivesUp("no user")
  <2> USE DEF helperVars, childVars
  <2>1. Framed' /\ tpc' = tpc
    BY Frame DEF Password
  <2>2. /\ spc = "password" /\ spc' = "listen" /\ typed' \in 0..MaxIn
        /\ UNCHANGED <<result, told, spawn, spawnErr, lis, ch, stdin, pressed,
                       shown, conn, toHelper, toServer, helperVars, childVars,
                       killed>>
    BY <1>2 DEF Password
  <2>3. TypeOK'
    BY <2>1, <2>2 DEF IInv, TypeOK, Framed
  <2>4. SpawnErrorKnown' /\ DataInv'
    BY <2>1, <2>2 DEF IInv, SpawnErrorKnown, DataInv, Framed
  <2>5. SpawnInv' /\ ConnInv' /\ AcquiredInv'
    BY <2>1, <2>2 DEF IInv, SpawnInv, ConnInv, AcquiredInv, Running
  <2>6. HelperInv' /\ AnswersInv' /\ ExitInv'
    BY <2>2 DEF IInv, HelperInv, AnswersInv, ExitInv, Unasked, Running
  <2>7. QED
    BY <2>1, <2>3, <2>4, <2>5, <2>6 DEF IInv, Framed
<1>3. QED
  BY <1>1, <1>2

LEMMA ListenInv == IInv /\ Listen => IInv'
<1> SUFFICES ASSUME IInv, Listen PROVE IInv'
  OBVIOUS
<1>1. CASE GivesUp("no listener")
  <2>1. Running /\ Excused'
    BY NotYetAsked DEF Listen, Excused, Unasked, helperVars, childVars
  <2>2. killed' \subseteq Env
    BY DEF IInv, TypeOK, Listen
  <2>3. QED
    BY <1>1, <2>1, <2>2, GivesUpInv DEF Listen
<1>2. CASE ~ GivesUp("no listener")
  <2> USE DEF helperVars, childVars
  <2>1. Framed' /\ tpc' = tpc
    BY Frame DEF Listen
  <2>2. /\ Running /\ spc = "listen"
        /\ spc' = "accept" /\ lis' = "open" /\ spawn' = "calling"
        /\ UNCHANGED <<result, told, spawnErr, ch, typed, stdin, pressed,
                       shown, conn, toHelper, toServer, helperVars, childVars,
                       killed>>
    BY <1>2 DEF Listen
  <2>3. TypeOK'
    BY <2>1, <2>2 DEF IInv, TypeOK, Framed
  <2>4. SpawnErrorKnown' /\ DataInv'
    BY <2>1, <2>2 DEF IInv, SpawnErrorKnown, DataInv, Framed
  <2>5. SpawnInv' /\ ConnInv' /\ AcquiredInv'
    BY <2>1, <2>2, ConstAssumption DEF IInv, SpawnInv, ConnInv, AcquiredInv, Running
  <2>6. HelperInv' /\ AnswersInv' /\ ExitInv'
    BY <2>2 DEF IInv, HelperInv, AnswersInv, ExitInv, Unasked, Running
  <2>7. QED
    BY <2>1, <2>3, <2>4, <2>5, <2>6 DEF IInv, Framed
<1>3. QED
  BY <1>1, <1>2

\* The token is acquired, or su goes on, or it gives up.
LEMMA AcquireInv == IInv /\ Acquire => IInv'
<1> SUFFICES ASSUME IInv, Acquire PROVE IInv'
  OBVIOUS
<1>1. CASE SuAcquires /\ UNCHANGED sessionVars
  <2> USE DEF sessionVars, suVars, connVars, helperVars, childVars
  <2>1. /\ TokenInv' /\ TokenTypeOK' /\ text' = text
        /\ spc = "token" /\ spawn = "none"
    BY <1>1, TokenMoved, TextKept DEF IInv, TokenInv, SpawnInv, Acquire
  <2>2. TypeOK'
    BY <1>1, <2>1 DEF IInv, TypeOK
  <2>3. QED
    BY <1>1, <2>1, <2>2 DEF IInv, SpawnErrorKnown, DataInv, SpawnInv, ConnInv,
       HelperInv, AnswersInv, ExitInv, AcquiredInv, Unasked, Running
<1>2. CASE /\ tpc = "acquired" /\ spc' \in {"password", "listen"}
           /\ UNCHANGED <<result, told, spawn, spawnErr, lis, ch, typed, stdin,
                          pressed, shown, connVars>>
           /\ UNCHANGED <<tokenVars, call, helperVars, childVars, killed>>
  <2> USE DEF connVars, helperVars, childVars
  <2>1. Framed' /\ tpc' = "acquired"
    BY <1>2, Frame
  <2>2. spc = "token" /\ Running
    BY DEF Acquire
  <2>3. TypeOK'
    BY <1>2, <2>1, <2>2 DEF IInv, TypeOK, Framed, Running
  <2>4. SpawnErrorKnown' /\ DataInv'
    BY <1>2, <2>1 DEF IInv, SpawnErrorKnown, DataInv, Framed
  <2>5. SpawnInv' /\ ConnInv' /\ AcquiredInv'
    BY <1>2, <2>1, <2>2 DEF IInv, SpawnInv, ConnInv, AcquiredInv, Running
  <2>6. HelperInv' /\ AnswersInv' /\ ExitInv'
    BY <1>2, <2>2 DEF IInv, HelperInv, AnswersInv, ExitInv, Unasked, Running
  <2>7. QED
    BY <2>1, <2>3, <2>4, <2>5, <2>6 DEF IInv, Framed
<1>3. CASE /\ GivesUp("no token")
           /\ UNCHANGED <<toHelper, toServer>>
           /\ UNCHANGED <<tokenVars, call, helperVars, childVars, killed>>
  <2>1. Running /\ Excused'
    BY <1>3, NotYetAsked DEF Acquire, Excused, Unasked, helperVars, childVars
  <2>2. killed' \subseteq Env
    BY <1>3 DEF IInv, TypeOK
  <2>3. QED
    BY <1>3, <2>1, <2>2, GivesUpInv
<1>4. QED
  BY <1>1, <1>2, <1>3 DEF Acquire

LEMMA ServiceInv == IInv /\ Service => IInv'
<1> SUFFICES ASSUME IInv, Service PROVE IInv'
  OBVIOUS
<1> USE DEF sessionVars, suVars, connVars, helperVars, childVars
<1>1. /\ TokenInv' /\ TokenTypeOK' /\ text' = text /\ tpc' = tpc
      /\ UNCHANGED sessionVars
  BY TokenMoved, TextKept DEF IInv, TokenInv, Service, ServiceMoves
<1>2. TypeOK'
  BY <1>1 DEF IInv, TypeOK
<1>3. SpawnErrorKnown' /\ DataInv' /\ SpawnInv' /\ ConnInv' /\ AcquiredInv'
  BY <1>1 DEF IInv, SpawnErrorKnown, DataInv, SpawnInv, ConnInv, AcquiredInv, Running
<1>4. HelperInv' /\ AnswersInv' /\ ExitInv'
  BY <1>1 DEF IInv, HelperInv, AnswersInv, ExitInv, Unasked, Running
<1>5. QED
  BY <1>1, <1>2, <1>3, <1>4 DEF IInv

-----------------------------------------------------------------------------
(* What su sends and receives. *)

ToHelperMessages == {"token", "stdin", "close", "ctrlc"}

LEMMA Sent ==
    ASSUME IInv, NEW m \in ToHelperMessages, toHelper' = Append(toHelper, m)
    PROVE  toHelper' \in Seq(ToHelperMessages) /\ toHelper' # << >>
BY AppendProperties DEF IInv, TypeOK, ToHelperMessages

\* su sends no earlier than it has accepted the helper, and what the helper was
\* sent beyond what it reads is an excuse.
LEMMA SendInv ==
    ASSUME IInv, Running, spc \in {"accept", "relay"}, ch = "conn",
           toHelper' \in Seq(ToHelperMessages), toHelper' # << >>,
           spc' = (IF spc = "accept" THEN "handshake" ELSE "relay"),
           typed' \in 0..MaxIn, pressed' \in 0..MaxSig,
           stdin' \in {"none", "read", "done"},
           spc = "accept" => stdin' = stdin,
           UNCHANGED <<tokenVars, call, result, told, spawn, spawnErr,
                       lis, ch, shown, conn, toServer, helperVars, childVars,
                       killed>>
    PROVE  IInv'
<1> USE DEF helperVars, childVars
<1>1. Framed' /\ tpc' = tpc
  BY Frame
<1>2. spc' \in {"handshake", "relay"}
  OBVIOUS
<1>3. TypeOK'
  BY <1>1, <1>2 DEF IInv, TypeOK, Framed, ToHelperMessages, Running
<1>4. SpawnErrorKnown' /\ DataInv'
  BY <1>1 DEF IInv, SpawnErrorKnown, DataInv, Framed
<1>5. SpawnInv' /\ ConnInv' /\ AcquiredInv'
  BY <1>1, <1>2 DEF IInv, SpawnInv, ConnInv, AcquiredInv, Running
<1>6. HelperInv' /\ AnswersInv'
  BY DEF IInv, HelperInv, AnswersInv, Unasked, Running
<1>7. ExitInv'
  BY ConstAssumption DEF IInv, ExitInv, Running
<1>8. QED
  BY <1>1, <1>3, <1>4, <1>5, <1>6, <1>7 DEF IInv, Framed

LEMMA AcceptedInv == IInv /\ Accepted => IInv'
<1> SUFFICES ASSUME IInv, Accepted PROVE IInv'
  OBVIOUS
<1>1. Running /\ spc = "accept"
  BY DEF Accepted
<1>2. CASE /\ ch = "conn" /\ spc' = "handshake"
           /\ toHelper' = Append(toHelper, "token")
           /\ UNCHANGED <<result, told, spawn, spawnErr, lis, ch, typed, stdin,
                          pressed, shown, conn>>
  <2>1. toHelper' \in Seq(ToHelperMessages) /\ toHelper' # << >>
    BY <1>2, Sent DEF ToHelperMessages
  <2>2. /\ typed' \in 0..MaxIn /\ pressed' \in 0..MaxSig
        /\ stdin' \in {"none", "read", "done"}
    BY <1>2 DEF IInv, TypeOK
  <2>3. QED
    BY <1>1, <1>2, <2>1, <2>2, SendInv DEF Accepted
<1>3. CASE /\ ch = "err"
           /\ GivesUp(CASE spawnErr = None -> "accept error"
                        [] spawnErr = "failed" -> "spawn error"
                        [] spawnErr = "ended" -> "did not connect back")
           /\ UNCHANGED toHelper
  \* The listener was closed by the goroutine that had sent its error before.
  <2>1. spawnErr \in {"failed", "ended"}
    BY <1>1, <1>3 DEF IInv, TypeOK, ConnInv, SpawnInv
  <2>2. PICK why : why # "accept error" /\ GivesUp(why)
    <3>1. CASE spawnErr = "failed"
      BY <1>3, <3>1, ConstAssumption
    <3>2. CASE spawnErr = "ended"
      BY <1>3, <3>2, ConstAssumption
    <3>3. QED
      BY <2>1, <3>1, <3>2
  <2>3. Excused' /\ killed' \subseteq Env
    BY <1>1, <1>3, NotYetAsked DEF Accepted, Excused, Unasked, helperVars, childVars,
       IInv, TypeOK
  <2>4. QED
    BY <1>1, <1>3, <2>2, <2>3, GivesUpInv DEF Accepted
<1>4. QED
  BY <1>2, <1>3 DEF Accepted

\* Standard input and Ctrl+C are read once the helper has answered.
LEMMA Relaying ==
    IInv /\ Running /\ (spc = "relay" \/ stdin = "read") => spc = "relay" /\ ch = "conn"
BY DEF IInv, TypeOK, AnswersInv, ConnInv, Running

LEMMA SendCtrlCInv == IInv /\ SendCtrlC => IInv'
<1> SUFFICES ASSUME IInv, SendCtrlC PROVE IInv'
  OBVIOUS
<1>1. toHelper' \in Seq(ToHelperMessages) /\ toHelper' # << >>
  BY Sent DEF SendCtrlC, ToHelperMessages
<1>2. /\ typed' \in 0..MaxIn /\ pressed' \in 0..MaxSig
      /\ stdin' \in {"none", "read", "done"}
  BY ConstAssumption DEF IInv, TypeOK, SendCtrlC
<1>3. QED
  BY <1>1, <1>2, Relaying, SendInv DEF SendCtrlC, OnlyInput

LEMMA SendStdinInv == IInv /\ SendStdin => IInv'
<1> SUFFICES ASSUME IInv, SendStdin PROVE IInv'
  OBVIOUS
<1>1. toHelper' \in Seq(ToHelperMessages) /\ toHelper' # << >>
  BY Sent DEF SendStdin, ToHelperMessages
<1>2. /\ typed' \in 0..MaxIn /\ pressed' \in 0..MaxSig
      /\ stdin' \in {"none", "read", "done"}
  BY ConstAssumption DEF IInv, TypeOK, SendStdin
<1>3. QED
  BY <1>1, <1>2, Relaying, SendInv DEF SendStdin, OnlyInput

LEMMA StdinEndsInv == IInv /\ StdinEnds => IInv'
<1> SUFFICES ASSUME IInv, StdinEnds PROVE IInv'
  OBVIOUS
<1>1. spc = "relay" /\ ch = "conn" /\ Running
  BY Relaying DEF StdinEnds
<1>2. CASE toHelper' = Append(toHelper, "close")
  <2>1. toHelper' \in Seq(ToHelperMessages) /\ toHelper' # << >>
    BY <1>2, Sent DEF ToHelperMessages
  <2>2. /\ typed' \in 0..MaxIn /\ pressed' \in 0..MaxSig
        /\ stdin' \in {"none", "read", "done"}
    BY DEF IInv, TypeOK, StdinEnds
  <2>3. QED
    BY <1>1, <2>1, <2>2, SendInv DEF StdinEnds, OnlyInput
<1>3. CASE UNCHANGED toHelper
  <2> USE <1>3 DEF StdinEnds, OnlyInput, helperVars, childVars
  <2>1. Framed' /\ tpc' = tpc
    BY Frame
  <2>2. TypeOK'
    BY <2>1 DEF IInv, TypeOK, Framed, Running
  <2>3. SpawnErrorKnown' /\ DataInv' /\ SpawnInv' /\ ConnInv' /\ AcquiredInv'
    BY <2>1 DEF IInv, SpawnErrorKnown, DataInv, Framed, SpawnInv, ConnInv,
       AcquiredInv, Running
  <2>4. HelperInv' /\ AnswersInv' /\ ExitInv'
    BY <1>1 DEF IInv, HelperInv, AnswersInv, ExitInv, Unasked, Running
  <2>5. QED
    BY <2>1, <2>2, <2>3, <2>4 DEF IInv, Framed
<1>4. QED
  BY <1>2, <1>3 DEF StdinEnds

-----------------------------------------------------------------------------
(* The messages of the helper. *)

Names == {"true", "stdout", "error", "exit"}

LEMMA Received ==
    ASSUME IInv, toServer # << >>, toServer' = Tail(toServer)
    PROVE  /\ IsSequence(toServer')
           /\ Len(toServer) \in Nat \ {0} /\ Len(toServer') = Len(toServer) - 1
           /\ toServer' = << >> <=> Len(toServer) = 1
           /\ \A i \in 1..Len(toServer') : toServer'[i] = toServer[i + 1]
           /\ Head(toServer) = toServer[1] /\ toServer[1].name \in Names
           /\ \A i \in DOMAIN toServer' : toServer'[i].name \in Names
<1>1. IsSequence(toServer) /\ \A i \in DOMAIN toServer : toServer[i].name \in Names
  BY DEF IInv, DataInv, TypeOK, Names
<1>2. /\ IsSequence(toServer')
      /\ Len(toServer') = Len(toServer) - 1
      /\ \A i \in 1..Len(toServer') : toServer'[i] = toServer[i + 1]
      /\ Head(toServer) = toServer[1]
  BY <1>1, SequenceTail
<1>3. /\ Len(toServer) \in Nat \ {0} /\ DOMAIN toServer = 1..Len(toServer)
      /\ DOMAIN toServer' = 1..Len(toServer')
      /\ toServer' = << >> <=> Len(toServer') = 0
  BY <1>1, <1>2, SequenceLength
<1>4. QED
  BY <1>1, <1>2, <1>3

LEMMA Answered ==
    ASSUME IInv, NEW m, m.name \in Names, ToServer(m)
    PROVE  /\ IsSequence(toServer')
           /\ \A i \in DOMAIN toServer' : toServer'[i].name \in Names
           /\ Len(toServer) \in Nat
           /\ ~Running => toServer' = toServer
           /\ Running => /\ toServer' # << >>
                         /\ Len(toServer') = Len(toServer) + 1
                         /\ \A i \in 1..Len(toServer) : toServer'[i] = toServer[i]
                         /\ toServer'[Len(toServer) + 1] = m
<1>1. IsSequence(toServer) /\ \A i \in DOMAIN toServer : toServer[i].name \in Names
  BY DEF IInv, DataInv, TypeOK, Names
<1>2. CASE Running
  <2>1. /\ IsSequence(toServer') /\ toServer' # << >>
        /\ Len(toServer') = Len(toServer) + 1
        /\ \A i \in 1..Len(toServer) : toServer'[i] = toServer[i]
        /\ toServer'[Len(toServer) + 1] = m
    BY <1>1, <1>2, SequenceAppend DEF ToServer
  <2>2. /\ Len(toServer) \in Nat /\ DOMAIN toServer = 1..Len(toServer)
        /\ DOMAIN toServer' = 1..Len(toServer')
    BY <1>1, <2>1, SequenceLength
  <2>3. \A i \in DOMAIN toServer' : toServer'[i].name \in Names
    <3> SUFFICES ASSUME NEW i \in 1..Len(toServer') PROVE toServer'[i].name \in Names
      BY <2>2
    <3>1. CASE i = Len(toServer) + 1
      BY <2>1, <3>1
    <3>2. CASE i # Len(toServer) + 1
      BY <1>1, <2>1, <2>2, <3>2
    <3>3. QED
      BY <3>1, <3>2
  <2>4. QED
    BY <1>2, <2>1, <2>2, <2>3
<1>3. CASE ~Running
  BY <1>1, <1>3, SequenceLength DEF ToServer
<1>4. QED
  BY <1>2, <1>3

LEMMA HandshakeInv == IInv /\ Handshake => IInv'
<1> SUFFICES ASSUME IInv, Handshake PROVE IInv'
  OBVIOUS
<1>1. Running /\ spc = "handshake"
  BY DEF Handshake
<1>2. CASE /\ toServer # << >> /\ toServer' = Tail(toServer)
           /\ spc' = "relay" /\ stdin' = "read"
           /\ UNCHANGED <<result, told, spawn, spawnErr, lis, ch, typed, pressed,
                          shown, conn>>
           /\ UNCHANGED <<tokenVars, call, toHelper, helperVars, childVars, killed>>
  <2> USE DEF helperVars, childVars
  <2>1. Framed' /\ tpc' = tpc
    BY <1>2, Frame
  <2>2. /\ IsSequence(toServer')
        /\ Len(toServer) \in Nat \ {0} /\ Len(toServer') = Len(toServer) - 1
        /\ toServer' = << >> <=> Len(toServer) = 1
        /\ \A i \in 1..Len(toServer') : toServer'[i] = toServer[i + 1]
        /\ \A i \in DOMAIN toServer' : toServer'[i].name \in Names
    BY <1>2, Received
  <2>3. TypeOK'
    BY <1>1, <1>2, <2>1, <2>2 DEF IInv, TypeOK, Framed, Names, Running
  <2>4. SpawnErrorKnown' /\ DataInv' /\ SpawnInv' /\ ConnInv' /\ AcquiredInv'
    BY <1>1, <1>2, <2>1, <2>2 DEF IInv, SpawnErrorKnown, DataInv, Framed, SpawnInv,
       ConnInv, AcquiredInv, Running
  <2>5. HelperInv'
    BY <1>2 DEF IInv, HelperInv
  \* The answer to the token was the first message.
  <2>6. toServer[1].name = "true"
    BY <1>1, <1>2 DEF IInv, AnswersInv
  <2>7. AnswersInv'
    <3>1. ASSUME NEW i \in 1..Len(toServer')
          PROVE  /\ toServer'[i].name # "true"
                 /\ toServer'[i].name = "exit" =>
                        /\ i = Len(toServer')
                        /\ hpc = "ended" /\ child = "ended" /\ toServer'[i].data = code
      <4>1. i + 1 \in 1..Len(toServer) /\ i + 1 # 1 /\ toServer'[i] = toServer[i + 1]
        BY <2>2
      <4>2. QED
        BY <2>2, <4>1 DEF IInv, AnswersInv
    <3>2. QED
      BY <1>2, <3>1 DEF AnswersInv
  <2>8. ExitInv'
    BY <1>1, <1>2, <2>2, <2>6, ConstAssumption DEF IInv, ExitInv, Running
  <2>9. QED
    BY <2>1, <2>3, <2>4, <2>5, <2>7, <2>8 DEF IInv, Framed
<1>3. CASE /\ HelperSilent /\ GivesUp("authentication failed")
           /\ UNCHANGED <<toServer, tokenVars, call, toHelper, helperVars, childVars,
                          killed>>
  <2>1. Excused' /\ killed' \subseteq Env
    BY <1>1, <1>3, SilenceExcused DEF Excused, Unasked, helperVars, childVars, IInv,
       TypeOK
  <2>2. QED
    BY <1>1, <1>3, <2>1, GivesUpInv
<1>4. QED
  BY <1>2, <1>3 DEF Handshake

LEMMA ReceiveInv == IInv /\ Receive => IInv'
<1> SUFFICES ASSUME IInv, Receive PROVE IInv'
  OBVIOUS
<1>1. Running /\ spc = "relay"
  BY DEF Receive
<1>2. CASE toServer # << >> /\ toServer' = Tail(toServer)
  <2> DEFINE m == Head(toServer)
  <2> USE DEF helperVars, childVars
  <2>1. /\ Framed' /\ tpc' = tpc
        /\ UNCHANGED <<tokenVars, call, toHelper, helperVars, childVars, killed>>
    BY Frame DEF Receive
  <2>2. /\ IsSequence(toServer')
        /\ Len(toServer) \in Nat \ {0} /\ Len(toServer') = Len(toServer) - 1
        /\ toServer' = << >> <=> Len(toServer) = 1
        /\ \A i \in 1..Len(toServer') : toServer'[i] = toServer[i + 1]
        /\ m = toServer[1] /\ m.name \in Names
        /\ \A i \in DOMAIN toServer' : toServer'[i].name \in Names
    BY <1>2, Received
  <2>3. m.name # "true"
    BY <1>1, <2>2 DEF IInv, AnswersInv
  <2>4. \A i \in 1..Len(toServer) :
            toServer[i].name = "exit" =>
                i = Len(toServer) /\ hpc = "ended" /\ child = "ended"
                /\ toServer[i].data = code
    BY DEF IInv, AnswersInv
  <2> HIDE DEF m
  <2>5. CASE m.name = "exit"
    \* It is the last message and tells the code.
    <3>1. Returns(m.data) /\ UNCHANGED <<told, shown>>
      BY <1>2, <2>5 DEF Receive, HelperSilent, m
    <3>2. /\ m.data = code /\ child = "ended" /\ hpc = "ended"
          /\ code \in Codes
      BY <2>2, <2>4, <2>5 DEF IInv, TypeOK, HelperInv
    <3>3. /\ spc' = "returned" /\ result' = code /\ ~Running' /\ result' # Lost
          /\ lis' = IF lis = "none" THEN "none" ELSE "closed"
          /\ conn' = IF conn = "none" THEN "none" ELSE "closed"
          /\ UNCHANGED <<spawn, spawnErr, ch, typed, stdin, pressed>>
      BY <3>1, <3>2, ConstAssumption DEF Returns, ConnGone, Running
    <3>4. TypeOK'
      <4>1. /\ result' \in Codes \cup {None, Lost} /\ result' # None
            /\ lis' \in {"none", "open", "closed"}
            /\ conn' \in {"none", "queued", "open", "closed"}
        BY <3>2, <3>3 DEF Running
      <4>2. /\ spawn' \in {"none", "calling", "waiting", "failed", "ended", "sent",
                           "done"}
            /\ spawnErr' \in {None, "failed", "ended"}
            /\ ch' \in {None, "conn", "err"} /\ stdin' \in {"none", "read", "done"}
            /\ typed' \in 0..MaxIn /\ pressed' \in 0..MaxSig
        BY <3>3 DEF IInv, TypeOK
      <4>3. QED
        BY <2>1, <2>2, <3>3, <4>1, <4>2 DEF IInv, TypeOK, Framed, Names
    <3>5. SpawnErrorKnown' /\ DataInv' /\ SpawnInv' /\ ConnInv' /\ AcquiredInv'
      BY <2>1, <2>2, <3>1, <3>3 DEF IInv, SpawnErrorKnown, DataInv, Framed, SpawnInv,
         ConnInv, AcquiredInv
    <3>6. HelperInv' /\ AnswersInv'
      BY <2>1, <2>2, <2>4, <3>2, <3>3 DEF IInv, HelperInv, AnswersInv
    <3>7. ExitInv'
      BY <2>1, <3>2, <3>3 DEF ExitInv
    <3>8. QED
      BY <2>1, <3>4, <3>5, <3>6, <3>7 DEF IInv, Framed
  <2>6. CASE m.name # "exit"
    <3>1. UNCHANGED <<spc, result, told, spawn, spawnErr, lis, ch, typed, stdin,
                      pressed, conn>>
      BY <1>2, <2>2, <2>3, <2>6 DEF Receive, HelperSilent, Names, suVars, m
    <3>2. TypeOK'
      BY <2>1, <2>2, <3>1 DEF IInv, TypeOK, Framed, Names
    <3>3. SpawnErrorKnown' /\ DataInv' /\ SpawnInv' /\ ConnInv' /\ AcquiredInv'
      BY <2>1, <2>2, <3>1 DEF IInv, SpawnErrorKnown, DataInv, Framed, SpawnInv,
         ConnInv, AcquiredInv, Running
    <3>4. HelperInv' /\ AnswersInv'
      BY <1>1, <2>1, <2>2, <2>4, <3>1 DEF IInv, HelperInv, AnswersInv
    <3>5. ExitInv'
      BY <1>1, <2>1, <2>2, <2>6, <3>1, ConstAssumption DEF IInv, ExitInv, Running
    <3>6. QED
      BY <2>1, <3>2, <3>3, <3>4, <3>5 DEF IInv, Framed
  <2>7. QED
    BY <2>5, <2>6
<1>3. CASE /\ HelperSilent /\ GivesUp("nothing")
           /\ UNCHANGED <<toServer, tokenVars, call, toHelper, helperVars, childVars,
                          killed>>
  <2>1. Excused' /\ killed' \subseteq Env
    BY <1>1, <1>3, SilenceExcused DEF Excused, Unasked, helperVars, childVars, IInv,
       TypeOK
  <2>2. QED
    BY <1>1, <1>3, <2>1, GivesUpInv
<1>4. QED
  BY <1>2, <1>3 DEF Receive
-----------------------------------------------------------------------------
(* The helper dials, waits for its command or dies; the command ends.         *)

LEMMA DialInv == IInv /\ Dial => IInv'
<1> SUFFICES ASSUME IInv, Dial PROVE IInv'
  OBVIOUS
<1> USE DEF Dial, OnlyHelper, suVars, connVars, childVars
<1>1. Framed' /\ tpc' = tpc
  BY Frame
<1>2. TypeOK'
  BY <1>1, ConstAssumption DEF IInv, TypeOK, Framed
<1>3. SpawnErrorKnown' /\ DataInv'
  BY <1>1 DEF IInv, SpawnErrorKnown, DataInv, Framed
<1>4. SpawnInv' /\ ConnInv' /\ AcquiredInv'
  BY <1>1, ConstAssumption DEF IInv, TypeOK, SpawnInv, ConnInv, AcquiredInv, Running
<1>5. HelperInv' /\ AnswersInv' /\ ExitInv'
  BY ConstAssumption DEF IInv, TypeOK, SpawnInv, ConnInv, HelperInv, AnswersInv,
     ExitInv, Unasked, Running
<1>6. QED
  BY <1>1, <1>2, <1>3, <1>4, <1>5 DEF IInv, Framed

LEMMA DialFailsInv == IInv /\ DialFails => IInv'
<1> SUFFICES ASSUME IInv, DialFails PROVE IInv'
  OBVIOUS
<1> USE DEF DialFails, OnlyHelper, suVars, connVars, childVars
<1>1. Framed' /\ tpc' = tpc
  BY Frame
<1>2. TypeOK'
  BY <1>1, ConstAssumption DEF IInv, TypeOK, Framed
<1>3. SpawnErrorKnown' /\ DataInv'
  BY <1>1 DEF IInv, SpawnErrorKnown, DataInv, Framed
<1>4. SpawnInv' /\ ConnInv' /\ AcquiredInv'
  BY <1>1, ConstAssumption DEF IInv, TypeOK, SpawnInv, ConnInv, AcquiredInv, Running
<1>5. HelperInv' /\ AnswersInv' /\ ExitInv'
  BY ConstAssumption DEF IInv, TypeOK, SpawnInv, ConnInv, HelperInv, AnswersInv,
     ExitInv, Unasked, Running
<1>6. QED
  BY <1>1, <1>2, <1>3, <1>4, <1>5 DEF IInv, Framed

LEMMA WaitInv == IInv /\ Wait => IInv'
<1> SUFFICES ASSUME IInv, Wait PROVE IInv'
  OBVIOUS
<1> USE DEF Wait, OnlyHelper, suVars, connVars, childVars
<1>1. Framed' /\ tpc' = tpc
  BY Frame
<1>2. TypeOK'
  BY <1>1, ConstAssumption DEF IInv, TypeOK, Framed
<1>3. SpawnErrorKnown' /\ DataInv'
  BY <1>1 DEF IInv, SpawnErrorKnown, DataInv, Framed
<1>4. SpawnInv' /\ ConnInv' /\ AcquiredInv'
  BY <1>1, ConstAssumption DEF IInv, TypeOK, SpawnInv, ConnInv, AcquiredInv, Running
<1>5. HelperInv' /\ AnswersInv' /\ ExitInv'
  BY ConstAssumption DEF IInv, TypeOK, SpawnInv, ConnInv, HelperInv, AnswersInv,
     ExitInv, Unasked, Running
<1>6. QED
  BY <1>1, <1>2, <1>3, <1>4, <1>5 DEF IInv, Framed

LEMMA KillHelperInv == IInv /\ KillHelper => IInv'
<1> SUFFICES ASSUME IInv, KillHelper PROVE IInv'
  OBVIOUS
<1> USE DEF KillHelper, HelperLives, suVars, connVars, childVars
<1>1. Framed' /\ tpc' = tpc
  BY Frame
<1>2. TypeOK'
  BY <1>1, ConstAssumption DEF IInv, TypeOK, Framed
<1>3. SpawnErrorKnown' /\ DataInv'
  BY <1>1 DEF IInv, SpawnErrorKnown, DataInv, Framed
<1>4. SpawnInv' /\ ConnInv' /\ AcquiredInv'
  BY <1>1, ConstAssumption DEF IInv, TypeOK, SpawnInv, ConnInv, AcquiredInv, Running
<1>5. HelperInv' /\ AnswersInv' /\ ExitInv'
  BY ConstAssumption DEF IInv, TypeOK, SpawnInv, ConnInv, HelperInv, AnswersInv,
     ExitInv, Unasked, Running
<1>6. QED
  BY <1>1, <1>2, <1>3, <1>4, <1>5 DEF IInv, Framed

LEMMA CommandEndsInv == IInv /\ CommandEnds => IInv'
<1> SUFFICES ASSUME IInv, CommandEnds PROVE IInv'
  OBVIOUS
<1> USE DEF CommandEnds, helperVars, suVars, connVars
<1>1. Framed' /\ tpc' = tpc
  BY Frame
<1>2. TypeOK'
  BY <1>1, ConstAssumption DEF IInv, TypeOK, Framed
<1>3. SpawnErrorKnown' /\ DataInv'
  BY <1>1 DEF IInv, SpawnErrorKnown, DataInv, Framed
<1>4. SpawnInv' /\ ConnInv' /\ AcquiredInv'
  BY <1>1, ConstAssumption DEF IInv, TypeOK, SpawnInv, ConnInv, AcquiredInv, Running
<1>5. HelperInv' /\ AnswersInv' /\ ExitInv'
  BY ConstAssumption DEF IInv, TypeOK, SpawnInv, ConnInv, HelperInv, AnswersInv,
     ExitInv, Unasked, Running
<1>6. QED
  BY <1>1, <1>2, <1>3, <1>4, <1>5 DEF IInv, Framed

-----------------------------------------------------------------------------
(* What the helper does with the connection. *)

\* Messages that are not the exit message, and come when the answer to the token
\* was sent, change nothing for su.
LEMMA AnswersKept ==
    ASSUME IInv, NEW m, m.name \in Names \ {"true", "exit"}, ToServer(m),
           hpc \in {"prepare", "run", "wait", "exit"}, hpc' # "token",
           UNCHANGED <<spc, stdin, result>>
    PROVE  AnswersInv'
<1>1. /\ Len(toServer) \in Nat
      /\ ~Running => toServer' = toServer
      /\ Running => /\ toServer' # << >>
                    /\ Len(toServer') = Len(toServer) + 1
                    /\ \A i \in 1..Len(toServer) : toServer'[i] = toServer[i]
                    /\ toServer'[Len(toServer) + 1] = m
  BY Answered
<1>2. spc \notin {"token", "password", "listen", "accept"}
  BY DEF IInv, AnswersInv, Unasked
<1>3. \A i \in 1..Len(toServer) : toServer[i].name # "exit"
  BY DEF IInv, AnswersInv
<1>4. \A i \in 1..Len(toServer') :
          /\ toServer'[i].name # "exit"
          /\ toServer'[i].name = "true" => i = 1 /\ spc # "relay"
  <2> SUFFICES ASSUME NEW i \in 1..Len(toServer')
               PROVE  /\ toServer'[i].name # "exit"
                      /\ toServer'[i].name = "true" => i = 1 /\ spc # "relay"
    OBVIOUS
  <2>1. CASE i \in 1..Len(toServer)
    BY <1>1, <1>3, <2>1 DEF IInv, AnswersInv
  <2>2. CASE i \notin 1..Len(toServer)
    BY <1>1, <2>2
  <2>3. QED
    BY <2>1, <2>2
<1>5. ASSUME spc = "handshake"
      PROVE  stdin = "none" /\ toServer' # << >> /\ toServer'[1].name = "true"
  <2>1. Running
    BY <1>5 DEF IInv, TypeOK, Running
  <2>2. /\ stdin = "none" /\ toServer # << >> /\ toServer[1].name = "true"
        /\ Len(toServer) # 0
    BY <1>5, SequenceLength DEF IInv, AnswersInv, DataInv
  <2>3. QED
    BY <1>1, <2>1, <2>2
<1>6. QED
  BY <1>2, <1>4, <1>5 DEF AnswersInv

LEMMA AuthenticateInv == IInv /\ Authenticate => IInv'
<1> SUFFICES ASSUME IInv, Authenticate PROVE IInv'
  OBVIOUS
<1> USE DEF OnlyHelper, suVars, childVars
<1>1. /\ Framed' /\ tpc' = tpc
      /\ hpc = "token" /\ toServer = << >> /\ child = "none"
      /\ UNCHANGED <<spc, result, told, spawn, spawnErr, lis, ch, typed, stdin,
                     pressed, shown, conn, reader, copier, child, code, killed>>
  BY Frame DEF Authenticate, IInv, HelperInv
<1>2. CASE /\ toHelper # << >> /\ toHelper' = Tail(toHelper)
           /\ ToServer(Message("true", 0)) /\ hpc' = "prepare"
  <2>1. Message("true", 0).name = "true"
    BY DEF Message
  <2>2. /\ IsSequence(toServer')
        /\ \A i \in DOMAIN toServer' : toServer'[i].name \in Names
        /\ ~Running => toServer' = << >>
        /\ Running => /\ toServer' # << >> /\ Len(toServer') = 1
                      /\ toServer'[1].name = "true"
    BY <1>1, <1>2, <2>1, Answered, SequenceLength DEF Names, IInv, DataInv
  <2>3. toHelper' \in Seq({"token", "stdin", "close", "ctrlc"})
    BY <1>2, HeadTailProperties DEF IInv, TypeOK
  <2>4. TypeOK'
    BY <1>1, <1>2, <2>2, <2>3 DEF IInv, TypeOK, Framed, Names
  <2>5. SpawnErrorKnown' /\ DataInv' /\ SpawnInv' /\ ConnInv' /\ AcquiredInv'
    BY <1>1, <1>2, <2>2 DEF IInv, SpawnErrorKnown, DataInv, Framed, SpawnInv, ConnInv,
       AcquiredInv, Running
  <2>6. HelperInv'
    BY <1>1, <1>2 DEF IInv, HelperInv
  \* The token that was read had been sent by su after it accepted the helper.
  <2>7. spc \in {"handshake", "returned"}
    BY <1>1, <1>2 DEF IInv, TypeOK, AnswersInv, HelperInv, Unasked
  <2>8. AnswersInv'
    BY <1>1, <1>2, <2>2, <2>7, EmptySeq DEF IInv, TypeOK, AnswersInv, Running
  <2>9. ExitInv'
    BY <1>1, <1>2, ConstAssumption DEF IInv, ExitInv, Unasked, Running
  <2>10. QED
    BY <1>1, <2>4, <2>5, <2>6, <2>8, <2>9 DEF IInv, Framed
<1>3. CASE /\ toHelper = << >> /\ conn = "closed" /\ hpc' = "ended"
           /\ UNCHANGED <<toHelper, toServer>>
  <2>1. TypeOK'
    BY <1>1, <1>3 DEF IInv, TypeOK, Framed
  <2>2. SpawnErrorKnown' /\ DataInv' /\ SpawnInv' /\ ConnInv' /\ AcquiredInv'
    BY <1>1, <1>3 DEF IInv, SpawnErrorKnown, DataInv, Framed, SpawnInv, ConnInv,
       AcquiredInv, Running
  <2>3. HelperInv' /\ AnswersInv' /\ ExitInv'
    BY <1>1, <1>3 DEF IInv, HelperInv, AnswersInv, ExitInv, Unasked, Running
  <2>4. QED
    BY <1>1, <2>1, <2>2, <2>3 DEF IInv, Framed
<1>4. QED
  BY <1>2, <1>3 DEF Authenticate

LEMMA PrepareInv == IInv /\ Prepare => IInv'
<1> SUFFICES ASSUME IInv, Prepare PROVE IInv'
  OBVIOUS
<1> USE DEF OnlyHelper, suVars, childVars
<1>1. /\ Framed' /\ tpc' = tpc
      /\ hpc = "prepare" /\ child = "none"
      /\ UNCHANGED <<spc, result, told, spawn, spawnErr, lis, ch, typed, stdin,
                     pressed, shown, conn, toHelper, copier, child, code, killed>>
  BY Frame DEF Prepare, IInv, HelperInv
<1>2. CASE hpc' = "run" /\ reader' = "read" /\ UNCHANGED toServer
  <2>1. TypeOK'
    BY <1>1, <1>2 DEF IInv, TypeOK, Framed
  <2>2. SpawnErrorKnown' /\ DataInv' /\ SpawnInv' /\ ConnInv' /\ AcquiredInv'
    BY <1>1, <1>2 DEF IInv, SpawnErrorKnown, DataInv, Framed, SpawnInv, ConnInv,
       AcquiredInv, Running
  <2>3. HelperInv' /\ AnswersInv' /\ ExitInv'
    BY <1>1, <1>2 DEF IInv, HelperInv, AnswersInv, ExitInv, Unasked, Running
  <2>4. QED
    BY <1>1, <2>1, <2>2, <2>3 DEF IInv, Framed
<1>3. CASE /\ ToServer(Message("error", 0)) /\ hpc' = "ended" /\ UNCHANGED reader
  <2>1. Message("error", 0).name = "error"
    BY DEF Message
  <2>2. /\ IsSequence(toServer')
        /\ \A i \in DOMAIN toServer' : toServer'[i].name \in Names
    BY <1>3, <2>1, Answered DEF Names
  <2>3. TypeOK'
    BY <1>1, <1>3, <2>2 DEF IInv, TypeOK, Framed, Names
  <2>4. SpawnErrorKnown' /\ DataInv' /\ SpawnInv' /\ ConnInv' /\ AcquiredInv'
    BY <1>1, <1>3, <2>2 DEF IInv, SpawnErrorKnown, DataInv, Framed, SpawnInv, ConnInv,
       AcquiredInv, Running
  <2>5. AnswersInv'
    BY <1>1, <1>3, <2>1, AnswersKept DEF Names
  <2>6. HelperInv' /\ ExitInv'
    BY <1>1, <1>3 DEF IInv, HelperInv, ExitInv, Unasked, Running
  <2>7. QED
    BY <1>1, <2>3, <2>4, <2>5, <2>6 DEF IInv, Framed
<1>4. QED
  BY <1>2, <1>3 DEF Prepare

LEMMA RunInv == IInv /\ Run => IInv'
<1> SUFFICES ASSUME IInv, Run PROVE IInv'
  OBVIOUS
<1> USE DEF OnlyHelper, suVars, childVars
<1>1. /\ Framed' /\ tpc' = tpc
      /\ hpc = "run" /\ child = "none" /\ code = None
      /\ UNCHANGED <<spc, result, told, spawn, spawnErr, lis, ch, typed, stdin,
                     pressed, shown, conn, toHelper, reader, killed>>
  BY Frame DEF Run, IInv, HelperInv
\* Nothing was returned for a command that had not begun, and no loss is left
\* unexcused while the helper is at work.
<1>2. /\ result \notin Codes
      /\ ~ (result = Lost /\ killed = {})
  BY <1>1 DEF IInv, ExitInv, Unasked
<1>3. CASE /\ child' = "running" /\ copier' = "copy" /\ hpc' = "wait"
           /\ UNCHANGED <<code, toServer>>
  <2>1. TypeOK'
    BY <1>1, <1>3 DEF IInv, TypeOK, Framed
  <2>2. SpawnErrorKnown' /\ DataInv' /\ SpawnInv' /\ ConnInv' /\ AcquiredInv'
    BY <1>1, <1>3 DEF IInv, SpawnErrorKnown, DataInv, Framed, SpawnInv, ConnInv,
       AcquiredInv, Running
  <2>3. HelperInv' /\ AnswersInv' /\ ExitInv'
    BY <1>1, <1>2, <1>3 DEF IInv, HelperInv, AnswersInv, ExitInv, Unasked, Running
  <2>4. QED
    BY <1>1, <2>1, <2>2, <2>3 DEF IInv, Framed
<1>4. CASE /\ child' = "ended" /\ code' = 1 /\ ToServer(Message("error", 0))
           /\ hpc' = "exit" /\ UNCHANGED copier
  <2>1. Message("error", 0).name = "error"
    BY DEF Message
  <2>2. /\ IsSequence(toServer')
        /\ \A i \in DOMAIN toServer' : toServer'[i].name \in Names
    BY <1>4, <2>1, Answered DEF Names
  <2>3. code' \in Codes /\ code' # None
    BY <1>4, ConstAssumption
  <2>4. TypeOK'
    BY <1>1, <1>4, <2>2, <2>3 DEF IInv, TypeOK, Framed, Names
  <2>5. SpawnErrorKnown' /\ DataInv' /\ SpawnInv' /\ ConnInv' /\ AcquiredInv'
    BY <1>1, <1>4, <2>2 DEF IInv, SpawnErrorKnown, DataInv, Framed, SpawnInv, ConnInv,
       AcquiredInv, Running
  <2>6. AnswersInv'
    BY <1>1, <1>4, <2>1, AnswersKept DEF Names
  <2>7. HelperInv' /\ ExitInv'
    BY <1>1, <1>2, <1>4, <2>3 DEF IInv, HelperInv, ExitInv, Unasked, Running
  <2>8. QED
    BY <1>1, <2>4, <2>5, <2>6, <2>7 DEF IInv, Framed
<1>5. QED
  BY <1>3, <1>4 DEF Run

LEMMA ExitStepInv == IInv /\ Exit => IInv'
<1> SUFFICES ASSUME IInv, Exit PROVE IInv'
  OBVIOUS
<1> USE DEF OnlyHelper, suVars, childVars
<1> DEFINE m == Message("exit", code)
<1>1. /\ Framed' /\ tpc' = tpc
      /\ hpc = "exit" /\ hpc' = "ended" /\ child = "ended" /\ ToServer(m)
      /\ UNCHANGED <<spc, result, told, spawn, spawnErr, lis, ch, typed, stdin,
                     pressed, shown, conn, toHelper, reader, copier, child, code,
                     killed>>
  BY Frame DEF Exit, IInv, HelperInv
<1>2. m.name = "exit" /\ m.data = code
  BY DEF Message
<1> HIDE DEF m
<1>3. /\ IsSequence(toServer')
      /\ \A i \in DOMAIN toServer' : toServer'[i].name \in Names
      /\ Len(toServer) \in Nat
      /\ ~Running => toServer' = toServer
      /\ Running => /\ toServer' # << >>
                    /\ Len(toServer') = Len(toServer) + 1
                    /\ \A i \in 1..Len(toServer) : toServer'[i] = toServer[i]
                    /\ toServer'[Len(toServer) + 1] = m
  BY <1>1, <1>2, Answered DEF Names
<1>4. TypeOK'
  BY <1>1, <1>3 DEF IInv, TypeOK, Framed, Names
<1>5. SpawnErrorKnown' /\ DataInv' /\ SpawnInv' /\ ConnInv' /\ AcquiredInv'
  BY <1>1, <1>3 DEF IInv, SpawnErrorKnown, DataInv, Framed, SpawnInv, ConnInv,
     AcquiredInv, Running
<1>6. HelperInv'
  BY <1>1 DEF IInv, HelperInv
\* No message before it is an exit message, as the helper has not ended.
<1>7. AnswersInv'
  <2>1. spc \notin {"token", "password", "listen", "accept"}
    BY <1>1 DEF IInv, AnswersInv, Unasked
  <2>2. \A i \in 1..Len(toServer) : toServer[i].name # "exit"
    BY <1>1 DEF IInv, AnswersInv
  <2>3. ASSUME spc = "handshake"
        PROVE  stdin = "none" /\ toServer' # << >> /\ toServer'[1].name = "true"
    <3>1. Running
      BY <2>3 DEF IInv, TypeOK, Running
    <3>2. /\ stdin = "none" /\ toServer # << >> /\ toServer[1].name = "true"
          /\ Len(toServer) # 0
      BY <1>1, <2>3, SequenceLength DEF IInv, AnswersInv, DataInv
    <3>3. QED
      BY <1>3, <3>1, <3>2
  <2>4. \A i \in 1..Len(toServer') :
            /\ toServer'[i].name = "true" => i = 1 /\ spc # "relay"
            /\ toServer'[i].name = "exit" =>
                   i = Len(toServer') /\ toServer'[i].data = code
    <3> SUFFICES ASSUME NEW i \in 1..Len(toServer')
                 PROVE  /\ toServer'[i].name = "true" => i = 1 /\ spc # "relay"
                        /\ toServer'[i].name = "exit" =>
                               i = Len(toServer') /\ toServer'[i].data = code
      OBVIOUS
    <3>1. CASE i \in 1..Len(toServer)
      BY <1>3, <2>2, <3>1 DEF IInv, AnswersInv
    <3>2. CASE i \notin 1..Len(toServer)
      BY <1>2, <1>3, <3>2
    <3>3. QED
      BY <3>1, <3>2
  <2>5. QED
    BY <1>1, <2>1, <2>3, <2>4 DEF AnswersInv
<1>8. ExitInv'
  BY <1>1, <1>2, <1>3 DEF IInv, ExitInv, Unasked, Running
<1>9. QED
  BY <1>1, <1>4, <1>5, <1>6, <1>7, <1>8 DEF IInv, Framed

LEMMA CopyInv == IInv /\ Copy => IInv'
<1> SUFFICES ASSUME IInv, Copy PROVE IInv'
  OBVIOUS
<1> USE DEF OnlyHelper, suVars, childVars
<1> DEFINE p == SubSeq(text.bytes, copied + 1, written)
           w == MsgWrite(text.command, tail, p)
           m == Message("stdout", w.data)
<1>1. /\ HelperLives /\ copier = "copy" /\ tail' = w.tail /\ copied' = written
      /\ copier' \in {"copy", "failed"}
      /\ UNCHANGED <<tokenVars, call, spc, result, told, spawn, spawnErr, lis, ch,
                     typed, stdin, pressed, shown, conn, toHelper, hpc, reader,
                     child, written, code, killed>>
      /\ UNCHANGED toServer \/ ToServer(m)
  BY DEF Copy
<1>2. m.name = "stdout"
  BY DEF Message
\* What the helper keeps back and what it has copied.
<1>3. Framed' /\ tpc' = tpc
  <2>1. /\ text' = text /\ text.bytes \in Seq(0..255)
        /\ copied \in 0..written /\ written \in 0..Len(text.bytes)
        /\ Len(text.bytes) \in Nat
    BY <1>1, TextKept, TextSize DEF IInv, TypeOK
  <2>2. p \in Seq(0..255)
    <3>1. copied + 1 .. written \subseteq 1..Len(text.bytes)
      BY <2>1
    <3>2. \A i \in copied + 1 .. written : text.bytes[i] \in 0..255
      BY <2>1, <3>1, ElementOfSeq
    <3>3. QED
      BY <2>1, <3>2, SubSeqProperties
  <2> HIDE DEF p
  <2>3. tail' \in Seq(0..255) /\ Len(tail') <= 3
    BY <1>1, <2>2, KeepsLittle DEF IInv, DataInv
  <2>4. TokenInv' /\ tpc' = tpc
    BY <1>1, TokenKept DEF IInv
  <2>5. TokenTypeOK'
    BY <2>4 DEF TokenInv
  <2>6. QED
    BY <1>1, <2>1, <2>3, <2>4, <2>5 DEF IInv, TypeOK, Framed
<1> HIDE DEF m, w
\* The command has been started.
<1>4. hpc \in {"wait", "exit"}
  BY <1>1 DEF IInv, TypeOK, HelperInv, HelperLives
<1>5. /\ IsSequence(toServer')
      /\ \A i \in DOMAIN toServer' : toServer'[i].name \in Names
  BY <1>1, <1>2, Answered DEF Names, IInv, DataInv, TypeOK
<1>6. TypeOK'
  BY <1>1, <1>3, <1>5 DEF IInv, TypeOK, Framed, Names
<1>7. SpawnErrorKnown' /\ DataInv' /\ SpawnInv' /\ ConnInv' /\ AcquiredInv'
  BY <1>1, <1>3, <1>5 DEF IInv, SpawnErrorKnown, DataInv, Framed, SpawnInv, ConnInv,
     AcquiredInv, Running
<1>8. AnswersInv'
  <2>1. CASE UNCHANGED toServer
    BY <1>1, <2>1 DEF IInv, AnswersInv, Unasked
  <2>2. CASE ToServer(m)
    BY <1>1, <1>2, <1>4, <2>2, AnswersKept DEF Names
  <2>3. QED
    BY <1>1, <2>1, <2>2
<1>9. HelperInv' /\ ExitInv'
  BY <1>1, <1>4 DEF IInv, HelperInv, ExitInv, Unasked, Running
<1>10. QED
  BY <1>3, <1>6, <1>7, <1>8, <1>9 DEF IInv, Framed

LEMMA ReadInv == IInv /\ Read => IInv'
<1> SUFFICES ASSUME IInv, Read PROVE IInv'
  OBVIOUS
<1> USE DEF OnlyHelper, suVars
<1>1. /\ Framed' /\ tpc' = tpc
      /\ HelperLives /\ reader = "read" /\ reader' \in {"read", "blocked", "done"}
      /\ UNCHANGED <<spc, result, told, spawn, spawnErr, lis, ch, typed, stdin,
                     pressed, shown, conn, toServer, hpc, copier, killed>>
  BY Frame DEF Read
\* The helper was asked, and is at work.
<1>2. hpc \in {"prepare", "run", "wait", "exit"}
  BY <1>1 DEF IInv, TypeOK, HelperInv, HelperLives
<1>3. /\ spc \in {"handshake", "relay", "returned"}
      /\ ~ (result = Lost /\ killed = {})
  BY <1>2 DEF IInv, TypeOK, AnswersInv, ExitInv, Unasked
<1>4. toHelper' \in Seq({"token", "stdin", "close", "ctrlc"})
  <2>1. CASE toHelper # << >> /\ toHelper' = Tail(toHelper)
    BY <2>1, HeadTailProperties DEF IInv, TypeOK
  <2>2. CASE UNCHANGED toHelper
    BY <2>2 DEF IInv, TypeOK
  <2>3. QED
    BY <2>1, <2>2 DEF Read
<1>5. \/ UNCHANGED <<child, code>>
      \/ child = "running" /\ child' = "ended" /\ code' = 1
  BY DEF Read
<1>6. /\ code' \in Codes \cup {None} /\ child' \in {"none", "running", "ended"}
      /\ child' = "ended" <=> code' # None
      /\ hpc \in {"prepare", "run"} => child' = "none"
      /\ child = "ended" => child' = "ended" /\ code' = code
      /\ child' = "running" => child = "running"
  BY <1>5, ConstAssumption DEF IInv, TypeOK, HelperInv
<1>7. TypeOK'
  BY <1>1, <1>4, <1>6 DEF IInv, TypeOK, Framed
<1>8. SpawnErrorKnown' /\ DataInv' /\ SpawnInv' /\ ConnInv' /\ AcquiredInv'
  BY <1>1 DEF IInv, SpawnErrorKnown, DataInv, Framed, SpawnInv, ConnInv, AcquiredInv,
     Running
<1>9. HelperInv'
  BY <1>1, <1>2, <1>6 DEF IInv, HelperInv
<1>10. AnswersInv' /\ ExitInv'
  BY <1>1, <1>2, <1>3, <1>6 DEF IInv, AnswersInv, ExitInv, Running
<1>11. QED
  BY <1>1, <1>7, <1>8, <1>9, <1>10 DEF IInv, Framed

-----------------------------------------------------------------------------
(* The command writes, and the connection is reset. *)

LEMMA CommandWritesInv == IInv /\ CommandWrites => IInv'
<1> SUFFICES ASSUME IInv, CommandWrites PROVE IInv'
  OBVIOUS
<1> USE DEF suVars, connVars, helperVars
<1>1. Framed' /\ tpc' = tpc
  <2>1. /\ text' = text /\ Len(text.bytes) \in Nat
        /\ text.cuts \subseteq 1..Len(text.bytes)
        /\ copied \in 0..written /\ written \in 0..Len(text.bytes)
    BY TextKept, TextSize DEF CommandWrites, IInv, TypeOK
  <2>2. written' \in text.cuts /\ written' > written /\ copied' = copied
    BY DEF CommandWrites
  <2>3. copied' \in 0..written' /\ written' \in 0..Len(text'.bytes)
    BY <2>1, <2>2
  <2>4. TokenInv' /\ tpc' = tpc
    BY TokenKept DEF IInv, CommandWrites
  <2>5. TokenTypeOK'
    BY <2>4 DEF TokenInv
  <2>6. QED
    BY <2>3, <2>4, <2>5 DEF CommandWrites, IInv, TypeOK, DataInv, Framed
<1>2. UNCHANGED <<suVars, connVars, hpc, reader, copier, child, code, killed>>
  BY DEF CommandWrites
<1>3. TypeOK'
  BY <1>1, <1>2 DEF IInv, TypeOK, Framed
<1>4. SpawnErrorKnown' /\ DataInv' /\ SpawnInv' /\ ConnInv' /\ AcquiredInv'
  BY <1>1, <1>2 DEF IInv, SpawnErrorKnown, DataInv, Framed, SpawnInv, ConnInv,
     AcquiredInv, Running
<1>5. HelperInv' /\ AnswersInv' /\ ExitInv'
  BY <1>2 DEF IInv, HelperInv, AnswersInv, ExitInv, Unasked, Running
<1>6. QED
  BY <1>1, <1>3, <1>4, <1>5 DEF IInv, Framed

\* What the reset loses is excused by what the helper has not read.
LEMMA ResetInv == IInv /\ Reset => IInv'
<1> SUFFICES ASSUME IInv, Reset PROVE IInv'
  OBVIOUS
<1> USE DEF suVars, helperVars, childVars
<1>1. /\ Framed' /\ tpc' = tpc
      /\ Running /\ hpc = "ended" /\ toHelper # << >> /\ toServer' = << >>
      /\ UNCHANGED <<suVars, conn, toHelper, hpc, reader, copier, child, code,
                     killed>>
  BY Frame DEF Reset
<1>2. /\ IsSequence(toServer') /\ DOMAIN toServer' = {} /\ Len(toServer') = 0
  BY <1>1, NoneIsSequence, SequenceLength
<1>3. TypeOK'
  BY <1>1, <1>2 DEF IInv, TypeOK, Framed
<1>4. SpawnErrorKnown' /\ DataInv' /\ SpawnInv' /\ ConnInv' /\ AcquiredInv'
  BY <1>1, <1>2 DEF IInv, SpawnErrorKnown, DataInv, Framed, SpawnInv, ConnInv,
     AcquiredInv, Running
<1>5. HelperInv' /\ AnswersInv' /\ ExitInv'
  BY <1>1, <1>2 DEF IInv, HelperInv, AnswersInv, ExitInv, Unasked, Running
<1>6. QED
  BY <1>1, <1>3, <1>4, <1>5 DEF IInv, Framed

-----------------------------------------------------------------------------
(* The specification. *)

LEMMA InitInv == Init => IInv
<1> SUFFICES ASSUME Init PROVE IInv
  OBVIOUS
<1>1. TokenInit(Users)
  BY ConstAssumption DEF Init, TokenInit
<1>2. TokenInv /\ TokenTypeOK
  BY <1>1, TokenInitInv DEF TokenInv
<1>3. /\ IsSequence(toServer) /\ DOMAIN toServer = {} /\ Len(toServer) = 0
      /\ toHelper \in Seq({"token", "stdin", "close", "ctrlc"})
      /\ tail \in Seq(0..255) /\ Len(tail) <= 3
  BY NoneIsSequence, SequenceLength, EmptySeq DEF Init
<1>4. 0 \in 0..Len(text.bytes) /\ MaxIn \in Nat /\ MaxSig \in Nat
  BY TextSize, ConstAssumption DEF Init
<1>5. TypeOK
  BY <1>2, <1>3, <1>4 DEF Init, TypeOK
<1>6. SpawnErrorKnown /\ DataInv /\ SpawnInv /\ ConnInv /\ AcquiredInv
  BY <1>3, ConstAssumption DEF Init, SpawnErrorKnown, DataInv, SpawnInv, ConnInv,
     AcquiredInv, Running
<1>7. HelperInv /\ AnswersInv /\ ExitInv
  BY <1>3, ConstAssumption DEF Init, HelperInv, AnswersInv, ExitInv, Unasked, Running
<1>8. QED
  BY <1>2, <1>5, <1>6, <1>7 DEF IInv

LEMMA StutterInv == IInv /\ UNCHANGED vars => IInv'
<1> SUFFICES ASSUME IInv, UNCHANGED vars PROVE IInv'
  OBVIOUS
<1> USE DEF vars, sessionVars, suVars, connVars, helperVars, childVars
<1>1. Framed' /\ tpc' = tpc
  BY Frame
<1>2. TypeOK'
  BY <1>1 DEF IInv, TypeOK, Framed
<1>3. SpawnErrorKnown' /\ DataInv' /\ SpawnInv' /\ ConnInv' /\ AcquiredInv'
  BY <1>1 DEF IInv, SpawnErrorKnown, DataInv, Framed, SpawnInv, ConnInv, AcquiredInv,
     Running
<1>4. HelperInv' /\ AnswersInv' /\ ExitInv'
  BY DEF IInv, HelperInv, AnswersInv, ExitInv, Unasked, Running
<1>5. QED
  BY <1>1, <1>2, <1>3, <1>4 DEF IInv, Framed

LEMMA StepInv == IInv /\ [Next]_vars => IInv'
<1> SUFFICES ASSUME IInv, [Next]_vars PROVE IInv'
  OBVIOUS
<1>1. CASE Server \/ Password \/ Timeout \/ Service
  BY <1>1, AcquireInv, ListenInv, AcceptedInv, HandshakeInv, ReceiveInv, PasswordInv,
     TimeoutInv, ServiceInv DEF Server
<1>2. CASE Spawner \/ StartHelper \/ StartHelperFails \/ Accept
  BY <1>2, HelperGoneInv, SendSpawnErrInv, CloseListenerInv, StartHelperInv,
     StartHelperFailsInv, AcceptInv DEF Spawner
<1>3. CASE SendCtrlC \/ SendStdin \/ StdinEnds
  BY <1>3, SendCtrlCInv, SendStdinInv, StdinEndsInv
<1>4. CASE Helper \/ Copy \/ Read
  BY <1>4, DialInv, DialFailsInv, AuthenticateInv, PrepareInv, RunInv, WaitInv,
     ExitStepInv, CopyInv, ReadInv DEF Helper
<1>5. CASE CommandWrites \/ CommandEnds \/ Reset \/ KillSu \/ KillHelper
  BY <1>5, CommandWritesInv, CommandEndsInv, ResetInv, KillSuInv, KillHelperInv
<1>6. CASE UNCHANGED vars
  BY <1>6, StutterInv
<1>7. QED
  BY <1>1, <1>2, <1>3, <1>4, <1>5, <1>6 DEF Next

\* The inductive invariant holds in every session.
THEOREM SessionInvariant == Spec => []IInv
BY InitInv, StepInv, PTL DEF Spec

\* The types of the session; in particular msgWriter never keeps back more than
\* the beginning of one character, and su has returned exactly when it has a
\* result.
THEOREM SessionTypeOK == Spec => []TypeOK
<1>1. IInv => TypeOK
  BY DEF IInv
<1>2. QED
  BY <1>1, SessionInvariant, PTL

\* When nobody connected, su knows why: the message without a reason is dead code.
THEOREM SpawnErrorIsKnown == Spec => []SpawnErrorKnown
<1>1. IInv => SpawnErrorKnown
  BY DEF IInv
<1>2. QED
  BY <1>1, SessionInvariant, PTL

\* su fails to return the code of a command that has ended only when somebody was
\* killed or the connection was reset with something unread.
THEOREM LossHasReason == Spec => []LostMeansFault
<1>1. IInv => LostMeansFault
  BY DEF IInv, TypeOK, HelperInv, ExitInv, Unasked, LostMeansFault
<1>2. QED
  BY <1>1, SessionInvariant, PTL

\* The exit status of su: 1 also when the command's code is lost (main.go:477).
ExitStatus == IF result = Lost THEN 1 ELSE result

ExitCodeKept ==
    result # None /\ ExitStatus # 1 => child = "ended" /\ ExitStatus = code

\* An exit status of su other than 1 is the command's, and the command has ended.
\* A status of 1 says nothing: su exits so, too, when it could not begin, and when
\* it lost the code, whatever the code was.
THEOREM ExitCodeIsKept == Spec => []ExitCodeKept
<1>1. IInv => ExitCodeKept
  BY ConstAssumption DEF IInv, TypeOK, ExitInv, ExitStatus, ExitCodeKept
<1>2. QED
  BY <1>1, SessionInvariant, PTL

-----------------------------------------------------------------------------
(* The token within the session. *)

\* What the session does with the token is what SuToken describes, whatever else
\* goes on beside it.
THEOREM SessionAcquires == Spec => TokenSpec
<1>1. Init => TokenInit(Users)
  BY ConstAssumption DEF Init, TokenInit
<1>2. [Next]_vars => [TokenNext]_tokenVars
  <2> SUFFICES ASSUME [Next]_vars PROVE [TokenNext]_tokenVars
    OBVIOUS
  <2>1. CASE Acquire
    BY <2>1 DEF Acquire, TokenNext
  <2>2. CASE Service
    BY <2>2 DEF Service, TokenNext
  <2>3. CASE Listen \/ Accepted \/ Handshake \/ Receive \/ Password \/ Timeout
    BY <2>3 DEF Listen, Accepted, Handshake, Receive, Password, Timeout
  <2>4. CASE Spawner \/ StartHelper \/ StartHelperFails \/ Accept
    BY <2>4 DEF Spawner, HelperGone, SendSpawnErr, CloseListener, StartHelper,
       StartHelperFails, Accept, OnlySpawn
  <2>5. CASE SendCtrlC \/ SendStdin \/ StdinEnds
    BY <2>5 DEF SendCtrlC, SendStdin, StdinEnds, OnlyInput
  <2>6. CASE Helper \/ Copy \/ Read
    BY <2>6 DEF Helper, Dial, DialFails, Authenticate, Prepare, Run, Wait, Exit, Copy,
       Read, OnlyHelper
  <2>7. CASE CommandWrites \/ CommandEnds \/ Reset \/ KillSu \/ KillHelper
    BY <2>7 DEF CommandWrites, CommandEnds, Reset, KillSu, KillHelper
  <2>8. CASE UNCHANGED vars
    BY <2>8 DEF vars
  <2>9. QED
    BY <2>1, <2>2, <2>3, <2>4, <2>5, <2>6, <2>7, <2>8 DEF Next, Server
<1>3. QED
  BY <1>1, <1>2, PTL DEF Spec, TokenSpec

\* So su holds the token it asked for or nothing at all ...
THEOREM SessionLeavesNoHandle == Spec => []NoHandleLeft
BY SessionAcquires, NoHandleLeftAlways

\* ... and runs as SYSTEM for the copy of the token only.
THEOREM SessionReverts == Spec => []Reverted
BY SessionAcquires, RevertedAlways

HelperStartedProperly ==
    spawn # "none" => handles = TokenOf[user] /\ ~impersonating

\* The helper is started by a su that has the token it asked for, holds no other
\* and does not run as SYSTEM itself.
THEOREM HelperIsStartedProperly == Spec => []HelperStartedProperly
<1>1. IInv => HelperStartedProperly
  BY DEF IInv, AcquiredInv, TokenInv, NoHandleLeft, Reverted, HelperStartedProperly
<1>2. QED
  BY <1>1, SessionInvariant, PTL
=============================================================================

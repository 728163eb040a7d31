------------------------- MODULE PipedSessionProofs -------------------------
(* Proofs about PipedSession, for every set of streams, every capacity of the *)
(* pipe and every bound.                                                      *)
EXTENDS PipedSession, SequenceTheorems, TLAPS

-----------------------------------------------------------------------------
(* The inductive invariant. *)

Has(q, x) == \E i \in 1..Len(q) : q[i].name = x

\* Pieces of input that the command's pipe has accepted, and that the daemon
\* has taken from the connection.
Accepted == Len(got) + Len(stdin)
Taken == Accepted + (IF reader = "write" THEN 1 ELSE 0)

\* Where each goroutine is says how far the others and the command are.
PhaseInv ==
    /\ open <=> result = None
    /\ child = "exited" <=> status # None
    /\ child = "none" => \A s \in Streams : written[s] = 0
    /\ handler \in {"start", "launch"} => child = "none"
    /\ handler = "start" => reader = "none" /\ code = 0
    /\ handler = "run" => child # "none"
    /\ handler \in {"cmdDone", "exit", "wait", "drain"} =>
           child = "exited" /\ code = status /\ AllCopied
    /\ cmdDone => child = "exited"
    /\ handler \in {"drain", "closed"} => reader = "done"
    /\ feeder = "send" => fed < MaxIn
    /\ reader = "write" => held # 0

\* What the command has accepted is a beginning of what was sent; while it and
\* the daemon live, the connection carries the rest.
InputInv ==
    /\ got \o stdin = Numbers(Accepted)
    /\ Accepted <= fed
    /\ child # "exited" /\ handler # "closed" =>
           /\ reader = "write" => held = Accepted + 1
           /\ Carries(c2s, "stdin", Taken, fed)

\* The message that closes the input comes after all of it; Ctrl+C is there
\* only if somebody pressed it.
NoInputAfterClose(q) ==
    \A i, j \in 1..Len(q) : i < j /\ q[i].name = "close" => q[j].name # "stdin"

SignalInv ==
    /\ Has(c2s, "close") => feeder = "done"
    /\ NoInputAfterClose(c2s)
    /\ sigs = 1 \/ Has(c2s, "ctrlc") => pressed > 0

EofInv ==
    child # "exited" /\ eof /\ result = None /\ handler # "closed"
      /\ pressed = 0 =>
        feeder = "done" /\ reader = "done" /\ fed = Accepted

\* What is shown is a beginning of what was sent, and the connection carries the
\* rest of it; what is copied and not sent begins a character.
OutputInv ==
    /\ \A s \in Streams : /\ sent[s] <= copied[s] /\ copied[s] <= written[s]
                          /\ copied[s] - Hold[s][copied[s]] <= sent[s]
                          /\ Len(printed[s]) <= sent[s]
                          /\ printed[s] = Numbers(Len(printed[s]))
    /\ result = None => \A s \in Streams :
           Carries(s2c, s, Len(printed[s]), sent[s])

\* The exit message is the last one, and tells the status.
ExitLast(q, n) ==
    \A i \in 1..Len(q) : q[i].name = "exit" => i = Len(q) /\ q[i].n = n

ExitInv ==
    /\ ExitLast(s2c, status)
    /\ Has(s2c, "exit") =>
           child = "exited" /\ AllCopied /\ handler \in {"wait", "drain", "closed"}

IInv ==
    /\ TypeOK /\ PhaseInv /\ InputInv /\ SignalInv /\ EofInv /\ OutputInv
    /\ ExitInv

-----------------------------------------------------------------------------
(* What the ends of the pipe do to a queue. *)

LEMMA HasAppend ==
    ASSUME NEW M, NEW q \in Seq(M), NEW m \in M, NEW x
    PROVE  Has(Append(q, m), x) <=> Has(q, x) \/ m.name = x
<1> DEFINE r == Append(q, m)
<1>1. /\ Len(r) = Len(q) + 1 /\ Len(q) \in Nat
      /\ \A i \in 1..Len(q) : r[i] = q[i]
      /\ r[Len(q) + 1] = m
  BY AppendProperties, LenProperties
<1> HIDE DEF r
<1>2. QED
  BY <1>1 DEF Has, r

LEMMA HasTail ==
    ASSUME NEW M, NEW q \in Seq(M), q # << >>, NEW x
    PROVE  /\ Has(q, Head(q).name)
           /\ Has(Tail(q), x) => Has(q, x)
<1>1. /\ Len(Tail(q)) = Len(q) - 1 /\ Len(q) \in Nat \ {0}
      /\ \A i \in 1..Len(Tail(q)) : Tail(q)[i] = q[i + 1]
      /\ Head(q) = q[1]
  BY HeadTailProperties, EmptySeq, LenProperties
<1>2. QED
  BY <1>1 DEF Has

LEMMA CarriesAppend ==
    ASSUME NEW M, NEW q \in Seq(M), NEW m \in M, NEW x,
           NEW a \in Nat, NEW b \in Nat, Carries(q, x, a, b), NEW c \in Nat
    PROVE  /\ m.name = x /\ First(m) = b + 1 /\ m.n = c /\ b < c =>
                  Carries(Append(q, m), x, a, c)
           /\ m.name # x => Carries(Append(q, m), x, a, b)
<1> DEFINE r == Append(q, m)
<1>1. /\ Len(r) = Len(q) + 1 /\ Len(q) \in Nat
      /\ \A i \in 1..Len(q) : r[i] = q[i]
      /\ r[Len(q) + 1] = m
  BY AppendProperties, LenProperties
<1> HIDE DEF r
<1>2. ASSUME m.name = x, First(m) = b + 1, m.n = c, b < c PROVE Carries(r, x, a, c)
  <2>1. a <= c
    BY <1>2 DEF Carries
  <2>2. ASSUME NEW i \in 1..Len(r), r[i].name = x
        PROVE  First(r[i]) \in a + 1 .. c /\ r[i].n \in First(r[i]) .. c
    <3>1. CASE i = Len(q) + 1
      BY <3>1, <1>1, <1>2 DEF Carries
    <3>2. CASE i # Len(q) + 1
      <4>1. i \in 1..Len(q) /\ r[i] = q[i]
        BY <3>2, <1>1
      <4>2. First(q[i]) \in a + 1 .. b /\ q[i].n \in First(q[i]) .. b
        BY <4>1, <2>2 DEF Carries
      <4>3. QED
        BY <4>1, <4>2, <1>2
    <3>3. QED
      BY <3>1, <3>2
  <2>3. \A n \in a + 1 .. c : \E i \in 1..Len(r) :
            r[i].name = x /\ n \in First(r[i]) .. r[i].n
    <3> TAKE n \in a + 1 .. c
    <3>1. CASE n > b
      BY <3>1, <1>1, <1>2
    <3>2. CASE n <= b
      <4>1. PICK i \in 1..Len(q) : q[i].name = x /\ n \in First(q[i]) .. q[i].n
        BY <3>2 DEF Carries
      <4>2. QED
        BY <4>1, <1>1
    <3>3. QED
      BY <3>1, <3>2
  <2>4. \A i, j \in 1..Len(r) :
            i < j /\ r[i].name = x /\ r[j].name = x => r[i].n < First(r[j])
    <3> SUFFICES ASSUME NEW i \in 1..Len(r), NEW j \in 1..Len(r), i < j,
                        r[i].name = x, r[j].name = x
                 PROVE  r[i].n < First(r[j])
      OBVIOUS
    <3>1. i \in 1..Len(q) /\ r[i] = q[i]
      BY <1>1
    <3>2. First(q[i]) \in a + 1 .. b /\ q[i].n \in First(q[i]) .. b
      BY <3>1 DEF Carries
    <3>3. CASE j = Len(q) + 1
      BY <3>1, <3>2, <3>3, <1>1, <1>2
    <3>4. CASE j # Len(q) + 1
      <4>1. j \in 1..Len(q) /\ r[j] = q[j]
        BY <3>4, <1>1
      <4>2. QED
        BY <3>1, <4>1 DEF Carries
    <3>5. QED
      BY <3>3, <3>4
  <2>5. QED
    BY <2>1, <2>2, <2>3, <2>4 DEF Carries
<1>3. ASSUME m.name # x PROVE Carries(r, x, a, b)
  <2>1. \A i \in 1..Len(r) : r[i].name = x => i \in 1..Len(q) /\ r[i] = q[i]
    BY <1>1, <1>3
  <2>2. a <= b /\ \A i \in 1..Len(r) : r[i].name = x =>
            First(r[i]) \in a + 1 .. b /\ r[i].n \in First(r[i]) .. b
    BY <2>1 DEF Carries
  <2>3. \A n \in a + 1 .. b : \E i \in 1..Len(r) :
            r[i].name = x /\ n \in First(r[i]) .. r[i].n
    <3> TAKE n \in a + 1 .. b
    <3>1. PICK i \in 1..Len(q) : q[i].name = x /\ n \in First(q[i]) .. q[i].n
      BY DEF Carries
    <3>2. QED
      BY <3>1, <1>1
  <2>4. \A i, j \in 1..Len(r) :
            i < j /\ r[i].name = x /\ r[j].name = x => r[i].n < First(r[j])
    <3> SUFFICES ASSUME NEW i \in 1..Len(r), NEW j \in 1..Len(r), i < j,
                        r[i].name = x, r[j].name = x
                 PROVE  r[i].n < First(r[j])
      OBVIOUS
    <3>1. i \in 1..Len(q) /\ j \in 1..Len(q) /\ r[i] = q[i] /\ r[j] = q[j]
      BY <2>1
    <3>2. QED
      BY <3>1 DEF Carries
  <2>5. QED
    BY <2>2, <2>3, <2>4 DEF Carries
<1>4. QED
  BY <1>2, <1>3 DEF r

LEMMA CarriesTail ==
    ASSUME NEW M, NEW q \in Seq(M), q # << >>, NEW x,
           NEW a \in Nat, NEW b \in Nat, Carries(q, x, a, b)
    PROVE  /\ Head(q).name = x =>
                  /\ First(Head(q)) = a + 1 /\ Head(q).n \in a + 1 .. b
                  /\ Carries(Tail(q), x, Head(q).n, b)
           /\ Head(q).name # x => Carries(Tail(q), x, a, b)
<1> DEFINE r == Tail(q)
           c == q[1].n
<1>1. /\ Len(r) = Len(q) - 1 /\ Len(q) \in Nat \ {0}
      /\ \A i \in 1..Len(r) : r[i] = q[i + 1]
      /\ Head(q) = q[1]
  BY HeadTailProperties, EmptySeq, LenProperties
<1> HIDE DEF r
<1>2. \A i \in 2..Len(q) : i - 1 \in 1..Len(r) /\ r[i - 1] = q[i]
  BY <1>1
<1>3. \A i, j \in 1..Len(r) :
          i < j /\ r[i].name = x /\ r[j].name = x => r[i].n < First(r[j])
  <2> SUFFICES ASSUME NEW j \in 1..Len(r), NEW k \in 1..Len(r), j < k,
                      r[j].name = x, r[k].name = x
               PROVE  r[j].n < First(r[k])
    OBVIOUS
  <2>1. /\ j + 1 \in 1..Len(q) /\ k + 1 \in 1..Len(q) /\ j + 1 < k + 1
        /\ r[j] = q[j + 1] /\ r[k] = q[k + 1]
    BY <1>1
  <2>2. QED
    BY <2>1 DEF Carries
<1>4. ASSUME Head(q).name = x
      PROVE  First(Head(q)) = a + 1 /\ c \in a + 1 .. b /\ Carries(r, x, c, b)
  <2>1. q[1].name = x /\ First(q[1]) \in a + 1 .. b /\ c \in First(q[1]) .. b
    BY <1>1, <1>4 DEF Carries
  <2>2. ASSUME NEW j \in 2..Len(q), q[j].name = x
        PROVE  /\ First(q[j]) \in a + 1 .. b /\ q[j].n \in First(q[j]) .. b
               /\ c < First(q[j])
    <3>1. 1 \in 1..Len(q) /\ j \in 1..Len(q) /\ 1 < j
      BY <1>1
    <3>2. QED
      BY <3>1, <2>1, <2>2 DEF Carries
  <2> HIDE DEF c
  <2>3. First(q[1]) = a + 1
    <3>5. a + 1 \in a + 1 .. b
      BY <2>1
    <3>1. PICK i \in 1..Len(q) : q[i].name = x /\ a + 1 \in First(q[i]) .. q[i].n
      BY <3>5 DEF Carries
    <3>2. CASE i = 1
      BY <3>1, <3>2, <2>1
    <3>3. CASE i # 1
      <4>1. First(q[i]) \in a + 1 .. b /\ c < First(q[i])
        BY <3>1, <3>3, <2>2, <1>1
      <4>2. QED
        BY <4>1, <3>1, <2>1
    <3>4. QED
      BY <3>2, <3>3
  <2>4. ASSUME NEW j \in 1..Len(r), r[j].name = x
        PROVE  First(r[j]) \in c + 1 .. b /\ r[j].n \in First(r[j]) .. b
    <3>1. j + 1 \in 2..Len(q) /\ r[j] = q[j + 1]
      BY <1>1
    <3>2. /\ First(q[j + 1]) \in a + 1 .. b /\ q[j + 1].n \in First(q[j + 1]) .. b
          /\ c < First(q[j + 1])
      BY <2>2, <2>4, <3>1
    <3>3. QED
      BY <3>1, <3>2, <2>1
  <2>5. \A n \in c + 1 .. b : \E j \in 1..Len(r) :
            r[j].name = x /\ n \in First(r[j]) .. r[j].n
    <3> TAKE n \in c + 1 .. b
    <3>1. n \in a + 1 .. b /\ c < n
      BY <2>1
    <3>2. PICK j \in 1..Len(q) : q[j].name = x /\ n \in First(q[j]) .. q[j].n
      BY <3>1 DEF Carries
    <3>3. j \in 2..Len(q)
      BY <3>1, <3>2, <2>1, <1>1 DEF c
    <3>4. QED
      BY <3>2, <3>3, <1>2
  <2>6. c <= b
    BY <2>1
  <2>7. Carries(r, x, c, b)
    BY <2>4, <2>5, <2>6, <1>3 DEF Carries
  <2>8. QED
    BY <2>1, <2>3, <2>7, <1>1
<1>5. ASSUME Head(q).name # x PROVE Carries(r, x, a, b)
  <2>1. \A j \in 1..Len(r) : j + 1 \in 1..Len(q) /\ r[j] = q[j + 1]
    BY <1>1
  <2>2. a <= b /\ \A j \in 1..Len(r) : r[j].name = x =>
            First(r[j]) \in a + 1 .. b /\ r[j].n \in First(r[j]) .. b
    BY <2>1 DEF Carries
  <2>3. \A n \in a + 1 .. b : \E j \in 1..Len(r) :
            r[j].name = x /\ n \in First(r[j]) .. r[j].n
    <3> TAKE n \in a + 1 .. b
    <3>1. PICK j \in 1..Len(q) : q[j].name = x /\ n \in First(q[j]) .. q[j].n
      BY DEF Carries
    <3>2. j \in 2..Len(q)
      BY <3>1, <1>1, <1>5
    <3>3. QED
      BY <3>1, <3>2, <1>2
  <2>4. QED
    BY <2>2, <2>3, <1>3 DEF Carries
<1>6. QED
  BY <1>1, <1>4, <1>5 DEF r, c

LEMMA CarriesNone ==
    ASSUME NEW q, NEW x, NEW a \in Nat, NEW b \in Nat,
           Carries(q, x, a, b), ~ Has(q, x)
    PROVE  a = b
BY DEF Carries, Has

LEMMA CarriesEmpty ==
    ASSUME NEW x, NEW a \in Nat
    PROVE  Carries(<< >>, x, a, a)
BY DEF Carries

\* One more piece after the first n.
LEMMA NumbersOneMore ==
    ASSUME NEW M, NEW n \in Nat, NEW q \in Seq(M), Len(q) = n, q = Numbers(n),
           NEW h \in M, h = n + 1
    PROVE  q \o <<h>> = Numbers(n + 1) /\ Len(q \o <<h>>) = n + 1
<1>1. /\ q \o <<h>> \in Seq(M) /\ Len(q \o <<h>>) = n + 1
      /\ \A i \in 1..n + 1 : (q \o <<h>>)[i] =
             IF i <= n THEN q[i] ELSE <<h>>[i - n]
  <2>1. <<h>> \in Seq(M) /\ Len(<<h>>) = 1
    OBVIOUS
  <2>2. QED
    BY <2>1, ConcatProperties
<1>2. ASSUME NEW i \in 1..n + 1 PROVE (q \o <<h>>)[i] = i
  <2>1. CASE i <= n
    BY <2>1, <1>1 DEF Numbers
  <2>2. CASE i = n + 1
    BY <2>2, <1>1
  <2>3. QED
    BY <2>1, <2>2
<1>3. q \o <<h>> = [i \in 1..n + 1 |-> i]
  BY <1>1, <1>2, LenProperties
<1>4. QED
  BY <1>1, <1>3 DEF Numbers

\* The bytes of a message behind the first ones.
LEMMA NumbersExtend ==
    ASSUME NEW q \in Seq(Nat), q = Numbers(Len(q)), NEW m, m.n \in Nat,
           m.from = Len(q) + 1, Len(q) < m.n
    PROVE  /\ q \o Bytes(m) = Numbers(m.n) /\ Len(q \o Bytes(m)) = m.n
           /\ q \o Bytes(m) \in Seq(Nat)
<1> DEFINE k == Len(q)
           d == m.n - k
           p == [i \in 1..d |-> k + i]
<1>1. k \in Nat /\ d \in Nat /\ m.n = k + d
  BY LenProperties
<1>2. Bytes(m) = p
  <2>1. m.n - m.from + 1 = d
    BY <1>1
  <2>2. \A i \in 1..d : m.from + i - 1 = k + i
    BY <1>1
  <2>3. QED
    BY <2>1, <2>2 DEF Bytes
<1>3. Len(q) = k /\ \A i \in 1..k : q[i] = i
  BY DEF Numbers
<1> HIDE DEF d, k
<1>4. p \in Seq(Nat) /\ Len(p) = d
  BY <1>1
<1>5. \A i \in 1..d : p[i] = k + i
  OBVIOUS
<1> HIDE DEF p
<1>6. /\ q \o p \in Seq(Nat) /\ Len(q \o p) = k + d
      /\ \A i \in 1..k + d : (q \o p)[i] = IF i <= k THEN q[i] ELSE p[i - k]
  BY <1>3, <1>4, ConcatProperties
<1>7. ASSUME NEW i \in 1..k + d PROVE (q \o p)[i] = i
  <2>1. CASE i <= k
    BY <2>1, <1>1, <1>3, <1>6
  <2>2. CASE i > k
    <3>1. i - k \in 1..d /\ k + (i - k) = i
      BY <2>2, <1>1
    <3>2. QED
      BY <2>2, <3>1, <1>1, <1>5, <1>6
  <2>3. i <= k \/ i > k
    BY <1>1
  <2>4. QED
    BY <2>1, <2>2, <2>3, Zenon
<1>8. q \o p = [i \in 1..k + d |-> i]
  BY <1>6, <1>7, LenProperties
<1>9. QED
  BY <1>1, <1>2, <1>6, <1>8 DEF Numbers

LEMMA NoInputAfterCloseKept ==
    ASSUME NEW M, NEW q \in Seq(M), NoInputAfterClose(q)
    PROVE  /\ \A m \in M : (m.name = "stdin" => ~ Has(q, "close")) =>
                  NoInputAfterClose(Append(q, m))
           /\ q # << >> => NoInputAfterClose(Tail(q))
           /\ q # << >> /\ Head(q).name = "close" => ~ Has(q, "stdin")
<1>1. ASSUME NEW m \in M, m.name = "stdin" => ~ Has(q, "close")
      PROVE  NoInputAfterClose(Append(q, m))
  <2> DEFINE r == Append(q, m)
  <2>1. /\ Len(r) = Len(q) + 1 /\ Len(q) \in Nat
        /\ \A i \in 1..Len(q) : r[i] = q[i]
        /\ r[Len(q) + 1] = m
    BY AppendProperties, LenProperties
  <2> HIDE DEF r
  <2>2. ASSUME NEW i \in 1..Len(r), NEW j \in 1..Len(r), i < j,
               r[i].name = "close"
        PROVE  r[j].name # "stdin"
    <3>1. i \in 1..Len(q) /\ q[i].name = "close"
      BY <2>1, <2>2
    <3>2. CASE j = Len(q) + 1
      BY <3>1, <3>2, <2>1, <1>1 DEF Has
    <3>3. CASE j # Len(q) + 1
      <4>1. j \in 1..Len(q) /\ r[j] = q[j]
        BY <3>3, <2>1
      <4>2. QED
        BY <3>1, <4>1, <2>2 DEF NoInputAfterClose
    <3>4. QED
      BY <3>2, <3>3
  <2>3. QED
    BY <2>2 DEF NoInputAfterClose, r
<1>2. ASSUME q # << >> PROVE NoInputAfterClose(Tail(q))
  <2> DEFINE r == Tail(q)
  <2>1. /\ Len(r) = Len(q) - 1 /\ Len(q) \in Nat \ {0}
        /\ \A i \in 1..Len(r) : r[i] = q[i + 1]
    BY <1>2, HeadTailProperties, EmptySeq, LenProperties
  <2> HIDE DEF r
  <2>2. ASSUME NEW i \in 1..Len(r), NEW j \in 1..Len(r), i < j,
               r[i].name = "close"
        PROVE  r[j].name # "stdin"
    <3>1. /\ i + 1 \in 1..Len(q) /\ j + 1 \in 1..Len(q) /\ i + 1 < j + 1
          /\ r[i] = q[i + 1] /\ r[j] = q[j + 1]
      BY <2>1, <2>2
    <3>2. QED
      BY <3>1, <2>2 DEF NoInputAfterClose
  <2>3. QED
    BY <2>2 DEF NoInputAfterClose, r
<1>3. ASSUME q # << >>, Head(q).name = "close" PROVE ~ Has(q, "stdin")
  <2>1. Len(q) \in Nat \ {0} /\ Head(q) = q[1]
    BY <1>3, HeadTailProperties, EmptySeq, LenProperties
  <2>2. ASSUME NEW j \in 1..Len(q) PROVE q[j].name # "stdin"
    <3>1. CASE j = 1
      BY <3>1, <2>1, <1>3
    <3>2. CASE j # 1
      BY <3>2, <2>1, <1>3 DEF NoInputAfterClose
    <3>3. QED
      BY <3>1, <3>2
  <2>3. QED
    BY <2>2 DEF Has
<1>4. QED
  BY <1>1, <1>2, <1>3

LEMMA ExitLastKept ==
    ASSUME NEW M, NEW q \in Seq(M), NEW v, ExitLast(q, v)
    PROVE  /\ \A m \in M : ~ Has(q, "exit") /\ (m.name = "exit" => m.n = v) =>
                  ExitLast(Append(q, m), v)
           /\ q # << >> => ExitLast(Tail(q), v)
           /\ q # << >> /\ Head(q).name = "exit" =>
                  /\ Head(q).n = v
                  /\ \A x : x # "exit" => ~ Has(q, x)
<1>1. ASSUME NEW m \in M, ~ Has(q, "exit"), m.name = "exit" => m.n = v
      PROVE  ExitLast(Append(q, m), v)
  <2>1. /\ Len(Append(q, m)) = Len(q) + 1 /\ Len(q) \in Nat
        /\ \A i \in 1..Len(q) : Append(q, m)[i] = q[i]
        /\ Append(q, m)[Len(q) + 1] = m
    BY AppendProperties, LenProperties
  <2>2. QED
    BY <2>1, <1>1 DEF ExitLast, Has
<1>2. ASSUME q # << >>
      PROVE  /\ ExitLast(Tail(q), v)
             /\ Head(q).name = "exit" =>
                  /\ Head(q).n = v
                  /\ \A x : x # "exit" => ~ Has(q, x)
  <2>1. /\ Len(Tail(q)) = Len(q) - 1 /\ Len(q) \in Nat \ {0}
        /\ \A i \in 1..Len(Tail(q)) : Tail(q)[i] = q[i + 1]
        /\ Head(q) = q[1]
    BY <1>2, HeadTailProperties, EmptySeq, LenProperties
  <2>2. ExitLast(Tail(q), v)
    <3> SUFFICES ASSUME NEW i \in 1..Len(Tail(q)), Tail(q)[i].name = "exit"
                 PROVE  i = Len(Tail(q)) /\ Tail(q)[i].n = v
      BY DEF ExitLast
    <3>1. i + 1 \in 1..Len(q) /\ Tail(q)[i] = q[i + 1]
      BY <2>1
    <3>2. i + 1 = Len(q) /\ q[i + 1].n = v
      BY <3>1 DEF ExitLast
    <3>3. QED
      BY <3>1, <3>2, <2>1
  <2>3. ASSUME Head(q).name = "exit"
        PROVE  Head(q).n = v /\ \A x : x # "exit" => ~ Has(q, x)
    <3>1. 1 \in 1..Len(q) /\ q[1].name = "exit"
      BY <2>1, <2>3
    <3>2. Len(q) = 1 /\ q[1].n = v
      BY <3>1 DEF ExitLast
    <3>3. ASSUME NEW i \in 1..Len(q) PROVE i = 1
      BY <3>2
    <3>4. ASSUME NEW x, x # "exit" PROVE ~ Has(q, x)
      <4>1. \A i \in 1..Len(q) : q[i].name = "exit"
        BY <3>1, <3>3
      <4>2. QED
        BY <3>4, <4>1 DEF Has
    <3>5. Head(q).n = v
      BY <3>2, <2>1
    <3>6. QED
      BY <3>4, <3>5
  <2>4. QED
    BY <2>2, <2>3
<1>3. QED
  BY <1>1, <1>2

-----------------------------------------------------------------------------
(* The initial state, and the steps of the client. *)

LEMMA InitInv == Init => IInv
<1> SUFFICES ASSUME Init PROVE IInv
  OBVIOUS
<1> USE ConstAssumption
<1>1. TypeOK
  <2>1. open \in BOOLEAN /\ cmdDone \in BOOLEAN /\ eof \in BOOLEAN
    BY Zenon DEF Init
  <2>2. QED
    BY <2>1 DEF Init, TypeOK
<1>2. PhaseInv
  BY DEF Init, PhaseInv
<1>3. InputInv
  BY CarriesEmpty DEF Init, InputInv, Accepted, Taken, Numbers
<1>4. SignalInv /\ EofInv
  BY DEF Init, SignalInv, EofInv, Has, NoInputAfterClose
<1>5. OutputInv
  BY CarriesEmpty DEF Init, OutputInv, Numbers
<1>6. ExitInv
  BY DEF Init, ExitInv, Has, ExitLast
<1>7. QED
  BY <1>1, <1>2, <1>3, <1>4, <1>5, <1>6 DEF IInv

LEMMA FeederReadsInv == IInv /\ FeederReads => IInv'
<1> SUFFICES ASSUME IInv, FeederReads PROVE IInv'
  OBVIOUS
<1> USE DEF FeederReads, pipeVars, daemonVars, childVars
<1>1. TypeOK'
  BY DEF IInv, TypeOK
<1>2. PhaseInv'
  BY DEF IInv, PhaseInv, AllCopied
<1>3. InputInv'
  BY DEF IInv, InputInv, Accepted, Taken
<1>4. SignalInv' /\ EofInv'
  BY DEF IInv, SignalInv, EofInv, Accepted
<1>5. OutputInv' /\ ExitInv'
  BY DEF IInv, OutputInv, ExitInv, AllCopied
<1>6. QED
  BY <1>1, <1>2, <1>3, <1>4, <1>5 DEF IInv

\* A message that the client sends is at the end of the connection, or lost
\* because the daemon has closed it.
LEMMA ToDaemonKept ==
    ASSUME TypeOK, NEW m \in ClientMessages, ToDaemon(m)
    PROVE  /\ c2s' \in Seq(ClientMessages) /\ Len(c2s') <= Cap
           /\ handler # "closed" => c2s' = Append(c2s, m)
           /\ \A x : Has(c2s', x) => Has(c2s, x) \/ m.name = x
           /\ NoInputAfterClose(c2s) /\ (m.name = "stdin" => ~ Has(c2s, "close")) =>
                 NoInputAfterClose(c2s')
<1>1. c2s \in Seq(ClientMessages) /\ Len(c2s) <= Cap /\ Len(c2s) \in Nat
  BY LenProperties DEF TypeOK
<1>2. CASE handler # "closed" /\ Len(c2s) < Cap /\ c2s' = Append(c2s, m)
  <2>1. c2s' \in Seq(ClientMessages) /\ Len(c2s') <= Cap
    BY <1>1, <1>2, AppendProperties, ConstAssumption
  <2>2. \A x : Has(c2s', x) => Has(c2s, x) \/ m.name = x
    BY <1>1, <1>2, HasAppend
  <2>3. QED
    BY <1>1, <1>2, <2>1, <2>2, NoInputAfterCloseKept
<1>3. CASE handler = "closed" /\ UNCHANGED c2s
  BY <1>1, <1>3
<1>4. QED
  BY <1>2, <1>3 DEF ToDaemon

LEMMA FeederSendsInv == IInv /\ FeederSends => IInv'
<1> SUFFICES ASSUME IInv, FeederSends PROVE IInv'
  OBVIOUS
<1> USE DEF FeederSends, daemonVars, childVars
<1> DEFINE m == Message("stdin", fed + 1)
<1>1. /\ m \in ClientMessages /\ m.name = "stdin" /\ m.n = fed + 1
      /\ First(m) = fed + 1
  BY ConstAssumption DEF IInv, TypeOK, PhaseInv, ClientMessages, Message, First
<1> HIDE DEF m
<1>2. ToDaemon(m)
  BY DEF m
<1>3. /\ c2s' \in Seq(ClientMessages) /\ Len(c2s') <= Cap
      /\ handler # "closed" => c2s' = Append(c2s, m)
      /\ \A x : Has(c2s', x) => Has(c2s, x) \/ x = "stdin"
      /\ NoInputAfterClose(c2s')
  BY <1>1, <1>2, ToDaemonKept DEF IInv, SignalInv
<1>4. TypeOK'
  <2>1. fed' \in 0..MaxIn
    BY ConstAssumption DEF IInv, TypeOK, PhaseInv
  <2>2. QED
    BY <1>3, <2>1 DEF IInv, TypeOK
<1>5. PhaseInv'
  BY DEF IInv, PhaseInv, AllCopied
<1>6. InputInv'
  <2>1. /\ Accepted \in Nat /\ Taken \in Nat /\ Accepted' = Accepted /\ Taken' = Taken
        /\ c2s \in Seq(ClientMessages) /\ fed \in Nat
    BY LenProperties, ConstAssumption DEF IInv, TypeOK, Accepted, Taken
  <2>2. child # "exited" /\ handler # "closed" => Carries(c2s', "stdin", Taken, fed + 1)
    <3> SUFFICES ASSUME child # "exited", handler # "closed"
                 PROVE  Carries(c2s', "stdin", Taken, fed + 1)
      OBVIOUS
    <3>1. Carries(c2s, "stdin", Taken, fed)
      BY DEF IInv, InputInv
    <3>2. fed + 1 \in Nat /\ fed < fed + 1
      BY <2>1
    <3>3. QED
      BY <1>1, <1>3, <2>1, <3>1, <3>2, CarriesAppend
  <2>3. fed \in Nat /\ fed' \in Nat /\ fed <= fed'
        /\ (handler # "closed" => fed' = fed + 1)
    BY ConstAssumption DEF IInv, TypeOK
  <2>4. got' \o stdin' = Numbers(Accepted') /\ Accepted' <= fed'
    BY <2>1, <2>3 DEF IInv, InputInv
  <2>5. QED
    BY <2>1, <2>2, <2>3, <2>4 DEF IInv, InputInv
<1>7. SignalInv'
  BY <1>3 DEF IInv, SignalInv
<1>8. EofInv'
  BY DEF IInv, EofInv, Accepted
<1>9. OutputInv' /\ ExitInv'
  BY DEF IInv, OutputInv, ExitInv, AllCopied
<1>10. QED
  BY <1>4, <1>5, <1>6, <1>7, <1>8, <1>9 DEF IInv

\* A message that is not input leaves what the connection carries as it was.
LEMMA NoInputSent ==
    ASSUME IInv, NEW m \in ClientMessages, m.name # "stdin", ToDaemon(m),
           UNCHANGED <<fed, handler, child, reader, held, stdin, got>>
    PROVE  InputInv'
<1>1. /\ c2s \in Seq(ClientMessages)
      /\ handler # "closed" => c2s' = Append(c2s, m)
  BY ToDaemonKept DEF IInv, TypeOK
<1>2. fed \in Nat /\ Taken \in Nat /\ Accepted' = Accepted /\ Taken' = Taken
  BY LenProperties, ConstAssumption DEF IInv, TypeOK, Accepted, Taken
<1>3. child # "exited" /\ handler # "closed" => Carries(c2s', "stdin", Taken, fed)
  BY <1>1, <1>2, CarriesAppend DEF IInv, InputInv
<1>4. QED
  BY <1>2, <1>3 DEF IInv, InputInv

LEMMA FeederClosesInv == IInv /\ FeederCloses => IInv'
<1> SUFFICES ASSUME IInv, FeederCloses PROVE IInv'
  OBVIOUS
<1> USE DEF FeederCloses, daemonVars, childVars
<1> DEFINE m == Message("close", 0)
<1>1. m \in ClientMessages /\ m.name = "close"
  BY DEF ClientMessages, Message
<1> HIDE DEF m
<1>2. ToDaemon(m)
  BY DEF m
<1>3. /\ c2s' \in Seq(ClientMessages) /\ Len(c2s') <= Cap
      /\ \A x : Has(c2s', x) => Has(c2s, x) \/ x = "close"
      /\ NoInputAfterClose(c2s')
  BY <1>1, <1>2, ToDaemonKept DEF IInv, SignalInv
<1>4. TypeOK'
  BY <1>3 DEF IInv, TypeOK
<1>5. PhaseInv'
  BY DEF IInv, PhaseInv, AllCopied
<1>6. InputInv'
  BY <1>1, <1>2, NoInputSent
<1>7. SignalInv'
  BY <1>3 DEF IInv, SignalInv
<1>8. EofInv'
  BY DEF IInv, EofInv, Accepted
<1>9. OutputInv' /\ ExitInv'
  BY DEF IInv, OutputInv, ExitInv, AllCopied
<1>10. QED
  BY <1>4, <1>5, <1>6, <1>7, <1>8, <1>9 DEF IInv

LEMMA SendCtrlCInv == IInv /\ SendCtrlC => IInv'
<1> SUFFICES ASSUME IInv, SendCtrlC PROVE IInv'
  OBVIOUS
<1> USE DEF SendCtrlC, daemonVars, childVars
<1> DEFINE m == Message("ctrlc", 0)
<1>1. m \in ClientMessages /\ m.name = "ctrlc"
  BY DEF ClientMessages, Message
<1> HIDE DEF m
<1>2. ToDaemon(m)
  BY DEF m
<1>3. /\ c2s' \in Seq(ClientMessages) /\ Len(c2s') <= Cap
      /\ \A x : Has(c2s', x) => Has(c2s, x) \/ x = "ctrlc"
      /\ NoInputAfterClose(c2s')
  BY <1>1, <1>2, ToDaemonKept DEF IInv, SignalInv
<1>4. TypeOK'
  BY <1>3 DEF IInv, TypeOK
<1>5. PhaseInv'
  BY DEF IInv, PhaseInv, AllCopied
<1>6. InputInv'
  BY <1>1, <1>2, NoInputSent
<1>7. SignalInv'
  BY <1>3 DEF IInv, SignalInv
<1>8. EofInv'
  BY DEF IInv, EofInv, Accepted
<1>9. OutputInv' /\ ExitInv'
  BY DEF IInv, OutputInv, ExitInv, AllCopied
<1>10. QED
  BY <1>4, <1>5, <1>6, <1>7, <1>8, <1>9 DEF IInv

LEMMA PressInv == IInv /\ Press => IInv'
<1> SUFFICES ASSUME IInv, Press PROVE IInv'
  OBVIOUS
<1> USE DEF Press, pipeVars, daemonVars, childVars
<1>1. TypeOK' /\ PhaseInv'
  BY ConstAssumption DEF IInv, TypeOK, PhaseInv, AllCopied
<1>2. InputInv'
  BY DEF IInv, InputInv, Accepted, Taken
<1>3. SignalInv' /\ EofInv'
  BY ConstAssumption DEF IInv, TypeOK, SignalInv, EofInv, Accepted
<1>4. OutputInv' /\ ExitInv'
  BY DEF IInv, OutputInv, ExitInv, AllCopied
<1>5. QED
  BY <1>1, <1>2, <1>3, <1>4 DEF IInv

\* runServer returns, with a result it knows or Lost.
LEMMA ReturnsInv ==
    ASSUME IInv, NEW r \in Codes \cup {Lost}, Returns(r),
           s2c' \in Seq(DaemonMessages), Len(s2c') <= Cap,
           ExitLast(s2c', status), Has(s2c', "exit") => Has(s2c, "exit"),
           UNCHANGED <<c2s, daemonVars, childVars>>
    PROVE  IInv'
<1> USE DEF Returns, daemonVars, childVars
<1>1. r # None
  BY ConstAssumption
<1>2. TypeOK'
  <2>1. open' \in BOOLEAN
    BY Zenon
  <2>2. QED
    BY <2>1 DEF IInv, TypeOK
<1>3. PhaseInv'
  BY <1>1 DEF IInv, PhaseInv, AllCopied
<1>4. InputInv'
  BY DEF IInv, InputInv, Accepted, Taken
<1>5. SignalInv' /\ EofInv'
  BY <1>1 DEF IInv, SignalInv, EofInv, Accepted
<1>6. OutputInv'
  BY <1>1 DEF IInv, OutputInv
<1>7. ExitInv'
  BY DEF IInv, ExitInv, AllCopied
<1>8. QED
  BY <1>2, <1>3, <1>4, <1>5, <1>6, <1>7 DEF IInv

LEMMA ReceiveEOFInv == IInv /\ (ReceiveEOF \/ Die) => IInv'
<1>1. ASSUME IInv, Returns(Lost), UNCHANGED <<pipeVars, daemonVars, childVars>>
      PROVE  IInv'
  <2>1. /\ s2c' \in Seq(DaemonMessages) /\ Len(s2c') <= Cap
        /\ ExitLast(s2c', status) /\ s2c' = s2c
    BY <1>1 DEF IInv, TypeOK, ExitInv, pipeVars
  <2>2. QED
    BY <1>1, <2>1, ReturnsInv DEF pipeVars
<1>2. QED
  BY <1>1 DEF ReceiveEOF, Die

LEMMA ReceiveInv == IInv /\ Receive => IInv'
<1> SUFFICES ASSUME IInv, Receive PROVE IInv'
  OBVIOUS
<1> DEFINE m == Head(s2c)
<1>1. /\ s2c \in Seq(DaemonMessages) /\ s2c # << >> /\ Len(s2c) <= Cap
      /\ s2c' = Tail(s2c) /\ result = None
      /\ UNCHANGED <<c2s, daemonVars, childVars>>
  BY DEF Receive, IInv, TypeOK
<1>2. m \in DaemonMessages /\ s2c' \in Seq(DaemonMessages) /\ Len(s2c') <= Cap
  BY <1>1, HeadTailProperties, EmptySeq, ConstAssumption
<1>3. /\ ExitLast(s2c', status) /\ \A x : Has(s2c', x) => Has(s2c, x)
      /\ m.name = "exit" => Has(s2c, "exit") /\ m.n = status
                            /\ \A x : x # "exit" => ~ Has(s2c, x)
  BY <1>1, ExitLastKept, HasTail DEF IInv, ExitInv
<1>0. m = Head(s2c)
  OBVIOUS
<1> HIDE DEF m
<1>4. /\ m.name = "error" => m.name \notin Streams
      /\ m.name = "exit" => m.name \notin Streams
  BY ConstAssumption
<1>5. ASSUME NEW s \in Streams
      PROVE  /\ Len(printed[s]) \in Nat /\ sent[s] \in Nat
             /\ Carries(s2c, s, Len(printed[s]), sent[s])
             /\ printed[s] \in Seq(Nat)
  BY <1>1, LenProperties DEF IInv, TypeOK, OutputInv
<1>6. CASE m.name \in Streams /\ printed' = [printed EXCEPT ![m.name] = @ \o Bytes(m)]
           /\ UNCHANGED <<feeder, fed, sigs, pressed, result, open>>
  <2> USE DEF daemonVars, childVars
  <2> DEFINE s == m.name
             p == printed[s]
  <2>1. /\ First(m) = Len(p) + 1 /\ m.n \in Len(p) + 1 .. sent[s]
        /\ Carries(s2c', s, m.n, sent[s])
    <3> HIDE DEF p, s
    <3>1. s \in Streams /\ Head(s2c).name = s /\ p = printed[s]
      BY <1>0, <1>6 DEF p, s
    <3>2. Len(p) \in Nat /\ sent[s] \in Nat /\ Carries(s2c, s, Len(p), sent[s])
      BY <3>1, <1>5
    <3>3. QED
      BY <1>0, <1>1, <3>1, <3>2, CarriesTail
  <2>2. \A t \in Streams : t # s => Carries(s2c', t, Len(printed[t]), sent[t])
    BY <1>0, <1>1, <1>5, <1>6, CarriesTail
  <2>3. m.n \in Nat /\ Len(p) < m.n /\ m.n <= sent[s] /\ m.from = Len(p) + 1
    BY <1>5, <1>6, <2>1 DEF First
  <2>4. /\ p \o Bytes(m) \in Seq(Nat) /\ Len(p \o Bytes(m)) = m.n
        /\ p \o Bytes(m) = Numbers(m.n)
    <3>1. p \in Seq(Nat) /\ p = Numbers(Len(p))
      BY <1>5, <1>6 DEF IInv, OutputInv
    <3> HIDE DEF p
    <3>2. QED
      BY <3>1, <2>3, NumbersExtend
  <2>5. s \in Streams /\ printed \in [Streams -> Seq(Nat)]
        /\ printed' = [printed EXCEPT ![s] = p \o Bytes(m)]
    BY <1>6 DEF IInv, TypeOK
  <2> DEFINE w == p \o Bytes(m)
  <2> HIDE DEF s, w
  <2>6. printed' = [printed EXCEPT ![s] = w] /\ w \in Seq(Nat) /\ Len(w) = m.n
        /\ w = Numbers(m.n) /\ UNCHANGED <<written, copied, sent, result>>
    BY <2>4, <2>5, <1>1, <1>6 DEF w, s
  <2>7. TypeOK'
    <3>1. printed' \in [Streams -> Seq(Nat)]
      BY <2>5, <2>6
    <3>2. UNCHANGED <<feeder, fed, sigs, pressed, result, open, c2s, daemonVars,
                      childVars>>
      BY <1>1, <1>6
    <3>3. QED
      BY <1>2, <3>1, <3>2 DEF IInv, TypeOK
  <2>8. PhaseInv'
    BY <1>1, <1>6 DEF IInv, PhaseInv, AllCopied
  <2>9. InputInv' /\ SignalInv' /\ EofInv'
    BY <1>1, <1>6 DEF IInv, InputInv, SignalInv, EofInv, Accepted, Taken
  <2>10. OutputInv'
    <3>1. ASSUME NEW t \in Streams
          PROVE  /\ Len(printed'[t]) <= sent'[t]
                 /\ printed'[t] = Numbers(Len(printed'[t]))
                 /\ Carries(s2c', t, Len(printed'[t]), sent'[t])
      <4>1. CASE t = s
        <5>1. printed'[t] = w
          BY <4>1, <2>5, <2>6
        <5>2. QED
          BY <5>1, <4>1, <2>1, <2>3, <2>6 DEF s
      <4>2. CASE t # s
        <5>1. printed'[t] = printed[t] /\ sent'[t] = sent[t]
          BY <4>2, <2>5, <2>6
        <5>2. QED
          BY <5>1, <4>2, <2>2 DEF IInv, OutputInv
      <4>3. QED
        BY <4>1, <4>2
    <3>2. \A t \in Streams : /\ sent'[t] <= copied'[t] /\ copied'[t] <= written'[t]
                             /\ copied'[t] - Hold[t][copied'[t]] <= sent'[t]
      BY <2>6 DEF IInv, OutputInv
    <3>3. QED
      BY <3>1, <3>2 DEF OutputInv
  <2>11. ExitInv'
    BY <1>1, <1>3 DEF IInv, ExitInv, AllCopied
  <2>12. QED
    BY <2>7, <2>8, <2>9, <2>10, <2>11 DEF IInv
<1>7. CASE m.name = "error" /\ UNCHANGED clientVars
  <2> USE DEF clientVars, daemonVars, childVars
  <2>1. \A t \in Streams : Carries(s2c', t, Len(printed[t]), sent[t])
    BY <1>1, <1>4, <1>5, <1>7, CarriesTail DEF m
  <2>2. TypeOK' /\ PhaseInv'
    BY <1>1, <1>2, <1>7 DEF IInv, TypeOK, PhaseInv, AllCopied
  <2>3. InputInv' /\ SignalInv' /\ EofInv'
    BY <1>1, <1>7 DEF IInv, InputInv, SignalInv, EofInv, Accepted, Taken
  <2>4. OutputInv'
    BY <1>1, <1>7, <2>1 DEF IInv, OutputInv
  <2>5. ExitInv'
    BY <1>1, <1>3, <1>7 DEF IInv, ExitInv, AllCopied
  <2>6. QED
    BY <2>2, <2>3, <2>4, <2>5 DEF IInv
<1>8. CASE m.name = "exit" /\ Returns(m.n)
  <2>1. m.n \in Codes
    BY <1>2, <1>8, ConstAssumption DEF DaemonMessages
  <2>2. QED
    BY <1>1, <1>2, <1>3, <1>8, <2>1, ReturnsInv
<1>9. QED
  BY <1>6, <1>7, <1>8 DEF Receive, m

-----------------------------------------------------------------------------
(* The steps of the daemon's handler. *)

LEMMA NoExit == ASSUME NEW q, NEW v, ~ Has(q, "exit") PROVE ExitLast(q, v)
BY DEF Has, ExitLast

\* Before the handler waits there is no exit message.
LEMMA NoExitYet ==
    ASSUME IInv, \/ handler \in {"start", "launch", "run", "cmdDone", "exit"}
                 \/ child # "exited"
    PROVE  ~ Has(s2c, "exit")
BY DEF IInv, ExitInv

\* A message that the daemon sends is at the end of the connection, or lost
\* because the client has closed it.
LEMMA ToClientKept ==
    ASSUME TypeOK, NEW m \in DaemonMessages, ToClient(m), NEW v
    PROVE  /\ s2c' \in Seq(DaemonMessages) /\ Len(s2c') <= Cap
           /\ open => s2c' = Append(s2c, m)
           /\ \A x : Has(s2c', x) => Has(s2c, x) \/ m.name = x
           /\ ~ Has(s2c, "exit") /\ (m.name = "exit" => m.n = v) =>
                 ExitLast(s2c', v)
<1>1. s2c \in Seq(DaemonMessages) /\ Len(s2c) <= Cap /\ Len(s2c) \in Nat
  BY LenProperties DEF TypeOK
<1>2. CASE open /\ Len(s2c) < Cap /\ s2c' = Append(s2c, m)
  <2>1. s2c' \in Seq(DaemonMessages) /\ Len(s2c') <= Cap
    BY <1>1, <1>2, AppendProperties, ConstAssumption
  <2>2. \A x : Has(s2c', x) => Has(s2c, x) \/ m.name = x
    BY <1>1, <1>2, HasAppend
  <2>3. ~ Has(s2c, "exit") /\ (m.name = "exit" => m.n = v) => ExitLast(s2c', v)
    BY <1>1, <1>2, NoExit, ExitLastKept
  <2>4. QED
    BY <1>2, <2>1, <2>2, <2>3
<1>3. CASE ~ open /\ UNCHANGED s2c
  BY <1>1, <1>3, NoExit
<1>4. QED
  BY <1>2, <1>3 DEF ToClient

\* A message that is not output leaves what the connection carries as it was.
LEMMA NoOutputSent ==
    ASSUME IInv, NEW m \in DaemonMessages, m.name \notin Streams, ToClient(m),
           UNCHANGED <<result, printed, copied, sent, written>>
    PROVE  OutputInv'
<1>1. s2c \in Seq(DaemonMessages) /\ (open => s2c' = Append(s2c, m))
  BY ToClientKept DEF IInv, TypeOK
<1>2. ASSUME result = None, NEW s \in Streams
      PROVE  Carries(s2c', s, Len(printed[s]), sent[s])
  <2>1. /\ Len(printed[s]) \in Nat /\ sent[s] \in Nat
        /\ Carries(s2c, s, Len(printed[s]), sent[s])
    BY <1>2, LenProperties DEF IInv, TypeOK, OutputInv
  <2>2. s2c' = Append(s2c, m)
    BY <1>1, <1>2 DEF IInv, PhaseInv
  <2>3. QED
    BY <1>1, <2>1, <2>2, CarriesAppend
<1>3. QED
  BY <1>2 DEF IInv, OutputInv

\* Bytes that a message carries behind those that were sent before.
LEMMA OutputSent ==
    ASSUME IInv, NEW s \in Streams, NEW n \in Nat, sent[s] < n,
           ToClient(Output(s, sent[s] + 1, n)), UNCHANGED <<result, printed>>,
           sent' = [sent EXCEPT ![s] = n]
    PROVE  result = None => \A t \in Streams : Carries(s2c', t, Len(printed[t]), sent'[t])
<1> DEFINE m == Output(s, sent[s] + 1, n)
<1>1. sent \in [Streams -> Nat] /\ s2c \in Seq(DaemonMessages)
  BY DEF IInv, TypeOK
<1>2. m \in DaemonMessages /\ m.name = s /\ First(m) = sent[s] + 1 /\ m.n = n
  BY <1>1 DEF DaemonMessages, Output, First
<1> HIDE DEF m
<1>3. SUFFICES ASSUME result = None, NEW t \in Streams
               PROVE  Carries(s2c', t, Len(printed[t]), sent'[t])
  OBVIOUS
<1>4. s2c' = Append(s2c, m)
  BY <1>3 DEF m, ToClient, IInv, PhaseInv
<1>5. /\ Carries(s2c, t, Len(printed[t]), sent[t])
      /\ Len(printed[t]) \in Nat /\ sent[t] \in Nat
  BY <1>3, <1>1, LenProperties DEF IInv, TypeOK, OutputInv
<1>6. CASE t = s
  BY <1>1, <1>2, <1>4, <1>5, <1>6, CarriesAppend
<1>7. CASE t # s
  BY <1>1, <1>2, <1>4, <1>5, <1>7, CarriesAppend
<1>8. QED
  BY <1>6, <1>7

LEMMA InterceptInv == IInv /\ Intercept => IInv'
<1> SUFFICES ASSUME IInv, Intercept PROVE IInv'
  OBVIOUS
<1>1. PICK n \in 1..MaxOut["stdout"] :
          /\ ToClient(Output("stdout", 1, n))
          /\ written' = [written EXCEPT !["stdout"] = n]
          /\ copied' = [copied EXCEPT !["stdout"] = n]
          /\ sent' = [sent EXCEPT !["stdout"] = n]
  BY DEF Intercept
<1>2. /\ MaxOut["stdout"] \in Nat /\ n \in Nat /\ n > 0 /\ "stdout" \in Streams
      /\ n <= MaxOut["stdout"] /\ {0, 1} \subseteq Codes /\ None \notin Codes
      /\ Hold["stdout"][n] \in Nat
  BY ConstAssumption
<1>3. /\ \A s \in Streams : written[s] = 0 /\ copied[s] = 0 /\ sent[s] = 0
      /\ written \in [Streams -> Nat] /\ copied \in [Streams -> Nat]
      /\ sent \in [Streams -> Nat] /\ child = "none" /\ reader = "none"
  BY DEF Intercept, IInv, TypeOK, PhaseInv, OutputInv
<1> DEFINE m == Output("stdout", 1, n)
<1>4. m \in DaemonMessages /\ m.name # "exit" /\ ToClient(m)
  BY <1>1, <1>2, ConstAssumption DEF DaemonMessages, Output
<1> HIDE DEF m
<1>5. /\ s2c' \in Seq(DaemonMessages) /\ Len(s2c') <= Cap
      /\ ~ Has(s2c', "exit")
  BY <1>4, NoExitYet, ToClientKept DEF IInv, Intercept
<1> USE DEF Intercept, clientVars
<1>6. TypeOK'
  BY <1>1, <1>2, <1>3, <1>5 DEF IInv, TypeOK
<1>7. PhaseInv'
  <2>1. AllCopied' /\ code = 0
    <3>1. \A s \in Streams : copied'[s] = written'[s]
      <4> TAKE s \in Streams
      <4>1. CASE s = "stdout"
        BY <4>1, <1>1, <1>3
      <4>2. CASE s # "stdout"
        BY <4>2, <1>1, <1>3
      <4>3. QED
        BY <4>1, <4>2
    <3>2. code = 0
      BY DEF IInv, PhaseInv
    <3>3. QED
      BY <3>1, <3>2 DEF AllCopied
  <2>2. QED
    BY <1>2, <1>3, <2>1 DEF IInv, PhaseInv
<1>8. InputInv' /\ SignalInv' /\ EofInv'
  BY <1>3 DEF IInv, InputInv, SignalInv, EofInv, Accepted, PhaseInv
<1>9. OutputInv'
  <2>1. ASSUME NEW s \in Streams
        PROVE  /\ sent'[s] <= copied'[s] /\ copied'[s] <= written'[s]
               /\ copied'[s] - Hold[s][copied'[s]] <= sent'[s]
               /\ Len(printed[s]) <= sent'[s]
               /\ printed[s] = Numbers(Len(printed[s]))
    <3>1. /\ Len(printed[s]) \in Nat /\ Len(printed[s]) <= sent[s]
          /\ printed[s] = Numbers(Len(printed[s]))
          /\ copied[s] - Hold[s][copied[s]] <= sent[s]
      BY LenProperties DEF IInv, TypeOK, OutputInv
    <3>2. CASE s = "stdout"
      BY <3>1, <3>2, <1>1, <1>2, <1>3
    <3>3. CASE s # "stdout"
      <4>1. sent'[s] = sent[s] /\ copied'[s] = copied[s] /\ written'[s] = written[s]
        BY <3>3, <1>1, <1>3
      <4>2. QED
        BY <4>1, <3>1, <1>3
    <3>4. QED
      BY <3>2, <3>3
  <2>2. sent["stdout"] + 1 = 1 /\ sent["stdout"] < n
    BY <1>2, <1>3
  <2>3. result = None => \A t \in Streams : Carries(s2c', t, Len(printed[t]), sent'[t])
    BY <1>1, <1>2, <2>2, OutputSent
  <2>4. QED
    BY <2>1, <2>3 DEF OutputInv
<1>10. ExitInv'
  BY <1>5, NoExit DEF ExitInv
<1>11. QED
  BY <1>6, <1>7, <1>8, <1>9, <1>10 DEF IInv

\* The command never ran: nothing was written, so nothing is left to copy.
LEMMA NothingToCopy ==
    ASSUME IInv, child = "none"
    PROVE  AllCopied
<1> SUFFICES ASSUME NEW s \in Streams PROVE copied[s] = written[s]
  BY DEF AllCopied
<1>1. written[s] = 0 /\ copied[s] <= written[s] /\ copied[s] \in Nat
  BY DEF IInv, TypeOK, PhaseInv, OutputInv
<1>2. QED
  BY <1>1

\* The command cannot be started: an error message, and exit code 1.
LEMMA FailedStartInv ==
    ASSUME IInv, child = "none", ToClient(Message("error", 0)),
           handler \in {"start", "launch"},
           handler' \in {"cmdDone", "exit"}, code' = 1,
           child' = "exited", status' = 1,
           reader' \in {reader, "done"}, eof' \in {eof, TRUE},
           UNCHANGED <<clientVars, c2s, held, cmdDone, stdin, got, written,
                       copied, sent>>
    PROVE  IInv'
<1> USE ConstAssumption DEF clientVars
<1> DEFINE m == Message("error", 0)
<1>1. m \in DaemonMessages /\ m.name = "error" /\ m.name \notin Streams
  BY DEF DaemonMessages, Message
<1> HIDE DEF m
<1>2. ToClient(m)
  BY DEF m
<1>3. /\ s2c' \in Seq(DaemonMessages) /\ Len(s2c') <= Cap
      /\ ~ Has(s2c', "exit")
  BY <1>1, <1>2, NoExitYet, ToClientKept DEF IInv
<1>4. TypeOK'
  <2>1. eof' \in BOOLEAN
    BY Zenon DEF IInv, TypeOK
  <2>2. QED
    BY <1>3, <2>1 DEF IInv, TypeOK
<1>5. PhaseInv'
  BY NothingToCopy DEF IInv, PhaseInv, AllCopied
<1>6. InputInv' /\ SignalInv' /\ EofInv'
  BY DEF IInv, InputInv, SignalInv, EofInv, Accepted
<1>7. OutputInv'
  BY <1>1, <1>2, NoOutputSent
<1>8. ExitInv'
  BY <1>3, NoExit DEF ExitInv
<1>9. QED
  BY <1>4, <1>5, <1>6, <1>7, <1>8 DEF IInv

LEMMA NoStdinPipeInv == IInv /\ NoStdinPipe => IInv'
BY FailedStartInv DEF NoStdinPipe, IInv, PhaseInv

LEMMA LaunchFailsInv == IInv /\ LaunchFails => IInv'
BY FailedStartInv DEF LaunchFails, IInv, PhaseInv

\* The handler goes on, without a message.
LEMMA StartReaderInv == IInv /\ (StartReader \/ Launch) => IInv'
<1> SUFFICES ASSUME IInv, StartReader \/ Launch PROVE IInv'
  OBVIOUS
<1> USE DEF StartReader, Launch, clientVars, pipeVars, childVars
<1>1. TypeOK'
  BY DEF IInv, TypeOK
<1>2. PhaseInv'
  BY ConstAssumption DEF IInv, PhaseInv, AllCopied
<1>3. Accepted' = Accepted /\ Taken' = Taken /\ (reader' = "write" <=> reader = "write")
  BY DEF IInv, PhaseInv, Accepted, Taken
<1>4. InputInv'
  BY <1>3 DEF IInv, PhaseInv, InputInv
<1>5. SignalInv' /\ EofInv'
  BY <1>3 DEF IInv, PhaseInv, SignalInv, EofInv
<1>6. OutputInv'
  BY DEF IInv, OutputInv
<1>7. ExitInv'
  BY NoExitYet, NoExit DEF ExitInv
<1>8. QED
  BY <1>1, <1>2, <1>4, <1>5, <1>6, <1>7 DEF IInv

LEMMA RunReturnsInv == IInv /\ (RunReturns \/ CloseCmdDone) => IInv'
<1> SUFFICES ASSUME IInv, RunReturns \/ CloseCmdDone PROVE IInv'
  OBVIOUS
<1> USE DEF RunReturns, CloseCmdDone, Ended, clientVars, pipeVars, childVars
<1>1. TypeOK'
  <2>1. code' \in Codes
    BY DEF IInv, TypeOK, PhaseInv
  <2>2. QED
    BY <2>1 DEF IInv, TypeOK
<1>2. PhaseInv'
  BY DEF IInv, PhaseInv, AllCopied
<1>3. InputInv' /\ SignalInv' /\ EofInv'
  BY DEF IInv, PhaseInv, InputInv, SignalInv, EofInv, Accepted, Taken
<1>4. OutputInv'
  BY DEF IInv, OutputInv
<1>5. ExitInv'
  BY NoExitYet, NoExit DEF ExitInv
<1>6. QED
  BY <1>1, <1>2, <1>3, <1>4, <1>5 DEF IInv

LEMMA SendExitInv == IInv /\ SendExit => IInv'
<1> SUFFICES ASSUME IInv, SendExit PROVE IInv'
  OBVIOUS
<1> USE DEF SendExit, clientVars, childVars
<1> DEFINE m == Message("exit", code)
<1>1. /\ m \in DaemonMessages /\ m.name = "exit" /\ m.name \notin Streams
      /\ m.n = status
  BY ConstAssumption DEF DaemonMessages, Message, IInv, TypeOK, PhaseInv
<1> HIDE DEF m
<1>2. ToClient(m)
  BY DEF m
<1>3. /\ s2c' \in Seq(DaemonMessages) /\ Len(s2c') <= Cap
      /\ ExitLast(s2c', status)
  BY <1>1, <1>2, NoExitYet, ToClientKept DEF IInv
<1>4. TypeOK'
  BY <1>3 DEF IInv, TypeOK
<1>5. PhaseInv'
  BY DEF IInv, PhaseInv, AllCopied
<1>6. InputInv' /\ SignalInv' /\ EofInv'
  BY DEF IInv, PhaseInv, InputInv, SignalInv, EofInv, Accepted, Taken
<1>7. OutputInv'
  BY <1>1, <1>2, NoOutputSent
<1>8. ExitInv'
  BY <1>3 DEF IInv, PhaseInv, ExitInv, AllCopied
<1>9. QED
  BY <1>4, <1>5, <1>6, <1>7, <1>8 DEF IInv

LEMMA WaitStdinDoneInv == IInv /\ WaitStdinDone => IInv'
<1> SUFFICES ASSUME IInv, WaitStdinDone PROVE IInv'
  OBVIOUS
<1> USE DEF WaitStdinDone, StdinDone, clientVars, pipeVars, childVars
<1>1. TypeOK' /\ PhaseInv'
  BY DEF IInv, TypeOK, PhaseInv, AllCopied
<1>2. InputInv' /\ SignalInv' /\ EofInv'
  BY DEF IInv, PhaseInv, InputInv, SignalInv, EofInv, Accepted, Taken
<1>3. OutputInv' /\ ExitInv'
  BY DEF IInv, OutputInv, ExitInv, AllCopied
<1>4. QED
  BY <1>1, <1>2, <1>3 DEF IInv

\* Taking a message off the connection.
LEMMA FromClientKept ==
    ASSUME IInv, c2s # << >>, c2s' = Tail(c2s)
    PROVE  /\ c2s' \in Seq(ClientMessages) /\ Len(c2s') <= Cap
           /\ \A x : Has(c2s', x) => Has(c2s, x)
           /\ Has(c2s, Head(c2s).name)
           /\ NoInputAfterClose(c2s')
           /\ Head(c2s).name = "close" => ~ Has(c2s, "stdin")
<1>1. c2s \in Seq(ClientMessages) /\ Len(c2s) <= Cap /\ NoInputAfterClose(c2s)
  BY DEF IInv, TypeOK, SignalInv
<1>2. QED
  BY <1>1, HeadTailProperties, EmptySeq, HasTail, NoInputAfterCloseKept,
     ConstAssumption

LEMMA DrainInv == IInv /\ Drain => IInv'
<1> SUFFICES ASSUME IInv, Drain PROVE IInv'
  OBVIOUS
<1> USE DEF Drain, clientVars, childVars
<1>1. /\ c2s' \in Seq(ClientMessages) /\ Len(c2s') <= Cap
      /\ \A x : Has(c2s', x) => Has(c2s, x)
      /\ NoInputAfterClose(c2s')
  BY FromClientKept DEF IInv, TypeOK, SignalInv
<1>2. TypeOK'
  BY <1>1 DEF IInv, TypeOK
<1>3. PhaseInv'
  BY DEF IInv, PhaseInv, AllCopied
<1>4. InputInv' /\ SignalInv' /\ EofInv'
  BY <1>1 DEF IInv, PhaseInv, InputInv, SignalInv, EofInv, Accepted
<1>5. OutputInv' /\ ExitInv'
  BY DEF IInv, OutputInv, ExitInv, AllCopied
<1>6. QED
  BY <1>2, <1>3, <1>4, <1>5 DEF IInv

LEMMA DaemonStopsInv == IInv /\ DaemonStops => IInv'
<1> SUFFICES ASSUME IInv, DaemonStops PROVE IInv'
  OBVIOUS
<1> USE DEF DaemonStops, clientVars, pipeVars
<1>1. TypeOK' /\ PhaseInv'
  BY DEF IInv, TypeOK, PhaseInv, AllCopied
<1>2. InputInv' /\ SignalInv' /\ EofInv'
  BY DEF IInv, InputInv, SignalInv, EofInv, Accepted
<1>3. OutputInv' /\ ExitInv'
  BY DEF IInv, OutputInv, ExitInv, AllCopied
<1>4. QED
  BY <1>1, <1>2, <1>3 DEF IInv

-----------------------------------------------------------------------------
(* The steps of the stdin goroutine. *)

\* The goroutine returns without having taken anything, and for a reason that
\* EofInv knows: the command has ended, or the client has.
LEMMA ReaderEndsInv ==
    ASSUME IInv, ReaderEnds, reader \in {"check", "decode"},
           child = "exited" \/ result # None,
           UNCHANGED <<clientVars, pipeVars, handler, code, held, cmdDone, child,
                       status, stdin, got, written, copied, sent>>
    PROVE  IInv'
<1> USE DEF ReaderEnds, clientVars, pipeVars
<1>1. TypeOK' /\ PhaseInv'
  BY DEF IInv, TypeOK, PhaseInv, AllCopied
<1>2. Accepted' = Accepted /\ Taken' = Taken
  BY DEF Accepted, Taken
<1>3. InputInv' /\ SignalInv' /\ EofInv'
  BY <1>2 DEF IInv, InputInv, SignalInv, EofInv
<1>4. OutputInv' /\ ExitInv'
  BY DEF IInv, OutputInv, ExitInv, AllCopied
<1>5. QED
  BY <1>1, <1>3, <1>4 DEF IInv

LEMMA ReaderEOFInv == IInv /\ ReaderEOF => IInv'
BY ReaderEndsInv DEF ReaderEOF, IInv, PhaseInv

LEMMA ReaderChecksInv == IInv /\ ReaderChecks => IInv'
<1> SUFFICES ASSUME IInv, ReaderChecks PROVE IInv'
  OBVIOUS
<1>1. CASE cmdDone /\ ReaderEnds
  BY <1>1, ReaderEndsInv DEF ReaderChecks, IInv, PhaseInv
<1>2. CASE ~ cmdDone /\ reader' = "decode" /\ UNCHANGED eof
  <2> USE DEF ReaderChecks, clientVars, pipeVars
  <2>1. TypeOK' /\ PhaseInv'
    BY <1>2 DEF IInv, TypeOK, PhaseInv, AllCopied
  <2>2. Accepted' = Accepted /\ Taken' = Taken
    BY <1>2 DEF Accepted, Taken
  <2>3. InputInv' /\ SignalInv' /\ EofInv'
    BY <1>2, <2>2 DEF IInv, InputInv, SignalInv, EofInv
  <2>4. OutputInv' /\ ExitInv'
    BY <1>2 DEF IInv, OutputInv, ExitInv, AllCopied
  <2>5. QED
    BY <2>1, <2>3, <2>4 DEF IInv
<1>3. QED
  BY <1>1, <1>2 DEF ReaderChecks

LEMMA ReaderDecodesInv == IInv /\ ReaderDecodes => IInv'
<1> SUFFICES ASSUME IInv, ReaderDecodes PROVE IInv'
  OBVIOUS
<1> USE DEF clientVars
<1> DEFINE m == Head(c2s)
<1>1. /\ reader = "decode" /\ c2s # << >> /\ c2s' = Tail(c2s)
      /\ c2s \in Seq(ClientMessages)
      /\ UNCHANGED <<clientVars, s2c, handler, code, cmdDone, stdin, got, written,
                     copied, sent>>
  BY DEF ReaderDecodes, IInv, TypeOK
<1>2. m \in ClientMessages
  BY <1>1, HeadTailProperties
<1>3. /\ c2s' \in Seq(ClientMessages) /\ Len(c2s') <= Cap
      /\ \A x : Has(c2s', x) => Has(c2s, x)
      /\ NoInputAfterClose(c2s')
      /\ Has(c2s, m.name)
      /\ m.name = "close" => ~ Has(c2s, "stdin")
  BY <1>1, FromClientKept
<1>4. /\ Accepted \in Nat /\ Accepted' = Accepted /\ Taken = Accepted
      /\ fed \in Nat
  BY <1>1, LenProperties, ConstAssumption DEF IInv, TypeOK, Accepted, Taken
<1>5. ASSUME child # "exited" /\ handler # "closed"
      PROVE  /\ m.name = "stdin" =>
                    m.n = Accepted + 1 /\ Carries(c2s', "stdin", Accepted + 1, fed)
             /\ m.name # "stdin" => Carries(c2s', "stdin", Accepted, fed)
             /\ m.name = "close" => fed = Accepted
  <2>1. Carries(c2s, "stdin", Accepted, fed)
    BY <1>4, <1>5 DEF IInv, InputInv
  <2>2. QED
    <3>1. Head(c2s).name = "stdin" => First(Head(c2s)) = Head(c2s).n
      BY ConstAssumption DEF First
    <3>2. QED
      BY <1>1, <1>3, <1>4, <2>1, <3>1, CarriesTail, CarriesNone
<1> HIDE DEF m
<1>6. CASE /\ m.name = "stdin" /\ held' = m.n /\ reader' = "write"
           /\ UNCHANGED <<child, status, eof>>
  <2>1. m.n \in 1..MaxIn
    BY <1>2, <1>6 DEF ClientMessages
  <2>2. TypeOK'
    BY <1>1, <1>3, <1>6, <2>1, ConstAssumption DEF IInv, TypeOK
  <2>3. PhaseInv'
    BY <1>1, <1>6, <2>1, ConstAssumption DEF IInv, PhaseInv, AllCopied
  <2>4. Taken' = Accepted + 1
    BY <1>4, <1>6 DEF Taken
  <2>5. InputInv'
    BY <1>1, <1>4, <1>5, <1>6, <2>4 DEF IInv, InputInv
  <2>6. SignalInv' /\ EofInv'
    BY <1>1, <1>3, <1>4, <1>6 DEF IInv, SignalInv, EofInv
  <2>7. OutputInv' /\ ExitInv'
    BY <1>1, <1>6 DEF IInv, OutputInv, ExitInv, AllCopied
  <2>8. QED
    BY <2>2, <2>3, <2>5, <2>6, <2>7 DEF IInv
<1>7. CASE m.name = "close" /\ ReaderEnds /\ UNCHANGED <<held, child, status>>
  <2> USE DEF ReaderEnds
  <2>1. TypeOK'
    BY <1>1, <1>3, <1>7 DEF IInv, TypeOK
  <2>2. PhaseInv'
    BY <1>1, <1>7 DEF IInv, PhaseInv, AllCopied
  <2>3. Taken' = Accepted
    BY <1>4, <1>7 DEF Taken
  <2>4. InputInv'
    BY <1>1, <1>4, <1>5, <1>7, <2>3 DEF IInv, InputInv
  <2>5. SignalInv' /\ EofInv'
    BY <1>1, <1>3, <1>4, <1>5, <1>7 DEF IInv, SignalInv, EofInv
  <2>6. OutputInv' /\ ExitInv'
    BY <1>1, <1>7 DEF IInv, OutputInv, ExitInv, AllCopied
  <2>7. QED
    BY <2>1, <2>2, <2>4, <2>5, <2>6 DEF IInv
<1>8. CASE m.name = "ctrlc" /\ Kill /\ ReaderEnds /\ UNCHANGED held
  <2> USE DEF ReaderEnds, Kill
  <2>1. TypeOK'
    BY <1>1, <1>3, <1>8, ConstAssumption DEF IInv, TypeOK
  <2>2. PhaseInv'
    BY <1>1, <1>8, ConstAssumption DEF IInv, PhaseInv, AllCopied
  <2>3. Taken' = Accepted
    BY <1>4, <1>8 DEF Taken
  <2>4. InputInv'
    BY <1>1, <1>4, <1>5, <1>8, <2>3 DEF IInv, InputInv
  <2>5. pressed > 0
    BY <1>3, <1>8 DEF IInv, SignalInv
  <2>6. SignalInv' /\ EofInv'
    BY <1>1, <1>3, <1>8, <2>5, ConstAssumption DEF IInv, TypeOK, SignalInv, EofInv
  <2>7. OutputInv'
    BY <1>1, <1>8 DEF IInv, OutputInv
  <2>8. ExitInv'
    BY <1>1, <1>8, NoExitYet, NoExit DEF IInv, ExitInv, AllCopied
  <2>9. QED
    BY <2>1, <2>2, <2>4, <2>6, <2>7, <2>8 DEF IInv
<1>9. QED
  BY <1>6, <1>7, <1>8 DEF ReaderDecodes, m

LEMMA ReaderWritesInv == IInv /\ ReaderWrites => IInv'
<1> SUFFICES ASSUME IInv, ReaderWrites PROVE IInv'
  OBVIOUS
<1> USE DEF ReaderWrites, clientVars, pipeVars
<1>1. /\ stdin \in Seq(1..MaxIn) /\ got \in Seq(1..MaxIn) /\ held \in 1..MaxIn
      /\ Len(got) \in Nat /\ Len(stdin) \in Nat
  BY LenProperties, ConstAssumption DEF IInv, TypeOK, PhaseInv
<1>2. <<held>> \in Seq(1..MaxIn) /\ Len(<<held>>) = 1
  BY <1>1
<1>3. TypeOK'
  <2>1. stdin' \in Seq(1..MaxIn)
    BY <1>1, <1>2
  <2>2. QED
    BY <2>1 DEF IInv, TypeOK
<1>4. PhaseInv'
  BY DEF IInv, PhaseInv, AllCopied
<1>5. InputInv'
  <2>1. CASE child # "exited" /\ stdin = << >> /\ stdin' = <<held>>
    <3>1. handler # "closed"
      BY DEF IInv, PhaseInv
    <3>2. /\ Accepted = Len(got) /\ Accepted' = Len(got) + 1
          /\ Taken = Len(got) + 1 /\ Taken' = Len(got) + 1
      BY <2>1, <1>1, <1>2 DEF Accepted, Taken
    <3>3. /\ got = Numbers(Len(got)) /\ held = Len(got) + 1
          /\ Carries(c2s, "stdin", Len(got) + 1, fed)
      BY <2>1, <3>1, <3>2, <1>1, ConcatEmptySeq DEF IInv, InputInv
    <3>4. got \o <<held>> = Numbers(Len(got) + 1)
      BY <3>3, <1>1, NumbersOneMore
    <3>5. Accepted + 1 <= fed
      BY <3>2, <3>3 DEF Carries
    <3>6. QED
      BY <2>1, <3>2, <3>3, <3>4, <3>5, <1>1 DEF InputInv
  <2>2. CASE child = "exited" /\ UNCHANGED stdin
    BY <2>2 DEF IInv, InputInv, Accepted
  <2>3. QED
    BY <2>1, <2>2
<1>6. SignalInv' /\ EofInv'
  BY DEF IInv, SignalInv, EofInv
<1>7. OutputInv' /\ ExitInv'
  BY DEF IInv, OutputInv, ExitInv, AllCopied
<1>8. QED
  BY <1>3, <1>4, <1>5, <1>6, <1>7 DEF IInv

-----------------------------------------------------------------------------
(* The steps of the command and of the goroutines that copy its output. *)

LEMMA ChildWritesInv ==
    ASSUME IInv, NEW s \in Streams, ChildWrites(s)
    PROVE  IInv'
<1> USE DEF ChildWrites, clientVars, pipeVars, daemonVars
<1>1. PICK n \in written[s] + 1 .. MaxOut[s] : written' = [written EXCEPT ![s] = n]
  OBVIOUS
<1>2. /\ written \in [Streams -> Nat] /\ copied \in [Streams -> Nat]
      /\ MaxOut[s] \in Nat
      /\ \A t \in Streams : written[t] <= MaxOut[t] /\ copied[t] <= written[t]
  BY ConstAssumption DEF IInv, TypeOK, OutputInv
<1>3. n \in Nat /\ written[s] < n /\ n <= MaxOut[s]
  BY <1>2
<1>4. /\ written' \in [Streams -> Nat]
      /\ \A t \in Streams : written'[t] <= MaxOut[t] /\ copied[t] <= written'[t]
  <2>1. written' \in [Streams -> Nat]
    BY <1>1, <1>2, <1>3
  <2>2. ASSUME NEW t \in Streams
        PROVE  written'[t] <= MaxOut[t] /\ copied[t] <= written'[t]
    BY <1>1, <1>2, <1>3
  <2>3. QED
    BY <2>1, <2>2
<1>5. TypeOK'
  BY <1>4 DEF IInv, TypeOK
<1>6. PhaseInv'
  BY DEF IInv, PhaseInv, AllCopied
<1>7. InputInv' /\ SignalInv' /\ EofInv'
  BY DEF IInv, InputInv, SignalInv, EofInv, Accepted, Taken
<1>8. OutputInv'
  BY <1>4 DEF IInv, OutputInv
<1>9. ExitInv'
  BY NoExitYet, NoExit DEF ExitInv
<1>10. QED
  BY <1>5, <1>6, <1>7, <1>8, <1>9 DEF IInv

LEMMA ChildReadsInv == IInv /\ ChildReads => IInv'
<1> SUFFICES ASSUME IInv, ChildReads PROVE IInv'
  OBVIOUS
<1> USE DEF ChildReads, clientVars, pipeVars, daemonVars
<1>1. stdin \in Seq(1..MaxIn) /\ got \in Seq(1..MaxIn)
  BY DEF IInv, TypeOK
<1>2. /\ got' \in Seq(1..MaxIn) /\ stdin' \in Seq(1..MaxIn)
      /\ got' \o stdin' = got \o stdin
      /\ Accepted' = Accepted
  <2>1. /\ got \o stdin \in Seq(1..MaxIn)
        /\ Len(got \o stdin) = Len(got) + Len(stdin)
    BY <1>1, ConcatProperties
  <2>2. << >> \in Seq(1..MaxIn) /\ Len(<< >>) = 0
    BY EmptySeq
  <2>3. (got \o stdin) \o << >> = got \o stdin
    BY <2>1, ConcatEmptySeq
  <2>4. Len(got) \in Nat /\ Len(stdin) \in Nat
    BY <1>1, LenProperties
  <2>5. QED
    BY <2>1, <2>2, <2>3, <2>4 DEF Accepted
<1>3. TypeOK' /\ PhaseInv'
  BY <1>2 DEF IInv, TypeOK, PhaseInv, AllCopied
<1>4. InputInv' /\ SignalInv' /\ EofInv'
  BY <1>2 DEF IInv, InputInv, SignalInv, EofInv, Taken
<1>5. OutputInv' /\ ExitInv'
  BY DEF IInv, OutputInv, ExitInv, AllCopied
<1>6. QED
  BY <1>3, <1>4, <1>5 DEF IInv

LEMMA ChildExitsInv == IInv /\ ChildExits => IInv'
<1> SUFFICES ASSUME IInv, ChildExits PROVE IInv'
  OBVIOUS
<1> USE DEF ChildExits, clientVars, pipeVars, daemonVars
<1>1. TypeOK' /\ PhaseInv'
  BY ConstAssumption DEF IInv, TypeOK, PhaseInv, AllCopied
<1>2. InputInv' /\ SignalInv' /\ EofInv'
  BY DEF IInv, InputInv, SignalInv, EofInv, Accepted
<1>3. OutputInv'
  BY DEF IInv, OutputInv
<1>4. ExitInv'
  BY NoExitYet, NoExit DEF ExitInv
<1>5. QED
  BY <1>1, <1>2, <1>3, <1>4 DEF IInv

LEMMA CopyInv ==
    ASSUME IInv, NEW s \in Streams, Copy(s)
    PROVE  IInv'
<1> USE DEF clientVars, daemonVars
<1>1. PICK n \in copied[s] + 1 .. written[s] :
          LET to == n - KeptBack(s, sent[s] + 1, n)
          IN  /\ IF to = sent[s] THEN UNCHANGED s2c
                 ELSE ToClient(Output(s, sent[s] + 1, to))
              /\ copied' = [copied EXCEPT ![s] = n]
              /\ sent' = [sent EXCEPT ![s] = to]
  BY DEF Copy
<1> DEFINE to == n - KeptBack(s, sent[s] + 1, n)
           m == Output(s, sent[s] + 1, to)
<1>2. UNCHANGED <<clientVars, c2s, daemonVars, child, status, stdin, got, eof, written>>
      /\ handler # "closed"
  BY DEF Copy
<1>3. /\ written \in [Streams -> Nat] /\ copied \in [Streams -> Nat]
      /\ sent \in [Streams -> Nat] /\ s2c \in Seq(DaemonMessages)
      /\ \A t \in Streams : /\ sent[t] <= copied[t] /\ copied[t] <= written[t]
                            /\ copied[t] - Hold[t][copied[t]] <= sent[t]
                            /\ Len(printed[t]) \in Nat /\ Len(printed[t]) <= sent[t]
                            /\ printed[t] = Numbers(Len(printed[t]))
  BY LenProperties DEF IInv, TypeOK, OutputInv
<1>4. /\ n \in Nat /\ copied[s] < n /\ n <= written[s]
      /\ n \in 0..MaxOut[s] /\ Hold[s][n] \in 0..3
  BY <1>3, ConstAssumption DEF IInv, TypeOK
<1>5. to \in Nat /\ sent[s] <= to /\ to <= n /\ n - Hold[s][n] <= to
  <2>1. sent[s] \in Nat /\ sent[s] < n
    BY <1>3, <1>4
  <2>2. CASE Hold[s][n] <= n - (sent[s] + 1) + 1
    <3>1. to = n - Hold[s][n]
      BY <2>2 DEF KeptBack
    <3> HIDE DEF to
    <3>2. QED
      BY <2>1, <2>2, <3>1, <1>4
  <2>3. CASE ~ (Hold[s][n] <= n - (sent[s] + 1) + 1)
    <3>1. to = n - 0
      BY <2>3 DEF KeptBack
    <3> HIDE DEF to
    <3>2. QED
      BY <2>1, <3>1, <1>4
  <2>4. QED
    BY <2>2, <2>3
<1> HIDE DEF to
<1>6. /\ copied' = [copied EXCEPT ![s] = n] /\ sent' = [sent EXCEPT ![s] = to]
      /\ \/ to = sent[s] /\ UNCHANGED s2c
         \/ to # sent[s] /\ ToClient(m)
  BY <1>1 DEF to, m
<1>7. ~ Has(s2c, "exit") /\ ~ AllCopied
  BY <1>3, <1>4 DEF IInv, ExitInv, AllCopied
<1>8. /\ s2c' \in Seq(DaemonMessages) /\ Len(s2c') <= Cap
      /\ ~ Has(s2c', "exit")
  <2>1. CASE UNCHANGED s2c
    BY <2>1, <1>7 DEF IInv, TypeOK
  <2>2. CASE ToClient(m)
    <3>1. m \in DaemonMessages /\ m.name # "exit"
      BY <1>3, <1>5, ConstAssumption DEF DaemonMessages, Output, m
    <3> HIDE DEF m
    <3>2. QED
      BY <2>2, <3>1, <1>7, ToClientKept DEF IInv
  <2>3. QED
    BY <2>1, <2>2, <1>6
<1>9. copied' \in [Streams -> Nat] /\ sent' \in [Streams -> Nat]
  BY <1>3, <1>4, <1>5, <1>6
<1>10. TypeOK'
  BY <1>2, <1>8, <1>9 DEF IInv, TypeOK
<1>11. PhaseInv'
  BY <1>2, <1>7 DEF IInv, PhaseInv
<1>12. InputInv' /\ SignalInv' /\ EofInv'
  BY <1>2 DEF IInv, InputInv, SignalInv, EofInv, Accepted, Taken
<1>13. OutputInv'
  <2>1. ASSUME NEW t \in Streams
        PROVE  /\ sent'[t] <= copied'[t] /\ copied'[t] <= written[t]
               /\ copied'[t] - Hold[t][copied'[t]] <= sent'[t]
               /\ Len(printed[t]) <= sent'[t]
    <3>1. CASE t = s
      <4>1. copied'[t] = n /\ sent'[t] = to
        BY <3>1, <1>3, <1>6
      <4>2. QED
        BY <3>1, <4>1, <1>3, <1>4, <1>5
    <3>2. CASE t # s
      <4>1. copied'[t] = copied[t] /\ sent'[t] = sent[t]
        BY <3>2, <1>3, <1>6
      <4>2. QED
        BY <4>1, <1>3
    <3>3. QED
      BY <3>1, <3>2
  <2>2. result = None => \A t \in Streams : Carries(s2c', t, Len(printed[t]), sent'[t])
    <3>1. CASE to = sent[s] /\ UNCHANGED s2c
      <4>1. sent' = sent
        BY <3>1, <1>3, <1>6
      <4>2. QED
        BY <3>1, <4>1 DEF IInv, OutputInv
    <3>2. CASE to # sent[s] /\ ToClient(m)
      <4>1. sent[s] < to
        BY <3>2, <1>3, <1>5
      <4>2. QED
        BY <3>2, <4>1, <1>2, <1>5, <1>6, OutputSent DEF m
    <3>3. QED
      BY <3>1, <3>2, <1>6
  <2>3. QED
    BY <1>2, <1>3, <2>1, <2>2 DEF OutputInv
<1>14. ExitInv'
  BY <1>8, NoExit DEF ExitInv
<1>15. QED
  BY <1>10, <1>11, <1>12, <1>13, <1>14 DEF IInv

-----------------------------------------------------------------------------
(* The theorems. *)

\* Every step of the session, and stuttering.
LEMMA StepInv == IInv /\ [Next]_vars => IInv'
<1> SUFFICES ASSUME IInv, [Next]_vars PROVE IInv'
  OBVIOUS
<1>1. CASE FeederStep \/ SendCtrlC \/ Press
  BY <1>1, FeederReadsInv, FeederSendsInv, FeederClosesInv, SendCtrlCInv, PressInv
     DEF FeederStep
<1>2. CASE ClientStep \/ Die
  BY <1>2, ReceiveInv, ReceiveEOFInv DEF ClientStep
<1>3. CASE HandlerStep \/ DaemonStops
  BY <1>3, InterceptInv, NoStdinPipeInv, StartReaderInv, LaunchFailsInv,
     RunReturnsInv, SendExitInv, WaitStdinDoneInv, DrainInv, DaemonStopsInv
     DEF HandlerStep
<1>4. CASE ReaderStep
  BY <1>4, ReaderChecksInv, ReaderDecodesInv, ReaderEOFInv, ReaderWritesInv
     DEF ReaderStep
<1>5. CASE ChildReads \/ ChildExits \/ \E s \in Streams : ChildWrites(s) \/ Copy(s)
  BY <1>5, ChildReadsInv, ChildExitsInv, ChildWritesInv, CopyInv
<1>6. CASE UNCHANGED vars
  <2> USE <1>6 DEF vars, clientVars, pipeVars, daemonVars, childVars
  <2>1. TypeOK' /\ PhaseInv'
    BY DEF IInv, TypeOK, PhaseInv, AllCopied
  <2>2. InputInv' /\ SignalInv' /\ EofInv'
    BY DEF IInv, InputInv, SignalInv, EofInv, Accepted, Taken
  <2>3. OutputInv' /\ ExitInv'
    BY DEF IInv, OutputInv, ExitInv, AllCopied
  <2>4. QED
    BY <2>1, <2>2, <2>3 DEF IInv
<1>7. QED
  BY <1>1, <1>2, <1>3, <1>4, <1>5, <1>6 DEF Next

\* Every part of the invariant holds in every reachable state.
THEOREM SessionInvariant == Spec => []IInv
BY InitInv, StepInv, PTL DEF Spec

\* Types, exit codes the command can have, and pipes no fuller than they are.
THEOREM SessionTypeOK == Spec => []TypeOK
<1>1. IInv => TypeOK
  BY DEF IInv
<1>2. QED
  BY <1>1, SessionInvariant, PTL

\* The stdin goroutine and the drain never read the connection at once.
THEOREM SingleReaderAlways == Spec => []SingleReader
<1>1. IInv => SingleReader
  BY DEF IInv, PhaseInv, SingleReader
<1>2. QED
  BY <1>1, SessionInvariant, PTL

\* No piece of standard input is lost, doubled or overtaken on the way to a
\* command that has not ended.
THEOREM InputStaysInOrder == Spec => []InputInOrder
<1>1. IInv => InputInOrder
  <2> SUFFICES ASSUME IInv PROVE InputInOrder
    OBVIOUS
  <2>1. /\ got \in Seq(1..MaxIn) /\ stdin \in Seq(1..MaxIn)
        /\ got \o stdin \in Seq(1..MaxIn) /\ Len(got \o stdin) = Accepted
        /\ got \o stdin = Numbers(Accepted) /\ Accepted \in 0..fed
        /\ Accepted \in Nat
    <3>1. got \in Seq(1..MaxIn) /\ stdin \in Seq(1..MaxIn) /\ fed \in Nat
      BY ConstAssumption DEF IInv, TypeOK
    <3>2. Len(got) \in Nat /\ Len(stdin) \in Nat
      BY <3>1, LenProperties
    <3>3. got \o stdin \in Seq(1..MaxIn) /\ Len(got \o stdin) = Len(got) + Len(stdin)
      BY <3>1, ConcatProperties
    <3>4. got \o stdin = Numbers(Accepted) /\ Accepted <= fed
      BY DEF IInv, InputInv
    <3>5. QED
      BY <3>1, <3>2, <3>3, <3>4 DEF Accepted
  <2>2. ASSUME child # "exited" /\ handler # "closed"
        PROVE  LET taken == got \o stdin \o Held
               IN  /\ taken = Numbers(Len(taken))
                   /\ Carries(c2s, "stdin", Len(taken), fed)
    <3>1. CASE reader = "write"
      <4>1. Held = <<held>> /\ held \in 1..MaxIn /\ held = Accepted + 1
        BY <3>1, <2>2, ConstAssumption DEF Held, IInv, TypeOK, PhaseInv, InputInv
      <4>2. /\ (got \o stdin) \o Held = Numbers(Accepted + 1)
            /\ Len((got \o stdin) \o Held) = Accepted + 1
        <5> DEFINE q == got \o stdin
        <5>1. q \in Seq(1..MaxIn) /\ Len(q) = Accepted /\ q = Numbers(Accepted)
          BY <2>1
        <5> HIDE DEF q
        <5>2. /\ q \o <<held>> = Numbers(Accepted + 1)
              /\ Len(q \o <<held>>) = Accepted + 1
          BY <2>1, <4>1, <5>1, NumbersOneMore
        <5>3. QED
          BY <4>1, <5>2 DEF q
      <4>3. Carries(c2s, "stdin", Accepted + 1, fed)
        BY <3>1, <2>2 DEF IInv, InputInv, Taken
      <4>4. QED
        BY <4>2, <4>3
    <3>2. CASE reader # "write"
      <4>1. (got \o stdin) \o Held = got \o stdin
        BY <2>1, <3>2, ConcatEmptySeq DEF Held
      <4>2. Carries(c2s, "stdin", Accepted, fed)
        BY <2>1, <3>2, <2>2 DEF IInv, InputInv, Taken
      <4>3. QED
        BY <2>1, <4>1, <4>2
    <3>3. QED
      BY <3>1, <3>2
  <2>3. QED
    BY <2>1, <2>2 DEF InputInOrder
<1>2. QED
  BY <1>1, SessionInvariant, PTL

\* A running command sees the end of its input after all of the input.
THEOREM EofComesLast == Spec => []EofAfterInput
<1>1. IInv => EofAfterInput
  BY DEF IInv, EofInv, InputInv, EofAfterInput
<1>2. QED
  BY <1>1, SessionInvariant, PTL

-----------------------------------------------------------------------------
(* The session implements RemoteCommand, step by step. *)

LEMMA HoldType ==
    ASSUME NEW s \in Streams, NEW n \in Nat, n <= MaxOut[s]
    PROVE  Hold[s][n] \in 0..3 /\ Hold[s][n] <= n
<1>1. MaxOut[s] \in Nat
  BY ConstAssumption
<1>2. n \in 0..MaxOut[s]
  BY <1>1
<1>3. QED
  BY <1>2, ConstAssumption

\* A message of output shows the next bytes; the exit message is a Return.
LEMMA ReceiveRefines == IInv /\ Receive => [Remote!Next]_Remote!vars
<1> SUFFICES ASSUME IInv, Receive PROVE [Remote!Next]_Remote!vars
  OBVIOUS
<1> DEFINE m == Head(s2c)
<1>1. /\ s2c \in Seq(DaemonMessages) /\ s2c # << >> /\ result = None
      /\ written' = written /\ status' = status
  BY DEF Receive, childVars, IInv, TypeOK
<1>2. ASSUME NEW s \in Streams
      PROVE  /\ Len(printed[s]) \in Nat /\ sent[s] \in Nat /\ written[s] \in Nat
             /\ sent[s] <= written[s]
             /\ Carries(s2c, s, Len(printed[s]), sent[s])
             /\ printed[s] = Numbers(Len(printed[s]))
             /\ printed[s] \in Seq(Nat)
  <2>1. /\ printed[s] \in Seq(Nat) /\ copied[s] \in Nat /\ sent[s] \in Nat
        /\ written[s] \in Nat
    BY DEF IInv, TypeOK
  <2>2. /\ sent[s] <= copied[s] /\ copied[s] <= written[s]
        /\ Carries(s2c, s, Len(printed[s]), sent[s])
        /\ printed[s] = Numbers(Len(printed[s]))
    BY <1>1 DEF IInv, OutputInv
  <2>3. QED
    BY <2>1, <2>2, LenProperties
<1>3. CASE m.name \in Streams /\ printed' = [printed EXCEPT ![m.name] = @ \o Bytes(m)]
           /\ UNCHANGED result
  <2> DEFINE s == m.name
             n == m.n
             p == printed[s]
  <2>1. First(m) = Len(p) + 1 /\ n \in Len(p) + 1 .. sent[s]
    BY <1>1, <1>2, <1>3, CarriesTail
  <2>2. m.from = Len(p) + 1 /\ n \in Len(p) + 1 .. written[s] /\ Len(p) \in Nat
    BY <2>1, <1>2, <1>3 DEF First
  <2>3. p \o Bytes(m) = Numbers(n)
    <3>1. p \in Seq(Nat) /\ p = Numbers(Len(p)) /\ n \in Nat /\ Len(p) < n
      BY <2>2, <1>2, <1>3
    <3> HIDE DEF p, m
    <3>2. QED
      BY <3>1, <2>2, NumbersExtend
  <2>4. printed' = [printed EXCEPT ![s] = [i \in 1..n |-> i]]
    BY <2>3, <1>3 DEF Numbers
  <2>5. Remote!Show(s)
    BY <2>2, <2>4, <1>1, <1>3 DEF Remote!Show
  <2>6. QED
    BY <2>5, <1>3 DEF Remote!Next
<1>4. CASE m.name = "error" /\ UNCHANGED clientVars
  BY <1>1, <1>4 DEF Remote!vars, clientVars
<1>5. CASE m.name = "exit" /\ Returns(m.n)
  <2>1. /\ m.n = status /\ \A x : x # "exit" => ~ Has(s2c, x)
        /\ Has(s2c, "exit")
    BY <1>1, <1>5, ExitLastKept, HasTail DEF IInv, ExitInv
  <2>2. status # None /\ AllCopied
    BY <2>1 DEF IInv, ExitInv, PhaseInv
  <2>3. ASSUME NEW s \in Streams
        PROVE  Len(printed[s]) >= written[s] - Hold[s][written[s]]
    <3>1. s # "exit"
      BY ConstAssumption
    <3>2. ~ Has(s2c, s)
      BY <2>1, <3>1
    <3>3. Len(printed[s]) = sent[s]
      BY <1>2, <3>2, CarriesNone
    <3>4. copied[s] - Hold[s][copied[s]] <= sent[s] /\ copied[s] = written[s]
      BY <2>2 DEF AllCopied, IInv, OutputInv
    <3>5. Hold[s][written[s]] \in Nat
      <4>1. written[s] \in Nat /\ written[s] <= MaxOut[s]
        BY <1>2 DEF IInv, TypeOK
      <4>2. QED
        BY <4>1, HoldType
    <3>6. QED
      BY <1>2, <3>3, <3>4, <3>5
  <2>4. Remote!Return
    BY <2>1, <2>2, <2>3, <1>1, <1>5 DEF Remote!Return, Returns
  <2>5. QED
    BY <2>4 DEF Remote!Next
<1>6. QED
  BY <1>3, <1>4, <1>5 DEF Receive

\* The command ends, whoever ended it; the client goes without an answer.
LEMMA EndsRefine ==
    /\ IInv /\ (NoStdinPipe \/ LaunchFails \/ ReaderDecodes \/ ChildExits)
         => [Remote!Next]_Remote!vars
    /\ IInv /\ (ReceiveEOF \/ Die) => [Remote!Next]_Remote!vars
<1>1. ASSUME status = None, status' \in Codes, UNCHANGED <<written, printed, result>>
      PROVE  Remote!Next
  BY <1>1 DEF Remote!Next, Remote!Finish
<1>2. ASSUME IInv, NoStdinPipe \/ LaunchFails \/ ChildExits
      PROVE  Remote!Next
  BY <1>1, <1>2, ConstAssumption
     DEF NoStdinPipe, LaunchFails, ChildExits, IInv, PhaseInv, clientVars
<1>3. ASSUME IInv, ReaderDecodes
      PROVE  [Remote!Next]_Remote!vars
  <2>1. UNCHANGED <<written, printed, result>>
    BY <1>3 DEF ReaderDecodes, clientVars
  <2>2. CASE UNCHANGED status
    BY <2>1, <2>2 DEF Remote!vars
  <2>3. CASE child = "running" /\ status' = 1
    BY <1>1, <1>3, <2>1, <2>3, ConstAssumption DEF IInv, PhaseInv
  <2>4. QED
    BY <1>3, <2>2, <2>3 DEF ReaderDecodes, Kill
<1>4. ASSUME ReceiveEOF \/ Die
      PROVE  Remote!Next
  BY <1>4 DEF ReceiveEOF, Die, Returns, childVars, Remote!Next, Remote!Lose
<1>5. QED
  BY <1>2, <1>3, <1>4

\* The command, or the daemon in its place, writes.
LEMMA WritesRefine ==
    ASSUME IInv
    PROVE  /\ Intercept => Remote!Next
           /\ \A s \in Streams : ChildWrites(s) => Remote!Next
<1>1. ASSUME NEW s \in Streams, NEW n \in written[s] + 1 .. MaxOut[s],
             written' = [written EXCEPT ![s] = n]
      PROVE  Remote!Output(s)
  <2>1. written \in [Streams -> Nat] /\ n \in 0..MaxOut[s]
    BY ConstAssumption DEF IInv, TypeOK
  <2>2. Hold[s][n] \in 0..3 /\ Hold[s][n] <= n
    BY <2>1, ConstAssumption
  <2>3. \A t \in Streams : written'[t] = IF t = s THEN n ELSE written[t]
    BY <2>1, <1>1
  <2> DEFINE due == [t \in Streams |-> written[t] - Hold[t][written[t]]]
             then == [t \in Streams |-> written'[t] - Hold[t][written'[t]]]
  <2>4. then = [due EXCEPT ![s] = n - Hold[s][n]]
    BY <2>3
  <2> HIDE DEF due, then
  <2>5. \E k \in 0..3 : k <= n /\ then = [due EXCEPT ![s] = n - k]
    BY <2>2, <2>4
  <2>6. QED
    BY <1>1, <2>5 DEF Remote!Output, due, then
<1>2. ASSUME Intercept PROVE Remote!Next
  <2>1. status = None /\ written["stdout"] = 0 /\ "stdout" \in Streams
    BY <1>2, ConstAssumption DEF Intercept, IInv, PhaseInv
  <2>2. PICK n \in 1..MaxOut["stdout"] : written' = [written EXCEPT !["stdout"] = n]
    BY <1>2 DEF Intercept
  <2> n \in written["stdout"] + 1 .. MaxOut["stdout"]
    BY <2>1
  <2>5. Remote!Output("stdout")
    BY <1>1, <2>1, <2>2
  <2>3. Remote!Answer("stdout")
    BY <1>2, <2>1, <2>5, ConstAssumption DEF Intercept, clientVars, Remote!Answer
  <2>4. QED
    BY <2>1, <2>3 DEF Remote!Next
<1>3. ASSUME NEW s \in Streams, ChildWrites(s) PROVE Remote!Next
  <2>1. Remote!Output(s)
    BY <1>1, <1>3 DEF ChildWrites
  <2>2. status = None
    BY <1>3 DEF ChildWrites, IInv, PhaseInv
  <2>3. Remote!Write(s)
    BY <1>3, <2>1, <2>2 DEF ChildWrites, childVars, clientVars, Remote!Write
  <2>4. QED
    BY <2>3 DEF Remote!Next
<1>4. QED
  BY <1>2, <1>3

\* All the other steps are invisible to RemoteCommand.
LEMMA OthersStutter ==
    ASSUME \/ FeederStep \/ SendCtrlC \/ Press \/ DaemonStops
           \/ StartReader \/ Launch \/ RunReturns \/ CloseCmdDone \/ SendExit
           \/ WaitStdinDone \/ Drain
           \/ ReaderChecks \/ ReaderEOF \/ ReaderWrites \/ ChildReads
           \/ (\E s \in Streams : Copy(s)) \/ UNCHANGED vars
    PROVE  UNCHANGED Remote!vars
<1> USE DEF Remote!vars, vars, clientVars, pipeVars, daemonVars, childVars
<1>1. CASE FeederStep \/ SendCtrlC \/ Press
  BY <1>1 DEF FeederStep, FeederReads, FeederSends, FeederCloses, SendCtrlC, Press
<1>2. CASE \/ DaemonStops \/ StartReader \/ Launch \/ RunReturns \/ CloseCmdDone
           \/ SendExit \/ WaitStdinDone \/ Drain
  BY <1>2 DEF DaemonStops, StartReader, Launch, RunReturns, CloseCmdDone, SendExit,
              WaitStdinDone, Drain
<1>3. CASE ReaderChecks \/ ReaderEOF \/ ReaderWrites \/ ChildReads
  BY <1>3 DEF ReaderChecks, ReaderEOF, ReaderWrites, ChildReads
<1>4. CASE \E s \in Streams : Copy(s)
  BY <1>4 DEF Copy
<1>5. CASE UNCHANGED vars
  BY <1>5
<1>6. QED
  BY <1>1, <1>2, <1>3, <1>4, <1>5

\* Every byte of the output once and in order, but for a character left
\* unfinished at its end, the exit code after it, or the connection lost: the
\* session does what RemoteCommand promises.
THEOREM SessionForwardsCommand == Spec => ForwardsCommand
<1>1. Init => Remote!Init
  <2>1. \A s \in Streams : 0 - Hold[s][0] = 0
    <3> TAKE s \in Streams
    <3>1. 0 \in Nat /\ 0 <= MaxOut[s]
      BY ConstAssumption
    <3>2. Hold[s][0] \in 0..3 /\ Hold[s][0] <= 0
      BY <3>1, HoldType
    <3>3. QED
      BY <3>2
  <2>2. QED
    BY <2>1 DEF Init, Remote!Init
<1>2. IInv /\ [Next]_vars => [Remote!Next]_Remote!vars
  BY ReceiveRefines, EndsRefine, WritesRefine, OthersStutter
     DEF Next, FeederStep, ClientStep, HandlerStep, ReaderStep
<1>3. QED
  BY <1>1, <1>2, SessionInvariant, PTL DEF Spec, ForwardsCommand, Remote!Spec
=============================================================================

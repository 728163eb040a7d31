---------------------------- MODULE OutputWriter ----------------------------
(* The output filter msgWriter of cmd/su/main.go (cmd/sudo/main.go holds the *)
(* same code): it decides, write by write, whether the bytes of a command    *)
(* are UTF-8, to be passed on as they are, or text of the OEM code page, to  *)
(* be converted; and it keeps back the beginning of a UTF-8 character whose  *)
(* rest has not been written yet.                                            *)
(*                                                                           *)
(* A text is a sequence of bytes.  What reaches the caller is a sequence of  *)
(* elements, each with the bytes it comes from: a byte as it was written, a  *)
(* character of the code page, or the question mark for a byte that the code *)
(* page cannot convert.                                                      *)
EXTENDS Naturals, SequencesExt

Cont(b) == b \in 128..191

Element(bytes, as) == [bytes |-> bytes, as |-> as]

\* The bytes that the elements come from.
Source(elements) == FlattenSeq([i \in DOMAIN elements |-> elements[i].bytes])

-----------------------------------------------------------------------------
(* Go's unicode/utf8 and the Windows code page. *)

\* The length of the UTF-8 character that starts at p[i], or 0.
CharLength(p, i) ==
    LET b == p[i]
        Follow(n, first) == /\ i + n <= Len(p)
                            /\ p[i + 1] \in first
                            /\ \A k \in 2..n : Cont(p[i + k])
        Conts == 128..191
    IN  CASE b < 128 -> 1
          [] b \in 194..223 /\ Follow(1, Conts) -> 2
          [] b \in (225..239) \ {237} /\ Follow(2, Conts) -> 3
          [] b = 224 /\ Follow(2, 160..191) -> 3
          [] b = 237 /\ Follow(2, 128..159) -> 3
          [] b \in 241..243 /\ Follow(3, Conts) -> 4
          [] b = 240 /\ Follow(3, 144..191) -> 4
          [] b = 244 /\ Follow(3, 128..143) -> 4
          [] OTHER -> 0

ValidUTF8(p) ==
    LET valid[i \in 1..Len(p) + 1] ==
            i > Len(p) \/ LET n == CharLength(p, i) IN n # 0 /\ valid[i + n]
    IN  valid[1]

\* MultiByteToWideChar with code page 936, back to UTF-8.  A lead byte takes
\* the byte behind it along; 128 and 255 are characters by themselves.
oemToUTF8(p) ==
    LET Lead(i) == p[i] \in 129..254 /\ i < Len(p)
        from[i \in 1..Len(p) + 1] ==
            CASE i > Len(p) -> << >>
              [] i <= Len(p) /\ Lead(i) ->
                    <<Element(SubSeq(p, i, i + 1), "character")>> \o from[i + 2]
              [] i <= Len(p) /\ ~Lead(i) ->
                    <<Element(<<p[i]>>, IF p[i] < 128 THEN "byte"
                                        ELSE IF p[i] \in {128, 255} THEN "character"
                                        ELSE "question mark")>> \o from[i + 1]
    IN  from[1]

Unchanged(p) == [i \in 1..Len(p) |-> Element(<<p[i]>>, "byte")]

-----------------------------------------------------------------------------
(* splitIncompleteUTF8Tail *)

\* The bytes a character takes whose first byte is b; 0 if none starts so.
Want(b) == IF b >= 240 THEN 4 ELSE IF b >= 224 THEN 3 ELSE IF b >= 194 THEN 2 ELSE 0

\* Mutant: two-byte and three-byte characters only.
CutOffMut(p) ==
    {i \in 1..Len(p) : i >= Len(p) - 2 /\ p[i] < 240 /\ Len(p) - i + 1 < Want(p[i])}

\* Mutant: off by one, complete characters are kept back too.
CutOffLateMut(p) == {i \in 1..Len(p) : Len(p) - i + 1 <= Want(p[i])}

\* The places among the last three bytes where a character is cut off.
CutOff(p) == {i \in 1..Len(p) : i >= Len(p) - 2 /\ Len(p) - i + 1 < Want(p[i])}

splitIncompleteUTF8Tail(p) ==
    LET at == IF CutOff(p) = {} THEN Len(p) + 1
              ELSE CHOOSE i \in CutOff(p) : \A j \in CutOff(p) : j <= i
    IN  [complete   |-> SubSeq(p, 1, at - 1),
         incomplete |-> SubSeq(p, at, Len(p))]

-----------------------------------------------------------------------------
(* The two tests for the code page. *)

containsGBKExclusiveBytes(p) ==
    LET UTF8At(i) == p[i] \in 194..244 /\ i < Len(p) /\ Cont(p[i + 1])
        found[i \in 1..Len(p) + 4] ==
            CASE i > Len(p) -> FALSE
              [] i <= Len(p) /\ UTF8At(i) -> found[i + Want(p[i])]
              [] i <= Len(p) /\ ~UTF8At(i) ->
                    \/ /\ p[i] \in 129..159 /\ i < Len(p)
                       /\ p[i + 1] \in (64..254) \ {127}
                    \/ found[i + 1]
    IN  found[1]

\* Walks p; counts, of the characters that follow ASCII text or begin p, the
\* two-byte ones that code page 936 has as well and the three-byte ones of CJK.
containsGBKBlindZoneBytes(p) ==
    LET Confirms(i) == /\ p[i] \in 228..239 /\ i + 2 <= Len(p)
                       /\ Cont(p[i + 1]) /\ Cont(p[i + 2])
        Suspicious(i) == p[i] \in 194..223 /\ i < Len(p) /\ p[i + 1] \in 161..191
        \* what the walk finds from place i on; anchor: i follows ASCII text
        found[i \in 1..Len(p) + 1, anchor \in BOOLEAN] ==
            CASE i > Len(p) -> {}
              [] i <= Len(p) /\ p[i] < 128 -> found[i + 1, TRUE]
              [] i <= Len(p) /\ p[i] >= 128 /\ anchor /\ Confirms(i) ->
                    {"confirmed"} \cup found[i + 3, FALSE]
              [] i <= Len(p) /\ p[i] >= 128 /\ anchor /\ Suspicious(i) ->
                    {"suspicious"} \cup found[i + 2, FALSE]
              [] OTHER -> found[i + 1, FALSE]
    IN  found[1, TRUE] = {"suspicious"}

-----------------------------------------------------------------------------
(* msgWriter.Write *)

LooksLikeOEM(p) ==
    \/ ~ValidUTF8(p)
    \/ containsGBKExclusiveBytes(p)
    \/ containsGBKBlindZoneBytes(p)

\* Writing the bytes p when tail was kept back: the bytes kept back now and
\* the elements sent, none when there is nothing to send.  Without a code
\* page (fromCP is 0 or UTF-8) everything passes.
MsgWrite(fromCP, tail, p) ==
    LET buf == tail \o p
        split == splitIncompleteUTF8Tail(buf)
    IN  IF ~fromCP THEN [tail |-> << >>, data |-> Unchanged(buf)]
        ELSE [tail |-> split.incomplete,
              data |-> IF LooksLikeOEM(split.complete)
                       THEN oemToUTF8(split.complete)
                       ELSE Unchanged(split.complete)]
=============================================================================

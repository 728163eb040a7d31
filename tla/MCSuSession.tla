----------------------------- MODULE MCSuSession -----------------------------
(* Calls of su with texts of real bytes, and the places where the command    *)
(* may end a write: anywhere, except where it writes whole lines.            *)
EXTENDS SuSession

Text(bytes, command) ==
    [bytes |-> bytes, cuts |-> 1..Len(bytes), oem |-> FALSE, chars |-> << >>,
     command |-> command]

\* "A" and a CJK character.
Three == Text(<<65, 228, 184, 173>>, TRUE)

\* A four-byte character.
Four == Text(<<240, 159, 152, 128>>, TRUE)

\* An accented letter, from bash and from a command.
Accent == Text(<<195, 169>>, FALSE)
CommandAccent == Text(<<195, 169>>, TRUE)

\* One letter.
Plain == Text(<<65>>, TRUE)

\* Code page 936 in whole lines, each with a character that is not UTF-8.
Lines == [bytes |-> <<214, 208, 10, 129, 64, 10>>, cuts |-> {3, 6}, oem |-> TRUE,
          chars |-> <<Element(<<214, 208>>, "character"), Element(<<10>>, "byte"),
                      Element(<<129, 64>>, "character"), Element(<<10>>, "byte")>>,
          command |-> TRUE]

\* Code page 936, cut anywhere: a line that ends in a byte which begins a UTF-8
\* character, and another such byte with no newline behind it.
Cut == [Text(<<205, 228, 10, 214, 208>>, TRUE) EXCEPT !.oem = TRUE]

MCScenario ==
    [three  |-> [user |-> "logon",  text |-> Three],
     four   |-> [user |-> "system", text |-> Four],
     lines  |-> [user |-> "logon",  text |-> Lines],
     cut    |-> [user |-> "system", text |-> Cut],
     bash   |-> [user |-> "system", text |-> Accent],
     accent |-> [user |-> "system", text |-> CommandAccent],
     ti     |-> [user |-> "ti",     text |-> Plain]]
=============================================================================

----------------------------- MODULE ConfigFile -----------------------------
(***************************************************************************)
(* The text of a configuration file: one line "key=value" per parameter.  *)
(* saveMap escapes the characters that would break a line, loadMap turns   *)
(* them back.  A value is a sequence of characters, a file a function from *)
(* its keys to the text behind the "=".                                    *)
(***************************************************************************)
EXTENDS Naturals, Sequences, SequencesExt

Char == {"bs", "lf", "cr", "n", "r"}

\* What saveMap puts in place of a character.
EscapeOf == [c \in Char |-> CASE c = "bs" -> <<"bs", "bs">>
                              [] c = "lf" -> <<"bs", "n">>
                              [] c = "cr" -> <<"bs", "r">>
                              [] OTHER    -> <<c>>]

Escape(value) == FlattenSeq([i \in DOMAIN value |-> EscapeOf[value[i]]])

\* loadMap's scan: a pair it knows becomes one character, and the scan goes on
\* behind that character; the last character is never looked at by itself.
Meaning == [c \in {"bs", "n", "r"} |-> CASE c = "bs" -> "bs" [] c = "n" -> "lf" [] OTHER -> "cr"]

Unescape(text) ==
    LET Pair(i) == i < Len(text) /\ text[i] = "bs" /\ text[i + 1] \in DOMAIN Meaning
        from[i \in 1 .. Len(text) + 1] ==
            IF i > Len(text) THEN <<>>
            ELSE IF Pair(i)  THEN <<Meaning[text[i + 1]]>> \o from[i + 2]
            ELSE <<text[i]>> \o from[i + 1]
    IN from[1]

\* saveMap writes every parameter; loadMap skips a line with nothing behind "=".
Printed(map)  == [k \in DOMAIN map |-> Escape(map[k])]
Parsed(lines) == [k \in {k \in DOMAIN lines : lines[k] # <<>>} |-> Unescape(lines[k])]

NonEmpty(map) == [k \in {k \in DOMAIN map : map[k] # <<>>} |-> map[k]]
=============================================================================

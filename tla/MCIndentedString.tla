-------------------------- MODULE MCIndentedString --------------------------
EXTENDS IndentedString

CONSTANTS MaxLine,   \* characters of a line with escapes
          MaxLines   \* lines of a string with indentation

(* Everything the scanner looks at, in one line and in two. *)
Alphabet == {"'", "$", "b", "\\", "q", "x"}
Escaped == [1..1 -> BoundedSeq(Alphabet, MaxLine)] \cup [1..2 -> BoundedSeq(Alphabet, 2)]

(* Lines that are blank or not, with and without spaces in front; "t" is a  *)
(* tab.                                                                     *)
IndentLines == {Spaces(n) \o l : n \in 0..3, l \in {<<>>, <<"x">>}}
               \cup {<<"t", "x">>, <<" ", "t">>, <<"$", "b">>, <<" ", "$", "b", " ">>, <<"'", "'", "\\">>}
Indented == UNION {[1..n -> IndentLines] : n \in 1..MaxLines}

MCSources == {Term("indented", Escaped), Term("simple", Escaped), Term("indented", Indented)}
=============================================================================

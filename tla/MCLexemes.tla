----------------------------- MODULE MCLexemes -----------------------------
EXTENDS Lexemes

CONSTANT MaxLength   \* of a text

(* White space in a text separates two characters; the second blank of a   *)
(* pair would say nothing more.                                            *)
Spaced(s) == s[1] # Blank /\ Last(s) # Blank /\ \A i \in 2..Len(s) : s[i - 1] # Blank \/ s[i] # Blank

Texts(chars) == {s \in UNION {[1..n -> chars] : n \in 1..MaxLength} : Spaced(s)}

Paths     == Texts({"a", "1", ".", "/", Blank})
Operators == Texts({"a", "-", "+", "/", Blank})
Homes     == Texts({"~", "a", "/", Blank})
Lambdas   == Texts({"a", ":", ".", "/", Blank})
Searches  == Texts({"<", ">", "a", "/", Blank})
Numbers   == Texts({"0", "1", ".", "e", "+"})
Others    == Texts({"a", "1", "*", "=", ">"})

(* A colon that follows white space is the subject of the run uri_space.    *)
SpacedColon(s) == \E i \in 2..Len(s) : s[i - 1] = Blank /\ s[i] = ":"

MCSources ==
    {s \in Paths \cup Operators \cup Homes \cup Lambdas \cup Searches \cup Numbers \cup Others : ~SpacedColon(s)}

Colons  == Texts({"a", ":", Blank})
=============================================================================

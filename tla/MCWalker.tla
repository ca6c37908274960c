------------------------------ MODULE MCWalker ------------------------------
EXTENDS Walker

(* Unformatted, formatted, not parsable, and one whose output is not stable. *)
MCContents  == {"raw", "neat", "broken", "odd", "odder"}
MCFormatted == [c \in {"raw", "neat", "odd", "odder"} |->
                  CASE c = "odd" -> "odder" [] OTHER -> "neat"]

(* Two files; one twice (a directory and a file in it); one gone. *)
MCWalks == { <<"a", "b">>, <<"a", "b", "a">>, <<"error", "a">> }
=============================================================================

---------------------------- MODULE MCDirectives ----------------------------
EXTENDS Directives

(* A tree of every construct that changes how trivia is read, each with up *)
(* to two markers put into any of its gaps, string text included.          *)
Set        == <<"{", "x", "=", "x", ";", "}">>
Interp     == <<"${", "x", "}">>
Str(parts) == <<"quote">> \o parts \o <<"quote">>

Skeletons == {
    <<"x">> \o Set,
    <<"{", "x", ",", "...", "}", ":", "x">>,
    <<"{", "}">>,
    Str(Interp \o <<"x">> \o Interp),
    <<"{">> \o Interp \o <<"=", "x", ";", "}">>,
    Str(<<"${">> \o Set \o <<"}">>) \o <<"x">>,
    Str(<<"${">> \o Str(Interp) \o <<"}">>),
    Str(<<"${", "{">> \o Interp \o <<"=", "x", ";", "}", "}">>) }

Insert(s, at, m) == SubSeq(s, 1, at) \o <<m>> \o SubSeq(s, at + 1, Len(s))
OneMore(sources) == sources \cup
    UNION {{Insert(s, at, m) : at \in 0..Len(s), m \in Markers} : s \in sources}

(* The pairing gets the longer lists of markers, at no, one and two levels  *)
(* of `${}`.                                                                *)
Marked ==
    LET two(s) == OneMore(OneMore(s)) IN
    two(Skeletons) \cup two(two({<<"x">>, Str(Interp)}))
    \cup OneMore(two({Str(<<"${">> \o Str(Interp) \o <<"}">>)}))

(* A comma behind `...`, which the parser accepts though Nix does not.      *)
Commas == OneMore(OneMore({<<"{", "...", ",", "}", ":", "x">>}))
=============================================================================

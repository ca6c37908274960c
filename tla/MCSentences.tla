---------------------------- MODULE MCSentences -----------------------------
EXTENDS Sentences, Grammar

(* Sentences about one subject each: formals and braces, selections and     *)
(* `or`, bindings, operators, keywords, selectors in interpolations.        *)
About(words, begin, most) == [words |-> words, begin |-> begin, most |-> most]

MCStarts == {
    About({"a", "name", "{", "}", ",", "...", "?", "@", ":"}, <<>>, 9),
    About({"a", "{", "}", "=", ";", ".", ","}, <<"{">>, 9),
    About({"a", "or", ".", "[", "]", "1", ":"}, <<>>, 7),
    About({"a", "or", "=", ";", "}", "?", "@", ":"}, <<"{">>, 8),
    About({"a", "inherit", "(", ")", "or", ";", "}", "string", "in"}, <<"let", "inherit">>, 8),
    About({"a", "+", "-", "==", "//", "!"}, <<>>, 7),
    About({"a", "<", "+", "++", "==", "?"}, <<>>, 7),
    About({"let", "{", "}", "in", "a", "rec", "=", ";"}, <<>>, 8),
    About({"if", "then", "else", "with", "assert", ";", "a", ":"}, <<>>, 7),
    About({"\"${", "}\"", "${", "}", "a", ".", "string", "inherit", ";"}, <<"{">>, 7)}

-----------------------------------------------------------------------------
A == Leaf("a")
Path(names)   == Node("Path", names)
Around(before, x, after) ==
    [i \in DOMAIN before |-> Leaf(before[i])] \o <<x>> \o [i \in DOMAIN after |-> Leaf(after[i])]
Assign(x)     == Node("Assignment", <<Path(<<A>>), Leaf("="), x, Leaf(";")>>)
Interpol(x)   == Node("Interpol", Around(<<"${">>, x, <<"}">>))
Dotted(s)     == Path(<<Leaf("."), s>>)
Set(items)    == Node("Set", <<Leaf("{")>> \o items \o <<Leaf("}")>>)
RecSet(kw, items) == Node("RecSet", <<Leaf(kw), Leaf("{")>> \o items \o <<Leaf("}")>>)
Paren(x)      == Node("Paren", Around(<<"(">>, x, <<")">>))
Inherit(items) == Node("Inherit", <<Leaf("inherit")>> \o items \o <<Leaf(";")>>)
LetIn(bs, x)  == Node("Let", <<Leaf("let")>> \o bs \o <<Leaf("in"), x>>)
Lambda(p, x)  == Node("Lambda", <<p, Leaf(":"), x>>)
Formal(attrs) == Node("Params", <<Leaf("{")>> \o attrs \o <<Leaf("}")>>)
Attribute(n)  == Node("Attr", <<Leaf(n), Leaf(",")>>)
Default(x)    == Node("DefaultAttr", <<A, Leaf("?"), x, Leaf(",")>>)
Context(l, r) == Node("Context", <<l, Leaf("@"), r>>)
Op(l, o, r)   == Node("Operation", <<l, Leaf(o), r>>)

Infix == {"+", "-", "++", "==", "<"}

Constructs(x) ==
    {Op(x, o, A) : o \in Infix} \cup {Op(A, o, x) : o \in Infix} \cup
    {Node("Prefix", <<Leaf("-"), x>>), Node("Prefix", <<Leaf("!"), x>>),
     Node("Apply", <<x, A>>), Node("Apply", <<A, x>>),
     Node("HasAttr", <<x, Leaf("?"), Path(<<A, Leaf("."), A>>)>>),
     Node("HasAttr", <<A, Leaf("?"), Path(<<A>>), Leaf("?"), Path(<<Interpol(x)>>)>>),
     Node("Selection", <<x, Dotted(A)>>), Node("Selection", <<A, Dotted(Interpol(x))>>),
     Node("OrDefault", <<x, Dotted(A), Leaf("or"), A>>), Node("OrDefault", <<A, Dotted(Leaf("or")), Leaf("or"), x>>),
     Node("List", Around(<<"[">>, x, <<"]">>)), Node("List", <<Leaf("["), A, x, x, Leaf("]")>>),
     Paren(x), Node("Interpolated", Around(<<"\"${">>, x, <<"}\"">>)),
     Set(<<Assign(x)>>), Set(<<Node("Assignment", <<Path(<<Interpol(x)>>), Leaf("="), A, Leaf(";")>>)>>),
     Set(<<Inherit(<<Paren(x), A, Leaf("string")>>)>>), Set(<<Inherit(<<Interpol(x), Leaf("or")>>)>>),
     RecSet("rec", <<Assign(x), Inherit(<<>>)>>), RecSet("let", <<Assign(x)>>),
     LetIn(<<Assign(x)>>, A), LetIn(<<Inherit(<<A>>)>>, x),
     Node("If", <<Leaf("if"), x, Leaf("then"), A, Leaf("else"), x>>),
     Node("If", <<Leaf("if"), A, Leaf("then"), x, Leaf("else"), A>>),
     Node("With", <<Leaf("with"), x, Leaf(";"), x>>), Node("Assert", <<Leaf("assert"), x, Leaf(";"), x>>),
     Lambda(A, x), Lambda(Formal(<<>>), x), Lambda(Formal(<<Default(x)>>), A),
     Lambda(Formal(<<Attribute("name"), Default(x), Leaf("...")>>), x),
     Lambda(Context(A, Formal(<<Attribute("name"), Leaf("...")>>)), x),
     Lambda(Context(Formal(<<Leaf("...")>>), Leaf("or")), x)}

MCGrowths(x) == {t \in Constructs(x) : Legal(t)}

MCSeeds == {A, Leaf("or"), Leaf("1"), Leaf("string"), Set(<<>>), Node("List", <<Leaf("["), Leaf("]")>>)}
=============================================================================

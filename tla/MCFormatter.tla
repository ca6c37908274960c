---------------------------- MODULE MCFormatter ----------------------------
EXTENDS Formatter, Emitter, Walks

CONSTANT Reach    \* tokens between the comments of one text

L(tok)        == Leaf(tok)
A             == L("a")
B             == L("b")
Ident         == L("name")
List(items)   == Node("List", <<L("[")>> \o items \o <<L("]")>>)
Set(items)    == Node("Set", <<L("{")>> \o items \o <<L("}")>>)
Rec(items)    == Node("RecSet", <<L("rec"), L("{")>> \o items \o <<L("}")>>)
Paren(e)      == Node("Paren", <<L("("), e, L(")")>>)
Path(names)   == Node("Path", names)
Assign(e)     == Node("Assignment", <<Path(<<A>>), L("="), e, L(";")>>)
Inherit(from, names) == Node("Inherit", <<L("inherit")>> \o from \o names \o <<L(";")>>)
Apply(f, x)   == Node("Apply", <<f, x>>)
Op(l, op, r)  == Node("Operation", <<l, L(op), r>>)
Select(e, p)  == Node("Selection", <<e, Path(<<L(".")>> \o p)>>)
OrElse(e, p, d) == Node("OrDefault", <<e, Path(<<L(".")>> \o p), L("or"), d>>)
Interpolated(open, e) == Node("Interpolated", <<L(open), e, L("}\"")>>)
LetIn(bs, e)  == Node("Let", <<L("let")>> \o bs \o <<L("in"), e>>)
If(c, t, e)   == Node("If", <<L("if"), c, L("then"), t, L("else"), e>>)
AssertIn(c, e) == Node("Assert", <<L("assert"), c, L(";"), e>>)
With(c, e)    == Node("With", <<L("with"), c, L(";"), e>>)
Lambda(p, e)  == Node("Lambda", <<p, L(":"), e>>)
Attr(name)    == Node("Attr", <<name, L(",")>>)
Default(e)    == Node("DefaultAttr", <<B, L("?"), e, L(",")>>)
Params(attrs) == Node("Params", <<L("{")>> \o attrs \o <<L("}")>>)
AtParams(p)   == Node("Context", <<B, L("@"), p>>)
Minus(e)      == Node("Prefix", <<L("-"), e>>)

One   == L("1")
Lines == L("lines")

Shapes == <<
    Set(<<Assign(List(<<A, One>>)), Assign(Lines)>>),
    Set(<<Inherit(<<Paren(A)>>, <<A, A>>), Assign(Rec(<<>>))>>),
    Set(<<Assign(Op(Set(<<>>), "//", Op(A, "//", Set(<<Assign(A)>>))))>>),
    Set(<<Assign(Op(A, "++", List(<<A>>))), Assign(With(A, List(<<A>>)))>>),
    Apply(Apply(A, Ident), List(<<A, Paren(A)>>)),
    Apply(Apply(A, List(<<A>>)), List(<<One>>)),
    Apply(A, Paren(Lambda(A, Set(<<Assign(A)>>)))),
    Apply(A, Paren(Apply(A, Lines))),
    Apply(Apply(Lines, A), A),
    Apply(A, Paren(Op(Ident, "+", Ident))),
    Lambda(Params(<<Attr(A), Default(A)>>), Set(<<Assign(A)>>)),
    Lambda(Params(<<Attr(A), L("...")>>), Lambda(A, Lambda(A, A))),
    Lambda(AtParams(Params(<<Attr(A)>>)), With(A, List(<<A>>))),
    Lambda(Params(<<Attr(A), Attr(B)>>), Set(<<Assign(A)>>)),
    LetIn(<<Assign(A), Inherit(<<>>, <<A>>)>>, A),
    If(A, Paren(A), If(A, A, List(<<A>>))),
    AssertIn(Apply(A, A), With(A, A)),
    AssertIn(A, Op(Op(A, "-", Minus(A)), "==", Node("HasAttr", <<A, L("?"), Path(<<A, L("."), A>>)>>))),
    Op(Op(Op(A, "|>", Ident), "|>", A), "|>", Apply(A, List(<<>>))),
    Interpolated("\"${", Apply(Ident, Set(<<Assign(A)>>))),
    Set(<<Assign(Interpolated("mid${", Apply(A, Ident)))>>),
    List(<<Select(Paren(A), <<A>>), OrElse(Set(<<>>), <<A, L("."), A>>, A), Select(One, <<A>>)>>),
    List(<<Interpolated("mid${", A), L("string"), Lines>>)
    >>

Filed(shapes) == [i \in DOMAIN shapes |-> Numbered(Node("File", <<shapes[i], L("eof")>>), 0)]

MCTrees == Filed(Shapes)

-----------------------------------------------------------------------------
Cells(leaf) ==
    IF leaf.tok = "lines" THEN <<leaf.k, leaf.k, Feed, leaf.k, Feed, leaf.k, leaf.k>>
    ELSE [i \in 1..TokenWidth[leaf.tok] |-> leaf.k]

Word(k)  == 100 + k
Lang(k)  == 200 + k

(* What may stand in front of the token k. *)
Gap(kind, k) ==
    CASE kind = "blank"  -> <<Blank>>
      [] kind = "none"   -> <<>>    \* an optional comma that is not there
      [] kind = "line"   -> <<Feed>>
      [] kind = "empty"  -> <<Feed, Feed>>
      [] kind = "behind" -> <<Blank, Hash, Word(k), Feed>>
      [] kind = "above"  -> <<Feed, Hash, Word(k), Feed>>
      [] kind = "block"  -> <<Blank, Block, Word(k), Block, Blank>>
      [] kind = "lang"   -> <<Blank, Block, Lang(k), Block, Blank>>
      [] kind = "off"    -> <<Feed, Disable, Feed>>
      [] kind = "on"     -> <<Feed, Enable, Feed>>
      [] kind = "inline" -> <<Blank, Disable, Blank>>
      [] kind = "off-on" -> <<Feed, Disable, Feed, Enable, Feed>>
      [] kind = "below"  -> <<Feed, Hash, Word(k), Feed, Block, Lang(k), Block, Blank>>

SameLineComments == {"behind", "block"}
Usual            == {"line", "empty", "above"} \cup SameLineComments

(* The first tokens of the bodies that can be absorbed behind a set of      *)
(* parameters on one line.  No comment stands in front of them on the line  *)
(* of the colon: see MovedTexts.                                            *)
AbsorbsFlatly(t) ==
    /\ t.tag = "Lambda" /\ t.kids[1].tag = "Params" /\ t.kids[3].tag \in Containers
    /\ \A attr \in ToSet(AttrsOf(t.kids[1])) : attr.tag # "DefaultAttr"
Movable(tree_) == {FirstSlot(t.kids[3]) : t \in Those(tree_, AbsorbsFlatly)}

GapsAt(tree_, leaf) ==
    (IF leaf.k \in Movable(tree_) THEN Usual \ SameLineComments ELSE Usual)
    \cup (IF leaf.k \in OptionalCommas(tree_) THEN {"none"} ELSE {})
    \cup (IF leaf.tok \in Strings \cup {"\"${", "mid${"} THEN {"lang", "below"} ELSE {})

TextOf(toks, gaps) ==
    Flat([n \in DOMAIN toks |-> Gap(gaps[n], n) \o (IF gaps[n] = "none" THEN <<>> ELSE Cells(toks[n]))])

(* The texts of a tree with no gap but blanks, with one other gap, or with  *)
(* comments in two gaps that are no more than Reach tokens apart.           *)
Blanks(toks) == [n \in DOMAIN toks |-> "blank"]

Others(n, m) == {"none", "behind", "above", "lang"}
                \cup (IF n = m THEN {"line", "empty", "block", "below"} ELSE {})

CommentedTexts(i) ==
    LET toks    == Tokens[i]
        near    == {p \in (DOMAIN toks) \X (DOMAIN toks) : p[1] <= p[2] /\ p[2] <= p[1] + Reach}
        gaps(p) == {[Blanks(toks) EXCEPT ![p[1]] = g, ![p[2]] = h] :
                       g \in GapsAt(MCTrees[i], toks[p[1]]) \cap Others(p[1], p[2]),
                       h \in GapsAt(MCTrees[i], toks[p[2]]) \cap Others(p[1], p[2])}
    IN {TextOf(toks, g) : g \in {Blanks(toks)} \cup UNION {gaps(p) : p \in near}}

-----------------------------------------------------------------------------
(* A disabled region that begins and ends at any two tokens, or has no end, *)
(* and markers that bound none.  None stands in front of a comma whose      *)
(* comments are carried on: see CommaTexts.                                 *)
Carried(tree_) ==
    {leaf.k : leaf \in UNION {{CommaOf(attr) : attr \in ToSet(Front(AttrsOf(t)))} :
                                  t \in Those(tree_, LAMBDA t : t.tag = "Params")}}

MarkedTexts(i) ==
    LET toks == Tokens[i]
        free == DOMAIN toks \ Carried(MCTrees[i])
    IN {TextOf(toks, [Blanks(toks) EXCEPT ![p[1]] = "off", ![p[2]] = "on"]) :
            p \in {q \in free \X free : q[1] < q[2]}}
       \cup {TextOf(toks, [Blanks(toks) EXCEPT ![n] = g]) : n \in free, g \in {"off", "on", "off-on"}}
       \cup {TextOf(toks, [Blanks(toks) EXCEPT ![n] = "inline"]) : n \in free \ Movable(MCTrees[i])}

MCTexts(i) == CommentedTexts(i) \cup MarkedTexts(i)

-----------------------------------------------------------------------------
(* `{ a , name }: a` with the end of a region in front of the comma, and    *)
(* with its beginning there.                                                *)
CommaTrees == Filed(<<Lambda(Params(<<Attr(A), Attr(Ident)>>), A)>>)

CommaTexts(i) ==
    {TextOf(Tokens[i], [Blanks(Tokens[i]) EXCEPT ![2] = "off", ![3] = "on"]),
     TextOf(Tokens[i], [Blanks(Tokens[i]) EXCEPT ![3] = "off", ![4] = "on"])}

-----------------------------------------------------------------------------
(* `{ a, }: # word` in front of a body that can stay on the line of the     *)
(* colon, and does until the comment has taken that line for itself.        *)
MovedTrees == Filed(<<Lambda(Params(<<Attr(A)>>), Set(<<Assign(A)>>)),
                      Lambda(Params(<<Attr(A), Attr(B)>>), Set(<<Assign(A), Inherit(<<Paren(A)>>, <<A>>)>>))>>)

MovedTexts(i) ==
    LET toks == Tokens[i] IN
    {TextOf(toks, [Blanks(toks) EXCEPT ![n] = g]) : n \in Movable(MovedTrees[i]), g \in SameLineComments}

-----------------------------------------------------------------------------
(* `{ a, name }: {` on a line that is too long by two columns.              *)
WideTrees == Filed(<<Lambda(Params(<<Attr(A), Attr(Ident)>>), Set(<<Assign(A)>>))>>)

WideTexts(i) == {TextOf(Tokens[i], Blanks(Tokens[i]))}
=============================================================================

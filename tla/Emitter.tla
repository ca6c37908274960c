------------------------------ MODULE Emitter ------------------------------
(***************************************************************************)
(* The formatting rules (src/format): the document of a syntax tree.       *)
(* `Emit(a, t)` is `t.emit(doc)` under the annotations `a`.  Where the code *)
(* clones a node to change its trivia, the rule goes on with changed       *)
(* annotations.                                                            *)
(*                                                                         *)
(* The letters of the token numbered k are all k, those of a comment are   *)
(* Hash or Block and its words, which are greater than any of these.       *)
(***************************************************************************)
EXTENDS Syntax, Fixup

CONSTANT InterpolationLimit    \* columns of an interpolation that is kept on its line

ASSUME EmitterAssumption == InterpolationLimit \in Nat

N(d) == <<Nest(1, 0)>> \o d \o <<Nest(-1, 0)>>
G(d) == <<Group("Regular", d)>>
P(d) == <<Group("Priority", d)>>
X(d) == <<Group("Transparent", d)>>
S(s) == <<Sp(s)>>

JoinWith(sep, docs) ==
    Flat(Values([i \in DOMAIN docs |-> IF i = 1 THEN docs[1] ELSE S(sep) \o docs[i]]))

-----------------------------------------------------------------------------
(* Leaves and trivia (base.rs).                                            *)

Letters(k, n) == <<Text(0, 0, "Regular", [i \in 1..n |-> k])>>
Token(leaf) == IF leaf.tok = "eof" THEN <<>> ELSE Letters(leaf.k, TokenWidth[leaf.tok])

EmitPiece(p) ==
    CASE p.tag = "EmptyLine"          -> S(Emptyline)
      [] p.tag = "LineComment"        -> <<Text(0, 0, "Comment", <<Hash>> \o p.text), Sp(Hardline)>>
      [] p.tag = "LanguageAnnotation" ->
            <<Text(0, 0, "Comment", <<Block>> \o p.text \o <<Block>>), Sp(Hardspace)>>
      [] p.tag = "Directive"          -> <<Text(0, 0, "Directive", p.text), Sp(Hardline)>>

EmitPieces(pieces) ==
    CASE pieces = <<>> -> <<>>
      [] Len(pieces) = 1 /\ IsLangAnnot(pieces[1]) -> EmitPiece(pieces[1])
      [] OTHER -> S(Hardline) \o Flat([i \in DOMAIN pieces |-> EmitPiece(pieces[i])])

(* Mutant of EmitTrail: the line goes on. *)
EmitTrailOpen(trail) ==
    IF trail = <<>> THEN <<>> ELSE <<Sp(Hardspace), Text(0, 0, "TrailingComment", <<Hash>> \o trail)>>

EmitTrail(trail) ==
    IF trail = <<>> THEN <<>>
    ELSE <<Sp(Hardspace), Text(0, 0, "TrailingComment", <<Hash>> \o trail), Sp(Hardline)>>

EmitPre(a, leaf)  == EmitPieces(a[leaf.k].pre)
EmitHead(a, leaf) == EmitPre(a, leaf) \o Token(leaf)
EmitTail(a, leaf) == Token(leaf) \o EmitTrail(a[leaf.k].trail)
EmitLeaf(a, leaf) == EmitPre(a, leaf) \o EmitTail(a, leaf)

(* An indented string of the lines "x" and "". *)
EmitLines(a, leaf) ==
    EmitPre(a, leaf)
    \o G(Letters(leaf.k, 2) \o S(Break) \o N(Letters(leaf.k, 1) \o S(Newlines(1))) \o Letters(leaf.k, 2))
    \o EmitTrail(a[leaf.k].trail)

EmitPath(a, path) == Flat([i \in DOMAIN path.kids |-> EmitLeaf(a, path.kids[i])])

-----------------------------------------------------------------------------
(* try_compact: the document on one line, groups opened up.                *)

CompactElem(e) ==
    CASE IsSpacing(e) /\ e.sp \in {Hardspace, Space, Softspace} -> S(Hardspace)
      [] IsSpacing(e) /\ e.sp \in {Break, Softbreak}            -> <<>>
      [] OTHER                                                  -> <<e>>

Compact(d) == LET l == Leaves(d) IN Flat([i \in DOMAIN l |-> CompactElem(l[i])])

IsCompactable(d) == LET l == Leaves(d) IN \A i \in DOMAIN l : IsSpacing(l[i]) => ~BreaksAlways(l[i].sp)

CompactWidth(d) ==
    FoldLeft(LAMBDA acc, e : acc + (IF IsText(e) THEN TextWidth(e) ELSE IF IsSpacing(e) THEN 1 ELSE 0),
             0, Compact(d))

CompactWithin(d, limit) == IsCompactable(d) /\ CompactWidth(d) <= limit

-----------------------------------------------------------------------------
RECURSIVE Emit(_, _)

(* A node to be emitted by another function than its `emit`.                *)
As(how, t)        == Node(how, <<t>>)
Bare(wide, t)     == As(IF wide THEN "BareWide" ELSE "Bare", t)
Absorbed(wide, t) == As(IF wide THEN "AbsorbedWide" ELSE "Absorbed", t)
Rhs(t)            == As("Rhs", t)
Argument(t)       == As("Argument", t)
Call(ctx, f, x, head) == [ctx |-> ctx, head |-> head] @@ Node("Call", <<f, x>>)

(* Items::emit_sep.  An annotation at the end of a comment item is fused    *)
(* with the item behind it.                                                 *)
EmitItem(a, t) ==
    LET above == a[FirstSlot(t)].above
        item  == G(Emit(a, t))
    IN CASE above = <<>> -> <<item>>
         [] above # <<>> /\ IsLangAnnot(Last(above)) ->
               <<EmitPieces(Front(above)) \o EmitPiece(Last(above)) \o item>>
         [] OTHER -> <<EmitPieces(above), item>>

EmitItems(a, t, sep) ==
    LET items == ItemList(t)
        left  == a[ItemsEnd(t).k].above
    IN JoinWith(sep, FlattenSeq(Values([i \in DOMAIN items |-> EmitItem(a, items[i])]))
                     \o (IF left = <<>> THEN <<>> ELSE <<EmitPieces(left)>>))

EmptyBrackets(a, open, close) ==
    EmitLeaf(a, open) \o S(IF SameLine(a, open, close) THEN Hardspace ELSE Hardline) \o EmitLeaf(a, close)

Surrounded(a, t, sep, itemSep) ==
    LET open == OpenOf(t) IN
    EmitHead(a, open) \o S(sep) \o N(EmitTrail(a[open.k].trail) \o EmitItems(a, t, itemSep))
    \o S(sep) \o EmitLeaf(a, CloseOf(t))

RenderList(a, sep, t) ==
    LET open == OpenOf(t)
        sur == CASE \/ ~SameLine(a, open, CloseOf(t))
                    \/ ItemsOf(t) = <<>> /\ (CountItems(a, t) > 0 \/ HasTrivia(a, open)) -> Hardline
                 [] OTHER -> IF ItemsOf(t) = <<>> THEN Hardspace ELSE Space
    IN Surrounded(a, t, sur, sep)

EmitList(a, t) ==
    IF CountItems(a, t) = 0 /\ a[OpenOf(t).k].trail = <<>>
    THEN EmptyBrackets(a, OpenOf(t), CloseOf(t)) ELSE RenderList(a, Hardline, t)

StartsWithEmptyLine(a, t) ==
    LET first == IF ItemsOf(t) = <<>> THEN CloseOf(t).k ELSE FirstSlot(ItemsOf(t)[1])
    IN \E p \in ToSet(a[first].above) : p.tag = "EmptyLine"

EmitSet(a, wide, t) ==
    LET open == OpenOf(t)
        any  == CountItems(a, t) > 0
        sep  == IF (any /\ (wide \/ StartsWithEmptyLine(a, t))) \/ ~SameLine(a, open, CloseOf(t))
                THEN Hardline ELSE Space
    IN (IF t.tag = "RecSet" THEN EmitLeaf(a, t.kids[1]) \o S(Hardspace) ELSE <<>>)
       \o (IF ~any /\ ~HasTrivia(a, open) THEN EmptyBrackets(a, open, CloseOf(t))
           ELSE Surrounded(a, t, sep, Hardline))

(* emit_bare, and emit_wide if `wide` *)
EmitBare(a, wide, t) ==
    CASE t.tag = "List"              -> EmitList(a, t)
      [] t.tag \in {"Set", "RecSet"} -> EmitSet(a, wide, t)
      [] OTHER                       -> Emit(a, t)

-----------------------------------------------------------------------------
(* Absorbing (absorb.rs): staying on the line of what is in front.         *)

AbsorbWith(a, t) ==
    G(S(Break) \o EmitLeaf(a, t.kids[1]) \o S(Hardspace) \o N(G(Emit(a, t.kids[2])))
      \o EmitLeaf(a, t.kids[3]) \o S(Hardspace) \o P(Emit(a, Bare(TRUE, t.kids[4]))))

Absorb(a, wide, t) ==
    CASE IsTerm(t) /\ IsAbsorbableTerm(a, t)  -> Emit(a, Bare(wide, t))
      [] t.tag = "With" /\ IsAbsorbable(a, t) -> AbsorbWith(a, t)
      [] OTHER                                -> Emit(a, t)

AbsorbParen(a, t) ==
    LET open  == t.kids[1]
        close == t.kids[3]
        body  == EmitPieces(AsPieces(a[open.k].trail)) \o Emit(a, t.kids[2]) \o EmitPre(a, close)
    IN P(N(EmitHead(a, open) \o S(Break) \o G(N(body)) \o S(Break) \o EmitTail(a, close)))

-----------------------------------------------------------------------------
(* Function calls (app.rs).                                                *)

AbsorbInner(a, t) ==
    IF t.tag = "List" /\ CountItems(a, t) <= 6 /\ \A x \in ToSet(ItemsOf(t)) : IsSimple(a, x)
    THEN RenderList(a, Space, t) ELSE Emit(a, t)

AbsorbArg(a, t) ==
    LET inner == Emit(a, Argument(t))
    IN S(Space) \o N(IF t.tag \in {"Selection", "OrDefault"} THEN G(inner) ELSE P(inner))

(* The trivia of a call's first token is printed in front of the call, but  *)
(* annotations stay with their string.                                      *)
FirstTokenComment(a, t) ==
    LET slot == a[FirstSlot(t)] IN
    SubSeq(slot.pre, Len(AnnotPrefix(slot.pre)) + 1, Len(slot.pre)) \o AsPieces(slot.trail)

StripFirstComment(a, t) ==
    [a EXCEPT ![FirstSlot(t)] = [@ EXCEPT !.pre = AnnotPrefix(@), !.trail = <<>>]]

(* list_pair: the last two arguments if both are lists, as <<rest of the    *)
(* chain, first list, rest of the virtual head>>.                           *)
ListPair(f, x, head) ==
    CASE x.tag = "List" /\ f.tag = "Apply" /\ f.kids[2].tag = "List" -> <<f.kids[1], f.kids[2], head>>
      [] x.tag = "List" /\ f.tag = "List" /\ head # <<>>             -> <<head[1], f, <<>>>>
      [] OTHER -> <<>>

RECURSIVE AbsorbApp(_, _, _, _)
AbsorbApp(a, t, indent, head) ==
    CASE t.tag # "Apply" /\ head = <<>> ->
            IF indent THEN N(G(S(Break) \o Emit(a, t))) ELSE Emit(a, t)
      [] t.tag # "Apply" /\ head # <<>> -> X(AbsorbApp(a, head[1], indent, <<>>)) \o AbsorbArg(a, t)
      [] OTHER ->
            LET x    == t.kids[2]
                pair == ListPair(t.kids[1], x, head)
            IN IF pair = <<>> THEN X(AbsorbApp(a, t.kids[1], indent, head)) \o AbsorbArg(a, x)
               ELSE X(X(AbsorbApp(a, pair[1], indent, pair[3]))
                      \o N(G(S(Space) \o G(Emit(a, Argument(pair[2]))) \o S(Space) \o G(Emit(a, Argument(x))))))

PlainLeaf(a, t, toks) == IsToken(t, toks) /\ ~HasTrivia(a, t)

(* `(x: body)` and `(f body)` as the last argument. *)
AbsorbsBody(a, t) ==
    LET e == t.kids[2]
        body == Last(e.kids)
    IN /\ t.tag = "Paren" /\ ~HasTrivia(a, t.kids[1]) /\ e.tag \in {"Lambda", "Apply"}
       /\ PlainLeaf(a, e.kids[1], Names)
       /\ IF e.tag = "Lambda" THEN ~HasTrivia(a, e.kids[2]) ELSE ~HasTrivia(a, t.kids[3])
       /\ IsTerm(body) /\ IsAbsorbableTerm(a, body)

AbsorbLast(a, t) ==
    CASE IsTerm(t) /\ IsAbsorbableTerm(a, t) -> P(N(Emit(a, Bare(FALSE, t))))
      [] t.tag = "Paren" /\ ~IsAbsorbableTerm(a, t) /\ AbsorbsBody(a, t) ->
            LET e == t.kids[2] IN
            P(N(EmitLeaf(a, t.kids[1]) \o EmitLeaf(a, e.kids[1])
                \o (IF e.tag = "Lambda" THEN EmitLeaf(a, e.kids[2]) ELSE <<>>)
                \o S(Hardspace) \o Emit(a, Bare(TRUE, Last(e.kids))) \o EmitLeaf(a, t.kids[3])))
      [] t.tag = "Paren" /\ ~IsAbsorbableTerm(a, t) /\ ~AbsorbsBody(a, t) -> AbsorbParen(a, t)
      [] OTHER -> G(N(Emit(a, t)))

(* The knobs of AppCtx. *)
AppDefault == [indent |-> FALSE, pre |-> <<>>, post |-> FALSE]
AppInParen == [indent |-> TRUE, pre |-> <<>>, post |-> TRUE]
AppRhs     == [indent |-> FALSE, pre |-> S(Space), post |-> FALSE]

(* emit_app_parts, with the virtual head of `assert` *)
EmitAppParts(a0, ctx, f, x, head) ==
    LET first   == IF head = <<>> THEN f ELSE head[1]
        comment == FirstTokenComment(a0, first)
        a       == IF comment = <<>> THEN a0 ELSE StripFirstComment(a0, first)
        indent  == ctx.indent /\ comment = <<>>
        post    == IF ctx.post THEN S(Break) ELSE <<>>
        pair    == ListPair(f, x, head)
        chain   == ctx.pre \o X(AbsorbApp(a, f, indent, head))
        last    == AbsorbLast(a, x)
        simple  == head = <<>> /\ IsSimple(a0, Node("Apply", <<f, x>>)) /\ IsCompactable(chain)
    IN EmitPieces(comment)
       \o (CASE pair # <<>> ->
                  G(ctx.pre \o X(AbsorbApp(a, pair[1], indent, pair[3]))
                    \o S(Space) \o N(G(Emit(a, Argument(pair[2]))))
                    \o S(Space) \o N(G(Emit(a, Argument(x)))) \o post)
             [] pair = <<>> /\ simple  -> G(Compact(chain) \o S(Hardspace) \o last)
             [] pair = <<>> /\ ~simple -> G(chain \o S(Space) \o last \o post))
       \o (IF ctx.post /\ comment # <<>> THEN S(Hardline) ELSE <<>>)

Applied(ctx, t) == Call(ctx, t.kids[1], t.kids[2], <<>>)

-----------------------------------------------------------------------------
(* Operators (op.rs).                                                      *)

RECURSIVE FlattenOperation(_, _, _)
(* flatten_operation_chain: <<operator in front, if any, and operand>>. *)
FlattenOperation(tok, t, op) ==
    IF t.tag = "Operation" /\ t.kids[2].tok = tok
    THEN FlattenOperation(tok, t.kids[1], op) \o FlattenOperation(tok, t.kids[3], <<t.kids[2]>>)
    ELSE <<[op |-> op, t |-> t]>>

AbsorbOperation(a, t) ==
    CASE IsTerm(t) /\ IsAbsorbableTerm(a, t) -> S(Hardspace) \o Emit(a, t)
      [] t.tag = "Operation"                 -> G(S(Space) \o Emit(a, t))
      [] t.tag = "Apply"                     -> G(Emit(a, Applied(AppRhs, t)))
      [] OTHER                               -> S(Hardspace) \o Emit(a, t)

EmitChain(a, wide, t) ==
    LET parts == FlattenOperation(t.kids[2].tok, t, <<>>)
        sep   == IF t.kids[2].tok = "|>" /\ Len(parts) > 3 THEN Hardline ELSE Space
        part(p) ==
            IF p.op = <<>>
            THEN IF wide /\ IsTerm(p.t) /\ IsAbsorbableTerm(a, p.t) THEN Emit(a, Bare(TRUE, p.t)) ELSE Emit(a, p.t)
            ELSE S(sep) \o EmitLeaf(MoveUp(a, p.op[1]), p.op[1]) \o N(AbsorbOperation(a, p.t))
    IN G(Flat([i \in DOMAIN parts |-> part(parts[i])]))

EmitOperation(a, t) ==
    LET l  == t.kids[1]
        op == t.kids[2]
        r  == t.kids[3]
    IN CASE op.tok \in Comparing ->
              Emit(a, l) \o S(Softspace) \o EmitLeaf(a, op) \o S(Hardspace) \o Emit(a, r)
         [] op.tok \in Concatenating /\ IsTerm(r) /\ IsAbsorbableTerm(a, r) ->
              G(Emit(a, l) \o S(Space) \o EmitLeaf(a, op) \o S(Hardspace) \o N(Emit(a, r)))
         [] OTHER -> EmitChain(a, FALSE, t)

-----------------------------------------------------------------------------
(* Right-hand sides (absorb.rs).                                           *)

(* "do not force-expand attrsets that only contain a single `inherit`" *)
OnlyInherit(a, t) ==
    /\ t.tag \in {"Set", "RecSet"} /\ CountItems(a, t) = 1
    /\ ItemsOf(t) # <<>> /\ ItemsOf(t)[1].tag = "Inherit"

UnindentsChain(a, t) ==
    LET l == t.kids[1] IN IsTerm(l) /\ IsAbsorbableTerm(a, l) /\ a[FirstSlot(l)].pre = <<>>

ExpandsRight(a, t) ==
    ~HasTrivia(a, t.kids[2]) /\ IsTerm(t.kids[3]) /\ IsAbsorbableTerm(a, t.kids[3])

AbsorbRhs(a, t) ==
    CASE OnlyInherit(a, t) \/ IsAbsorbable(a, t) -> N(S(Hardspace) \o G(Emit(a, Absorbed(~OnlyInherit(a, t), t))))
      [] OTHER -> CASE
         t.tag = "Paren"                                     -> N(S(Hardspace) \o AbsorbParen(a, t))
      [] IsToken(t, Strings) \/ t.tag = "Interpolated"       -> N(S(Hardspace) \o G(Emit(a, t)))
      [] t.tag \in Containers \cup {"Selection", "OrDefault", "With"} \/ IsToken(t, Simple) ->
            N(G(S(Space) \o Emit(a, t)))
      [] t.tag = "Apply"                                     -> N(Emit(a, Applied(AppRhs, t)))
      [] t.tag = "Operation" /\ t.kids[2].tok \in Concatenating /\ UnindentsChain(a, t) ->
            S(Hardspace) \o EmitChain(a, TRUE, t)
      [] t.tag = "Operation" /\ t.kids[2].tok \in Concatenating /\ ~UnindentsChain(a, t) /\ ExpandsRight(a, t) ->
            N(G(S(Space) \o Emit(a, t.kids[1]) \o S(Space)
                \o X(EmitLeaf(a, t.kids[2]) \o S(Hardspace) \o P(Emit(a, Bare(TRUE, t.kids[3]))))))
      [] OTHER -> N(S(Space) \o G(Emit(a, t)))

-----------------------------------------------------------------------------
(* Binders (term.rs).                                                      *)

EmitInherit(a, t) ==
    LET kw    == t.kids[1]
        semi  == Last(t.kids)
        from  == SelectSeq(Inner(t), LAMBDA x : x.tag = "Paren")
        names == SelectSeq(Inner(t), IsLeaf)
        loose == SameLine(a, kw, semi) /\ Len(names) < 4
        sep   == IF loose THEN Space ELSE Hardline
        rest  == JoinWith(sep, [i \in DOMAIN names |-> EmitLeaf(a, names[i])])
                 \o S(IF loose THEN Break ELSE Hardline) \o EmitLeaf(a, semi)
    IN G(EmitLeaf(a, kw)
         \o (IF from = <<>> THEN S(sep) \o N(rest)
             ELSE N(G(S(Space) \o Emit(a, from[1])) \o S(sep) \o rest)))

EmitAssignment(a, t) ==
    LET path   == t.kids[1]
        simple == Len(SelectorsOf(path)) <= 4 /\ OnlyIds(path)
        value  == Emit(a, Rhs(t.kids[3]))
    IN G(EmitPath(a, path)
         \o N(S(Hardspace) \o EmitLeaf(a, t.kids[2])
              \o (IF simple THEN value ELSE S(Break) \o P(value)))
         \o EmitLeaf(a, t.kids[4]))

-----------------------------------------------------------------------------
(* Parameters (params.rs).                                                 *)

LeadLeaf(attr) == IF IsLeaf(attr) THEN attr ELSE attr.kids[1]

(* move_params_comments: the trivia in front of a comma goes to the next    *)
(* attribute.                                                               *)
CarryComments(attrs, acc, i) ==
    LET lead  == LeadLeaf(attrs[i])
        comma == CommaOf(attrs[i])
        b     == [acc.a EXCEPT ![lead.k] = [@ EXCEPT !.pre = acc.carry \o @]]
        takes == i < Len(attrs) /\ ~IsLeaf(attrs[i]) /\ b[comma.k].trail = <<>>
    IN IF takes THEN [a |-> [b EXCEPT ![comma.k] = [@ EXCEPT !.pre = <<>>]], carry |-> b[comma.k].pre]
       ELSE [a |-> b, carry |-> <<>>]

MoveParamsComments(a, attrs) ==
    FoldLeft(LAMBDA acc, i : CarryComments(attrs, acc, i), [a |-> a, carry |-> <<>>],
             [i \in DOMAIN attrs |-> i]).a

(* move_param_attr_comment: a trailing comment goes behind the comma. *)
MoveParamAttrComment(a, attr) ==
    LET from == IF attr.tag = "Attr" THEN attr.kids[1].k ELSE LastSlot(attr.kids[3])
        to   == CommaOf(attr)
    IN IF IsLeaf(attr) \/ HasTrivia(a, to) THEN a
       ELSE [a EXCEPT ![to.k]  = [@ EXCEPT !.trail = a[from].trail],
                      ![from] = [@ EXCEPT !.trail = <<>>]]

EmitAttr(a, attr, comma) ==
    LET name == EmitLeaf(a, attr.kids[1]) IN
    IF attr.tag = "Attr" THEN name \o comma
    ELSE G(name \o S(Hardspace) \o N(EmitLeaf(a, attr.kids[2]) \o Emit(a, Rhs(attr.kids[3]))) \o comma)

(* render_param_attrs: a plain comma behind the last attribute is printed   *)
(* only when the group is expanded.                                         *)
EmitParamAttrs(a0, attrs) ==
    LET a == FoldLeft(MoveParamAttrComment, MoveParamsComments(a0, attrs), attrs)
        attr(i) ==
            LET comma == CommaOf(attrs[i])
                plain == i = Len(attrs) /\ ~HasTrivia(a, comma)
            IN EmitAttr(a, attrs[i], IF plain THEN <<>> ELSE EmitLeaf(a, comma))
               \o (IF plain THEN <<Text(0, 0, "Trailing", <<comma.k>>)>> ELSE <<>>)
    IN [i \in DOMAIN attrs |-> IF IsLeaf(attrs[i]) THEN EmitLeaf(a, attrs[i]) ELSE attr(i)]

EmitParams(a, t) ==
    LET open  == t.kids[1]
        close == CloseOf(t)
        up    == MoveUp(a, open)
        sep   == IF IsFlatSet(a, t) THEN Space ELSE Hardline
    IN IF AttrsOf(t) = <<>> THEN G(EmptyBrackets(up, open, close))
       ELSE G(EmitLeaf(up, open) \o S(sep) \o N(JoinWith(sep, EmitParamAttrs(a, AttrsOf(t)))) \o S(sep)
              \o N(EmitPre(a, close)) \o EmitTail(a, close))

(* Parameter::Context *)
EmitParameter(a, t) == Emit(a, t.kids[1]) \o EmitLeaf(a, t.kids[2]) \o Emit(a, t.kids[3])

-----------------------------------------------------------------------------
(* Keyword expressions (stmt.rs).                                          *)

RECURSIVE AbsorbLambda(_, _, _)
AbsorbLambda(a, t, depth) ==
    CASE t.tag = "Lambda" /\ IsLeaf(t.kids[1]) ->
            S(Hardspace) \o EmitLeaf(a, t.kids[1]) \o EmitLeaf(a, t.kids[2])
            \o AbsorbLambda(a, t.kids[3], depth + 1)
      [] ~(t.tag = "Lambda" /\ IsLeaf(t.kids[1])) /\ IsAbsorbable(a, t) ->
            S(Hardspace) \o P(Emit(a, Absorbed(FALSE, t)))
      [] OTHER -> S(IF depth <= 2 THEN Space ELSE Hardline) \o Emit(a, t)

EmitLambda(a, t) ==
    LET param == t.kids[1]
        colon == EmitLeaf(a, t.kids[2])
        body  == t.kids[3]
        same  == StartsOnLineOf(a, body, t.kids[2])
        absorbs == same /\ IsFlatSet(a, param) /\ IsAbsorbable(a, body)
    IN CASE IsLeaf(param) -> G(S(Break) \o EmitLeaf(a, param) \o colon \o AbsorbLambda(a, body, 1))
         [] OTHER -> Emit(a, param) \o colon \o
              (CASE absorbs                         -> S(Hardspace) \o P(Emit(a, body))
                 [] param.tag = "Params" /\ ~same   -> S(Hardline) \o Emit(a, body)
                 [] ~absorbs /\ (param.tag = "Params" => same) ->
                      IF IsTerm(body) /\ IsAbsorbableTerm(a, body)
                      THEN S(Space) \o G(Emit(a, Bare(TRUE, body))) ELSE S(Space) \o Emit(a, body))

(* The trailing comment of `in` moves down to the body. *)
EmitLet(a, t) ==
    LET kwIn == t.kids[Len(t.kids) - 1]
        body == Last(t.kids)
        moved == a[kwIn.k].pre \o AsPieces(a[kwIn.k].trail)
        down  == [a EXCEPT ![FirstSlot(body)] = [@ EXCEPT !.pre = moved \o @]]
    IN G(EmitLeaf(a, t.kids[1]) \o S(Hardline) \o N(EmitItems(a, t, Hardline)))
       \o S(Hardline) \o G(Token(kwIn) \o S(Hardline) \o Emit(down, body))

EmitWith(a, t) ==
    G(EmitLeaf(a, t.kids[1]) \o S(Hardspace) \o N(G(Emit(a, t.kids[2]))) \o EmitLeaf(a, t.kids[3]))
    \o S(Space) \o Emit(a, t.kids[4])

RECURSIVE EmitIf(_, _, _)
EmitIf(a, t, nested) ==
    IF t.tag # "If" THEN S(Space) \o N(G(Emit(a, t)))
    ELSE LET kw  == IF nested THEN EmitLeaf(a, t.kids[1]) ELSE EmitLeaf(MoveUp(a, t.kids[1]), t.kids[1])
             sep == S(IF nested THEN Hardline ELSE Space)
         IN G(kw \o S(Space) \o N(Emit(a, t.kids[2])) \o S(Space) \o EmitLeaf(a, t.kids[3]))
            \o sep \o N(G(Emit(a, t.kids[4]))) \o sep
            \o EmitLeaf(MoveUp(a, t.kids[5]), t.kids[5]) \o S(Hardspace) \o EmitIf(a, t.kids[6], TRUE)

(* `assert cond` is printed as a call of the keyword. *)
EmitAssert(a, t) ==
    LET kw   == t.kids[1]
        cond == t.kids[2]
        call == IF cond.tag = "Apply" THEN <<cond.kids[1], cond.kids[2], <<kw>>>> ELSE <<kw, cond, <<>>>>
    IN G(Emit(a, Call(AppDefault, call[1], call[2], call[3]))
      \o EmitLeaf(a, t.kids[3]) \o S(Hardline) \o Emit(a, t.kids[4]))

-----------------------------------------------------------------------------
(* Terms (mod.rs, term.rs, string.rs).                                     *)

EmitParenBody(a, t) ==
    CASE IsAbsorbable(a, t) -> G(Emit(a, Absorbed(FALSE, t)))
      [] t.tag = "Apply"    -> Emit(a, Applied(AppInParen, t))
      [] t.tag \in {"Selection", "OrDefault"} /\ ~IsAbsorbableTerm(a, t.kids[1]) -> G(Emit(a, t)) \o S(Break)
      [] OTHER -> S(Break) \o G(Emit(a, t)) \o S(Break)

EmitParen(a, t) ==
    LET open  == t.kids[1]
        close == t.kids[3]
    IN G(EmitLeaf(MoveUp(a, open), open) \o N(EmitParenBody(a, t.kids[2]) \o EmitPre(a, close)) \o EmitTail(a, close))

(* How far the selectors may break off depends on what they select from. *)
EmitSelection(a, t) ==
    LET base == t.kids[1]
        gap  == CASE IsToken(base, {"1"}) -> S(Hardspace)    \* `1.a` would be read as `1.` and `a`
                  [] IsToken(base, Names) -> <<>>
                  [] base.tag = "Paren"   -> S(Softbreak)
                  [] OTHER                -> S(Break)
        default == IF t.tag = "Selection" THEN <<>>
                   ELSE S(Softspace) \o N(EmitLeaf(a, t.kids[3]) \o S(Hardspace) \o Emit(a, t.kids[4]))
    IN Emit(a, base) \o gap \o EmitPath(a, t.kids[2]) \o default

(* A string with one interpolation.  Its quotes belong to the leaves that   *)
(* open and close it, its own annotations to the first of them.             *)
InterpolationBraces(limit, k, close, body) ==
    G(Letters(k, 2)
      \o (IF CompactWithin(body, limit) THEN Compact(body) ELSE N(S(Break) \o body \o S(Break)))
      \o Letters(close, 1))

EmitInterpolation(a, t) ==
    LET open  == t.kids[1]
        e     == t.kids[2]
        close == t.kids[3]
        trailing == a[close.k].pre
        whole == G(Emit(a, e) \o EmitPieces(trailing))
        braced(d) == Letters(open.k, 2) \o d \o Letters(close.k, 1)
    IN CASE trailing = <<>> /\ open.tok = "\"${" -> G(Letters(open.k, 2) \o N(EmitParenBody(a, e)) \o Letters(close.k, 1))
         [] trailing # <<>> /\ open.tok = "\"${" -> InterpolationBraces(0, open.k, close.k, whole)
         [] OTHER -> CASE
            trailing = <<>> /\ IsTerm(e) /\ IsAbsorbableTerm(a, e) -> G(braced(Emit(a, e)))
         [] trailing = <<>> /\ ~(IsTerm(e) /\ IsAbsorbableTerm(a, e)) /\ IsSimple(a, e) ->
               braced(IF IsCompactable(Emit(a, e)) THEN Compact(Emit(a, e)) ELSE Emit(a, e))
         [] OTHER -> InterpolationBraces(InterpolationLimit, open.k, close.k, whole)

EmitString(a, t) ==
    LET open == t.kids[1]
        text == Letters(open.k, TokenWidth[open.tok] - 2)    \* the quote, perhaps a letter
    IN EmitPre(a, open) \o G(text \o EmitInterpolation(a, t) \o Letters(t.kids[3].k, 1)) \o EmitTrail(a[open.k].trail)

EmitHasAttr(a, t) ==
    LET check(i) == S(Space) \o EmitLeaf(MoveUp(a, t.kids[2 * i]), t.kids[2 * i]) \o S(Hardspace)
                    \o EmitPath(a, t.kids[2 * i + 1])
    IN G(Emit(a, t.kids[1]) \o N(Flat([i \in 1..(Len(t.kids) \div 2) |-> check(i)])))

Emit(a, t) ==
    CASE IsToken(t, {"lines"})       -> EmitLines(a, t)
      [] IsLeaf(t) /\ t.tok # "lines" -> EmitLeaf(a, t)
      [] t.tag = "Interpolated"      -> EmitString(a, t)
      [] t.tag = "Paren"             -> EmitParen(a, t)
      [] t.tag = "List"              -> G(EmitList(a, t))
      [] t.tag \in {"Set", "RecSet"} -> EmitSet(a, FALSE, t)
      [] t.tag \in {"Selection", "OrDefault"} -> EmitSelection(a, t)
      [] t.tag = "Inherit"           -> EmitInherit(a, t)
      [] t.tag = "Assignment"        -> EmitAssignment(a, t)
      [] t.tag = "Apply"             -> Emit(a, Applied(AppDefault, t))
      [] t.tag = "Operation"         -> EmitOperation(a, t)
      [] t.tag = "HasAttr"           -> EmitHasAttr(a, t)
      [] t.tag = "Prefix"            -> EmitLeaf(a, t.kids[1]) \o Emit(a, t.kids[2])
      [] t.tag = "Let"               -> EmitLet(a, t)
      [] t.tag = "If"                -> G(EmitIf(a, t, FALSE))
      [] t.tag = "Assert"            -> EmitAssert(a, t)
      [] t.tag = "With"              -> EmitWith(a, t)
      [] t.tag = "Lambda"            -> EmitLambda(a, t)
      [] t.tag = "Params"            -> EmitParams(a, t)
      [] t.tag = "Context"           -> EmitParameter(a, t)
      [] t.tag \in {"Bare", "BareWide"}         -> EmitBare(a, t.tag = "BareWide", t.kids[1])
      [] t.tag \in {"Absorbed", "AbsorbedWide"} -> Absorb(a, t.tag = "AbsorbedWide", t.kids[1])
      [] t.tag = "Rhs"               -> AbsorbRhs(a, t.kids[1])
      [] t.tag = "Argument"          -> AbsorbInner(a, t.kids[1])
      [] t.tag = "Call"              -> EmitAppParts(a, t.ctx, t.kids[1], t.kids[2], t.head)

(* impl Emit for Trailed: the expression of a file and its last comments. *)
EmitFile(a, file) == G(Emit(a, file.kids[1]) \o EmitPre(a, file.kids[2]))
=============================================================================

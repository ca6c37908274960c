------------------------------ MODULE Grammar -------------------------------
(***************************************************************************)
(* The recursive descent parser (src/parser), on tokens: which tree a      *)
(* sequence of tokens is read as, and where the parser stops.  A tree is   *)
(* one of Syntax; the leaf of a token has its place for a number, and a    *)
(* comma that is not there has the number 0.                               *)
(*                                                                         *)
(* A function of the parser that only puts together what others read is a  *)
(* list of the symbols it expects: tokens and the names of such functions. *)
(* Paths, URIs and the decisions that need characters are in Lexemes; a    *)
(* string without interpolations is a token, one with an interpolation     *)
(* opens with the quote and `${` and closes with `}` and the quote.  The    *)
(* limit on the depth of nesting is left out.                              *)
(***************************************************************************)
EXTENDS Syntax

Identifiers == Names \cup {"or"}
Opens       == {"\"${", "mid${"}    \* a string with an interpolation
Missing     == Leaf(",")            \* a comma that is not there

At(toks, p)     == IF p \in DOMAIN toks THEN toks[p] ELSE "eof"
LeafAt(toks, p) == [Leaf(toks[p]) EXCEPT !.k = p]

(* What a function returns: the trees it read and the place behind them, a  *)
(* ParseError, or "binders" for the Ok(None) of try_parse_param_attrs.      *)
Result(kind, trees, p) == [kind |-> kind, trees |-> trees, p |-> p]
Got(trees, p) == Result("ok", trees, p)
Error(p)      == Result("error", <<>>, p)

Behind(trees, r) == IF r.kind = "ok" THEN [r EXCEPT !.trees = trees \o @] ELSE r
Wrap(tag, r)     == IF r.kind = "ok" THEN [r EXCEPT !.trees = <<Node(tag, @)>>] ELSE r
The(r)           == r.trees[1]

-----------------------------------------------------------------------------
(* is_term_start, is_simple_selector_start, is_binary_op *)
IsTermStart(tok)     == tok \in Identifiers \cup Simple \cup Strings \cup Opens \cup {"{", "rec", "[", "("}
IsSelectorStart(tok) == tok \in Identifiers \cup Opens \cup {"string", "${"}
IsBinaryOp(tok)      == tok \in BinaryOps

NameOf(attr) == attr.kids[1].tok
Formals(param) == SelectSeq(AttrsOf(param), LAMBDA x : ~IsLeaf(x))

(* check_duplicate_formals *)
DuplicateFormals(param) ==
    \E i, j \in DOMAIN Formals(param) : i # j /\ NameOf(Formals(param)[i]) = NameOf(Formals(param)[j])

(* check_pattern_shadows_formal *)
Shadows(name, param) == \E i \in DOMAIN Formals(param) : NameOf(Formals(param)[i]) = name.tok

(* Mutant of BadPattern: the formals of a set behind `@` are not compared with the name. *)
BadFormals(lhs, rhs) == ~IsLeaf(rhs) /\ DuplicateFormals(rhs)

(* parse_context_second, of the two halves of a pattern with `@` *)
BadPattern(lhs, rhs) ==
    \/ ~IsLeaf(rhs) /\ (DuplicateFormals(rhs) \/ Shadows(lhs, rhs))
    \/ IsLeaf(rhs) /\ Shadows(rhs, lhs)

-----------------------------------------------------------------------------
(* The tree of two operands: `(a + b) + c` becomes `a + (b + c)`.           *)

(* Mutant of Combined: the chain is turned round with its operands. *)
CombinedSwapped(l, o, r) ==
    IF o.tok = "+" /\ l.tag = "Operation" /\ l.kids[2].tok = "+"
    THEN Node("Operation", <<l.kids[1], l.kids[2], Node("Operation", <<r, o, l.kids[3]>>)>>)
    ELSE Node("Operation", <<l, o, r>>)

Combined(l, o, r) ==
    IF o.tok = "+" /\ l.tag = "Operation" /\ l.kids[2].tok = "+"
    THEN Node("Operation", <<l.kids[1], l.kids[2], Node("Operation", <<l.kids[3], o, r>>)>>)
    ELSE Node("Operation", <<l, o, r>>)

RECURSIVE Parse(_, _, _), All(_, _, _), Attrs(_, _), Select(_, _, _), Applied(_, _),
          Checked(_, _), Climb(_, _, _, _), RightSide(_, _, _)

(* The symbols one after the other. *)
All(toks, symbols, p) ==
    IF symbols = <<>> THEN Got(<<>>, p)
    ELSE LET r == Parse(toks, Head(symbols), p)
         IN IF r.kind = "ok" THEN Behind(r.trees, All(toks, Tail(symbols), r.p)) ELSE r

-----------------------------------------------------------------------------
(* try_parse_param_attrs: `...` ends the attributes, with a comma behind it *)
(* or without, and so does an attribute without a comma.                    *)

(* Mutant of CommaAt: there is always one. *)
CommaThere(toks, p) == All(toks, <<",">>, p)

CommaAt(toks, p) == IF At(toks, p) = "," THEN Got(<<LeafAt(toks, p)>>, p + 1) ELSE Got(<<Missing>>, p)

Attr(toks, p) ==
    LET name  == LeafAt(toks, p)
        value == All(toks, <<"?", "Expression">>, p + 1)
        attr(tag, r) == LET comma == CommaAt(toks, r.p) IN
                        IF r.kind = "ok" THEN Wrap(tag, Behind(<<name>> \o r.trees, comma)) ELSE r
    IN  IF At(toks, p + 1) = "?" THEN attr("DefaultAttr", value) ELSE attr("Attr", Got(<<>>, p + 1))

Attrs(toks, p) ==
    LET tok   == At(toks, p)
        first == Attr(toks, p)
        ends  == CommaOf(The(first)) = Missing /\ At(toks, first.p) \notin {"}", "eof"}
    IN CASE tok = "..." -> Got(<<LeafAt(toks, p)>>, IF At(toks, p + 1) = "," THEN p + 2 ELSE p + 1)
         [] tok = "or" \/ (tok \in Names /\ At(toks, p + 1) \in {"=", "."}) -> Result("binders", <<>>, p)
         [] tok \in Names /\ At(toks, p + 1) \notin {"=", "."} ->
              IF first.kind # "ok" \/ ends THEN first ELSE Behind(first.trees, Attrs(toks, first.p))
         [] OTHER -> Got(<<>>, p)

(* parse_param_attrs between its braces *)
Params(toks, p) ==
    LET attrs == Attrs(toks, p + 1)
        param == Wrap("Params", Behind(<<LeafAt(toks, p)>>, Behind(attrs.trees, All(toks, <<"}">>, attrs.p))))
    IN  CASE At(toks, p) # "{" -> Error(p)
          [] At(toks, p) = "{" /\ attrs.kind # "ok" -> attrs
          [] OTHER -> IF param.kind = "ok" /\ DuplicateFormals(The(param)) THEN Error(p) ELSE param

(* finish_abstraction, for what is a parameter if `:` or `@` follows *)
Abstraction(toks, param, p) ==
    LET body   == All(toks, <<":", "Expression">>, p)
        second == IF IsLeaf(param) THEN Params(toks, p + 1) ELSE Parse(toks, "Name", p + 1)
        context == Node("Context", <<param, LeafAt(toks, p), The(second)>>)
    IN CASE At(toks, p) = "@" /\ second.kind # "ok" -> Error(second.p)
         [] At(toks, p) = "@" /\ second.kind = "ok" ->
              IF BadPattern(param, The(second)) THEN Error(p)
              ELSE Wrap("Lambda", Behind(<<context>>, All(toks, <<":", "Expression">>, second.p)))
         [] OTHER -> Wrap("Lambda", Behind(<<param>>, body))

(* parse_set_parameter_or_literal: read as the attributes of a parameter,   *)
(* and again as bindings if one is followed by `=` or `.`.                  *)
SetOrLambda(toks, p) ==
    LET param   == Params(toks, p)
        literal == Parse(toks, "Operation", p)
    IN CASE At(toks, p + 1) = "}" -> IF At(toks, p + 2) \in {":", "@"}
                                     THEN Abstraction(toks, The(param), param.p) ELSE literal
         [] At(toks, p + 1) \in Identifiers \cup {"..."} /\ param.kind # "binders" ->
              IF param.kind = "ok" THEN Abstraction(toks, The(param), param.p) ELSE param
         [] OTHER -> literal

-----------------------------------------------------------------------------
(* parse_postfix_selection, with the selectors read so far: a dot without a *)
(* selector is left where it is.                                            *)
Select(toks, base, r) ==
    LET path == Node("Path", r.trees)
        default == All(toks, <<"or", "Term">>, r.p)
    IN CASE At(toks, r.p) = "." /\ IsSelectorStart(At(toks, r.p + 1)) ->
              LET more == All(toks, <<".", "Selector">>, r.p)
              IN  IF more.kind = "ok" THEN Select(toks, base, Behind(r.trees, more)) ELSE more
         [] r.trees = <<>> -> Got(<<base>>, r.p)
         [] OTHER ->
              IF At(toks, r.p) # "or" THEN Got(<<Node("Selection", <<base, path>>)>>, r.p)
              ELSE IF IsTermStart(At(toks, r.p + 1)) THEN Wrap("OrDefault", Behind(<<base, path>>, default))
              ELSE Error(r.p + 1)

(* parse_presence_checks *)
Checked(toks, r) ==
    IF r.kind = "ok" /\ At(toks, r.p) = "?"
    THEN Checked(toks, Behind(r.trees, All(toks, <<"?", "Path">>, r.p))) ELSE r

(* parse_application_tail *)
Applied(toks, r) ==
    IF r.kind = "ok" /\ IsTermStart(At(toks, r.p))
    THEN Applied(toks, Wrap("Apply", Behind(r.trees, Parse(toks, "Term", r.p))))
    ELSE IF r.kind = "ok" /\ At(toks, r.p) = "?" THEN Wrap("HasAttr", Checked(toks, r)) ELSE r

BindsTighter(next, op) ==
    /\ IsBinaryOp(next)
    /\ \/ Precedence[next] > Precedence[op]
       \/ Precedence[next] = Precedence[op] /\ op \in RightAssociative

(* The loop of parse_binary_operation that reads the right side. *)
RightSide(toks, op, r) ==
    IF r.kind = "ok" /\ BindsTighter(At(toks, r.p), op)
    THEN RightSide(toks, op, Climb(toks, [left |-> r, chained |-> 0], Precedence[At(toks, r.p)], r.p)) ELSE r

(* parse_binary_operation: `chained` is the last comparison's precedence.   *)
Climb(toks, state, min, p) ==
    LET op    == At(toks, p)
        right == RightSide(toks, op, Parse(toks, "Application", p + 1))
        compares == op \in Comparisons
    IN CASE ~(IsBinaryOp(op) /\ Precedence[op] >= min) -> state.left
         [] IsBinaryOp(op) /\ Precedence[op] >= min ->
              IF compares /\ Precedence[op] = state.chained THEN Error(p)
              ELSE IF right.kind # "ok" THEN right
              ELSE Climb(toks, [left |-> Got(<<Combined(The(state.left), LeafAt(toks, p), The(right))>>, right.p),
                                chained |-> IF compares THEN Precedence[op] ELSE 0], min, right.p)

(* parse_operation_or_lambda *)
Operation(toks, first) ==
    IF first.kind # "ok" \/ At(toks, first.p) \in {":", "@"} THEN Error(first.p)
    ELSE Climb(toks, [left |-> first, chained |-> 0], 0, first.p)

-----------------------------------------------------------------------------
(* parse_simple_selector, and the restriction on the names of `inherit`     *)
PlainName(toks, p) ==
    LET name == Parse(toks, "Selector", p) IN
    IF name.kind = "ok" /\ The(name).tag = "Interpol" /\ ~(The(name).kids[2].tok = "string"
                                                         \/ The(name).kids[2].tag = "Interpolated")
    THEN Error(p) ELSE name

(* The prefix operators of parse_application *)
Prefixed(toks, p) == Wrap("Prefix", All(toks, <<toks[p], "Application">>, p))

Rule(toks, tag, symbols, p) == Wrap(tag, All(toks, symbols, p))

(* parse_abstraction_or_operation *)
Expression(toks, p) ==
    LET tok == At(toks, p) IN
    CASE tok = "let" /\ At(toks, p + 1) # "{" -> Rule(toks, "Let", <<"let", "Binders", "in", "Expression">>, p)
      [] tok = "if"     -> Rule(toks, "If", <<"if", "Expression", "then", "Expression", "else", "Expression">>, p)
      [] tok = "with"   -> Rule(toks, "With", <<"with", "Expression", ";", "Expression">>, p)
      [] tok = "assert" -> Rule(toks, "Assert", <<"assert", "Expression", ";", "Expression">>, p)
      [] tok = "{"      -> SetOrLambda(toks, p)
      [] tok \in Names /\ At(toks, p + 1) \in {":", "@"} -> Abstraction(toks, LeafAt(toks, p), p + 1)
      [] OTHER          -> Parse(toks, "Operation", p)

(* parse_base_term: no selection *)
BaseTerm(toks, p) ==
    LET tok == At(toks, p) IN
    CASE tok \in Identifiers \cup Simple \cup Strings -> Got(<<LeafAt(toks, p)>>, p + 1)
      [] tok \in Opens          -> Rule(toks, "Interpolated", <<tok, "Expression", "}\"">>, p)
      [] tok = "{"              -> Rule(toks, "Set", <<"{", "Binders", "}">>, p)
      [] tok \in {"rec", "let"} -> Rule(toks, "RecSet", <<tok, "{", "Binders", "}">>, p)
      [] tok = "["              -> Rule(toks, "List", <<"[", "Items", "]">>, p)
      [] tok = "("              -> Rule(toks, "Paren", <<"(", "Expression", ")">>, p)
      [] OTHER                  -> Error(p)

(* parse_selector *)
Selector(toks, p) ==
    LET tok == At(toks, p) IN
    CASE tok = "${"     -> Rule(toks, "Interpol", <<"${", "Expression", "}">>, p)
      [] tok = "string" -> Got(<<LeafAt(toks, p)>>, p + 1)
      [] tok \in Opens  -> BaseTerm(toks, p)
      [] OTHER          -> Parse(toks, "Name", p)

(* The names of parse_inherit *)
InheritedNames(toks, p) ==
    LET name == PlainName(toks, p) IN
    CASE ~IsSelectorStart(At(toks, p)) -> Got(<<>>, p)
      [] IsSelectorStart(At(toks, p)) /\ name.kind # "ok" -> name
      [] OTHER -> Behind(name.trees, Parse(toks, "Names", name.p))

(* One function of the parser, or one expected token, at the token p. *)
Parse(toks, symbol, p) ==
    LET tok   == At(toks, p)
        many(ends, symbols) == IF tok \in ends THEN Got(<<>>, p) ELSE All(toks, symbols, p)
        term  == BaseTerm(toks, p)
    IN CASE symbol = "Expression"  -> Expression(toks, p)
         [] symbol = "Operation"   -> Operation(toks, Parse(toks, "Application", p))
         [] symbol = "Application" ->
              IF tok \in {"-", "!"} THEN Prefixed(toks, p) ELSE Applied(toks, Parse(toks, "Term", p))
         [] symbol = "Term"     -> IF term.kind = "ok" THEN Select(toks, The(term), Got(<<>>, term.p)) ELSE term
         [] symbol = "Items"    -> many({"]", "eof"}, <<"Term", "Items">>)
         [] symbol = "Binders"  -> many({"in", "}", "eof"}, <<"Binder", "Binders">>)
         [] symbol = "Binder"   -> IF tok = "inherit"
                                   THEN Rule(toks, "Inherit", <<"inherit", "From", "Names", ";">>, p)
                                   ELSE Rule(toks, "Assignment", <<"Path", "=", "Expression", ";">>, p)
         [] symbol = "From"     -> IF tok = "(" THEN BaseTerm(toks, p) ELSE Got(<<>>, p)
         [] symbol = "Names"    -> InheritedNames(toks, p)
         [] symbol = "Name"     -> IF tok \in Identifiers THEN Got(<<LeafAt(toks, p)>>, p + 1) ELSE Error(p)
         [] symbol = "Selector" -> Selector(toks, p)
         [] symbol = "Path"     -> Rule(toks, "Path", <<"Selector", "Dotted">>, p)
         [] symbol = "Dotted"   -> IF tok = "." THEN All(toks, <<".", "Selector", "Dotted">>, p) ELSE Got(<<>>, p)
         [] OTHER -> IF tok = symbol THEN Got(<<LeafAt(toks, p)>>, p + 1) ELSE Error(p)

(* parse_file *)
ParseFile(toks) ==
    LET r == Parse(toks, "Expression", 1) IN IF r.kind = "ok" /\ At(toks, r.p) # "eof" THEN Error(r.p) ELSE r
=============================================================================

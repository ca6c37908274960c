------------------------------ MODULE Syntax ------------------------------
(***************************************************************************)
(* The syntax tree (src/ast) and the questions the formatting rules ask of *)
(* it.  A node is [tag, tok, k, kids]; the kids of a node are in reading   *)
(* order, its keywords and delimiters among them.  A leaf has a token tok  *)
(* and its number k in reading order.                                      *)
(*                                                                         *)
(* What the lexer adds to the tree is a function `a` from these numbers:   *)
(* the Annotated of the leaf [pre, trail, line], the trivia that was       *)
(* hoisted into an Item::Comments in front of it (`above`), and whether    *)
(* the token is there at all, which the comma behind the last attribute of *)
(* a parameter may not be.                                                 *)
(***************************************************************************)
EXTENDS Integers, SequencesExt

T == INSTANCE TriviaSplit

Leaf(tok)       == [tag |-> "leaf", tok |-> tok, k |-> 0, kids |-> <<>>]
Node(tag, kids) == [tag |-> tag, tok |-> "", k |-> 0, kids |-> kids]

IsLeaf(t)        == t.tag = "leaf"
IsToken(t, toks) == IsLeaf(t) /\ t.tok \in toks

Keywords == {"assert", "else", "if", "in", "inherit", "let", "or", "rec", "then", "with"}
Names    == {"a", "b", "name"}
Simple   == Names \cup {"1"}
Strings  == {"string", "lines"}

(* The binary operators, how tightly they bind and to which side           *)
(* (src/parser/operators.rs).                                              *)
Precedence == ("++" :> 14) @@ ("*" :> 13) @@ ("/" :> 13) @@ ("+" :> 12) @@ ("-" :> 12)
    @@ ("//" :> 10) @@ ("<" :> 9) @@ (">" :> 9) @@ ("<=" :> 9) @@ (">=" :> 9)
    @@ ("==" :> 8) @@ ("!=" :> 8) @@ ("&&" :> 7) @@ ("||" :> 6) @@ ("->" :> 5)
    @@ ("|>" :> 4) @@ ("<|" :> 3)

BinaryOps == DOMAIN Precedence
RightAssociative == {"++", "//", "<|"}
Comparisons == {"==", "!=", "<", ">", "<=", ">="}

(* Columns of a token.  "lines" is an indented string of two lines; an     *)
(* interpolated string opens with its quote and `${`, after a letter in    *)
(* "mid${".                                                                *)
TokenWidth ==
    [tok \in {"a", "b", "1", "{", "}", "[", "]", "(", ")", ":", ";", ",", "?", "@", "=", ".",
              "+", "-", "/", "<", "!"} |-> 1]
    @@ [tok \in {"if", "in", "or", "++", "//", "==", "|>"} |-> 2]
    @@ [tok \in {"let", "rec", "...", "string"} |-> 3]
    @@ [tok \in {"else", "then", "with", "name"} |-> 4]
    @@ ("lines" :> 5 @@ "assert" :> 6 @@ "inherit" :> 7 @@ "\"${" :> 3 @@ "mid${" :> 4
        @@ "}\"" :> 2 @@ "eof" :> 0)

(* What a comment begins with, and ends with if it is a block. *)
Hash  == 99    \* `#`
Block == 98    \* `/*` and `*/`

(* A sequence by its values, for TLC to evaluate each of them once. *)
Values(s) == s \o <<>>

RECURSIVE TokensOf(_)
(* The leaves of a tree in reading order. *)
TokensOf(t) == IF IsLeaf(t) THEN <<t>> ELSE FlattenSeq(Values([i \in DOMAIN t.kids |-> TokensOf(t.kids[i])]))

RECURSIVE Numbered(_, _)
(* The tree with its leaves numbered from n + 1 on. *)
Numbered(t, n) ==
    IF IsLeaf(t) THEN [t EXCEPT !.k = n + 1]
    ELSE LET before(i) == FoldLeft(LAMBDA acc, c : acc + Len(TokensOf(c)), n, SubSeq(t.kids, 1, i - 1))
         IN [t EXCEPT !.kids = Values([i \in DOMAIN t.kids |-> Numbered(t.kids[i], before(i))])]

RECURSIVE Subtrees(_)
(* The nodes of a tree, and those of one kind. *)
Subtrees(t)   == <<t>> \o FlattenSeq(Values([i \in DOMAIN t.kids |-> Subtrees(t.kids[i])]))
Those(tree, Kind(_)) == ToSet(SelectSeq(Subtrees(tree), Kind))

RECURSIVE FirstSlot(_)
(* `first_token`: the number of the leftmost leaf. *)
FirstSlot(t) == IF IsLeaf(t) THEN t.k ELSE FirstSlot(t.kids[1])

RECURSIVE LastSlot(_)
(* The leaf whose trailing comment ends the expression; that of a string is *)
(* kept with its opening quote.                                             *)
LastSlot(t) ==
    CASE IsLeaf(t) -> t.k
      [] t.tag = "Interpolated" -> t.kids[1].k
      [] OTHER -> LastSlot(Last(t.kids))

-----------------------------------------------------------------------------
(* Containers.                                                             *)

Containers == {"List", "Set", "RecSet"}
OpenOf(t)  == IF t.tag = "RecSet" THEN t.kids[2] ELSE t.kids[1]
CloseOf(t) == Last(t.kids)
Inner(t)   == SubSeq(t.kids, 2, Len(t.kids) - 1)
ItemsOf(t) == IF t.tag = "RecSet" THEN Tail(Inner(t)) ELSE Inner(t)

(* The items of a container or the bindings of a let, and the leaf that     *)
(* ends them.                                                               *)
HasItems(t)   == t.tag \in Containers \cup {"Let"}
Binders(t)    == SubSeq(t.kids, 2, Len(t.kids) - 2)
ItemList(t)   == IF t.tag = "Let" THEN Binders(t) ELSE ItemsOf(t)
ItemsEnd(t)   == IF t.tag = "Let" THEN t.kids[Len(t.kids) - 1] ELSE CloseOf(t)

(* The leaves whose leading trivia becomes an item of its own. *)
Hoisted(tree) ==
    UNION {{ItemsEnd(t).k} \cup {FirstSlot(item) : item \in ToSet(ItemList(t))} :
             t \in Those(tree, HasItems)}

-----------------------------------------------------------------------------
(* Annotated.                                                              *)

NoTrivia == [pre |-> <<>>, trail |-> <<>>, line |-> 0, above |-> <<>>, there |-> TRUE]

HasTrivia(a, leaf) == a[leaf.k].pre # <<>> \/ a[leaf.k].trail # <<>>

(* A trailing comment as a piece of leading trivia. *)
AsPieces(trail) == IF trail = <<>> THEN <<>> ELSE <<T!LineComment(trail, 0)>>

(* Mutant of MoveUp: the moved comment goes in front of the others. *)
MoveUpFirst(a, leaf) ==
    [a EXCEPT ![leaf.k] = [@ EXCEPT !.pre = AsPieces(a[leaf.k].trail) \o @, !.trail = <<>>]]

(* move_trailing_comment_up *)
MoveUp(a, leaf) ==
    [a EXCEPT ![leaf.k] = [@ EXCEPT !.pre = @ \o AsPieces(a[leaf.k].trail), !.trail = <<>>]]

IsLangAnnot(p) == p.tag = "LanguageAnnotation"
OnlyAnnots(pieces) == \A i \in DOMAIN pieces : IsLangAnnot(pieces[i])

(* The annotations a list of pieces starts with. *)
AnnotPrefix(pieces) ==
    SubSeq(pieces, 1, CHOOSE n \in 0..Len(pieces) :
                        /\ OnlyAnnots(SubSeq(pieces, 1, n))
                        /\ n < Len(pieces) => ~IsLangAnnot(pieces[n + 1]))

(* `items.0`: the items and the comments between them. *)
CountItems(a, t) ==
    LET items == ItemList(t)
        above == {i \in DOMAIN items : a[FirstSlot(items[i])].above # <<>>}
    IN Len(items) + Cardinality(above) + (IF a[ItemsEnd(t).k].above # <<>> THEN 1 ELSE 0)

SameLine(a, l, r) == a[l.k].line = a[r.k].line

-----------------------------------------------------------------------------
(* The classes of expressions (ast/expr.rs, format/absorb.rs).             *)

IsTerm(t) == t.tag \in Containers \cup {"leaf", "Interpolated", "Selection", "OrDefault", "Paren"}

SelectorsOf(path) == SelectSeq(path.kids, LAMBDA s : s.tok # ".")
OnlyIds(path)     == \A i \in DOMAIN path.kids : path.kids[i].tok \in {"."} \cup Names

RECURSIVE IsSimple(_, _)
IsSimple(a, t) ==
    CASE IsLeaf(t)              -> t.tok \in Simple \cup Strings /\ ~HasTrivia(a, t)
      [] t.tag = "Interpolated" -> ~HasTrivia(a, t.kids[1])
      [] t.tag = "Selection"    -> IsSimple(a, t.kids[1]) /\ OnlyIds(t.kids[2])
      [] t.tag = "Paren"        -> /\ ~HasTrivia(a, t.kids[1]) /\ ~HasTrivia(a, t.kids[3])
                                   /\ IsSimple(a, t.kids[2])
      [] t.tag = "Apply"        ->
            LET f == t.kids[1] IN    \* no more than two arguments
            /\ ~(f.tag = "Apply" /\ f.kids[1].tag = "Apply")
            /\ IsSimple(a, f) /\ IsSimple(a, t.kids[2])
      [] OTHER -> FALSE

RECURSIVE IsAbsorbableTerm(_, _)
IsAbsorbableTerm(a, t) ==
    \/ IsToken(t, {"lines"})
    \/ /\ t.tag \in Containers
       /\ \/ CountItems(a, t) > 0 \/ HasTrivia(a, OpenOf(t))
          \/ ~SameLine(a, OpenOf(t), CloseOf(t))
    \/ /\ t.tag = "Paren"
       /\ ~HasTrivia(a, t.kids[1]) /\ IsTerm(t.kids[2])
       /\ OnlyAnnots(a[FirstSlot(t.kids[2])].pre) /\ IsAbsorbableTerm(a, t.kids[2])

(* Attributes of a parameter: leaves for the ellipsis, <<name, comma>>, or  *)
(* <<name, "?", default, comma>>.                                           *)
AttrsOf(param)   == Inner(param)
CommaOf(attr)    == Last(attr.kids)
AttrTrivia(a, attr) ==
    IF IsLeaf(attr) THEN HasTrivia(a, attr)
    ELSE HasTrivia(a, attr.kids[1]) \/ HasTrivia(a, CommaOf(attr))

(* The commas that may be missing: those behind a last attribute. *)
EndsWithComma(t) == t.tag = "Params" /\ AttrsOf(t) # <<>> /\ ~IsLeaf(Last(AttrsOf(t)))
OptionalCommas(tree) == {CommaOf(Last(AttrsOf(t))).k : t \in Those(tree, EndsWithComma)}

(* can_flatten_attrs *)
IsFlatSet(a, param) ==
    LET attrs == AttrsOf(param)
        plain == SelectSeq(attrs, LAMBDA x : ~IsLeaf(x))
    IN /\ param.tag = "Params"
       /\ SameLine(a, param.kids[1], CloseOf(param)) /\ ~HasTrivia(a, CloseOf(param))
       /\ \A i \in DOMAIN attrs : ~AttrTrivia(a, attrs[i])
       /\ Len(plain) <= 2 /\ \A i \in DOMAIN plain : plain[i].tag = "Attr"

(* starts_on_line_of *)
StartsOnLineOf(a, t, tok) == a[FirstSlot(t)].line = a[tok.k].line

RECURSIVE IsAbsorbable(_, _)
IsAbsorbable(a, t) ==
    \/ IsTerm(t) /\ IsAbsorbableTerm(a, t)
    \/ t.tag = "With" /\ IsTerm(t.kids[4]) /\ IsAbsorbableTerm(a, t.kids[4])
    \/ /\ t.tag = "Lambda" /\ IsLeaf(t.kids[1])
       /\ IsTerm(t.kids[3]) \/ t.kids[3].tag = "Lambda"
       /\ IsAbsorbable(a, t.kids[3])
    \/ /\ t.tag = "Lambda" /\ IsFlatSet(a, t.kids[1]) /\ ~HasTrivia(a, t.kids[1].kids[1])
       /\ StartsOnLineOf(a, t.kids[3], t.kids[2]) /\ IsAbsorbable(a, t.kids[3])

Operators    == {"+", "-", "/", "<", "++", "//", "==", "|>"}
Comparing    == {"<", "=="}
Concatenating == {"//", "++", "+"}    \* is_update_concat_plus
=============================================================================

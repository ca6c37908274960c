---------------------------- MODULE TriviaSplit ----------------------------
(***************************************************************************)
(* What the lexer makes of the trivia between two tokens                   *)
(* (src/lexer/trivia.rs): the split into a trailing comment of the token   *)
(* in front and leading trivia of the next one, and of the lines of a      *)
(* block comment (src/lexer/comments.rs), which src/format/base.rs prints. *)
(*                                                                         *)
(* A comment's text is a sequence of words, each word a number of its own, *)
(* and 0 is a star; the space between them is left out.  Items of the      *)
(* source, raw trivia and pieces are records, see Item.                    *)
(***************************************************************************)
EXTENDS Naturals, SequencesExt

-----------------------------------------------------------------------------
(* The lines of a block comment: `parse_block_comment` normalises them.     *)
(* A line is `indent` spaces, perhaps a star with `gap` spaces behind it,   *)
(* and a text, a sequence of words.  The first line of a body is the one    *)
(* behind the opening delimiter.                                            *)

Line(indent, star, gap, text) == [indent |-> indent, star |-> star, gap |-> gap, text |-> text]
Spaces(n) == Line(n, FALSE, 0, <<>>)
NoLine == Spaces(0)

(* `line.trim().is_empty()` *)
IsBlank(l) == ~l.star /\ l.text = <<>>

TrimEnd(l) == IF IsBlank(l) THEN NoLine ELSE IF l.text = <<>> THEN [l EXCEPT !.gap = 0] ELSE l
TrimStart(l) == IF IsBlank(l) THEN NoLine ELSE [l EXCEPT !.indent = 0]

DropEmptyEnd(lines) ==
    LET k == CHOOSE k \in 0..Len(lines) :
                /\ k > 0 => ~IsBlank(lines[k])
                /\ \A i \in k+1..Len(lines) : IsBlank(lines[i])
    IN SubSeq(lines, 1, k)

DropEmptyStart(lines) == Reverse(DropEmptyEnd(Reverse(lines)))

SplitLines(body) == DropEmptyEnd([i \in DOMAIN body |-> TrimEnd(body[i])])

(* `line.starts_with(&star_prefix)` *)
HasStar(l, pos) == l.star /\ l.indent = pos + 1

(* What is left of the line when the prefix is replaced by pos spaces.      *)
WithoutStar(l, pos) == Line(pos + l.gap, FALSE, 0, l.text)

RemoveStars(pos, lines) ==
    IF Len(lines) > 1 /\ \A i \in 2..Len(lines) : HasStar(lines[i], pos)
    THEN [i \in DOMAIN lines |-> IF i = 1 THEN lines[1] ELSE WithoutStar(lines[i], pos)]
    ELSE lines

Least(S, default) == IF S = {} THEN default ELSE CHOOSE x \in S : \A y \in S : x <= y

StripIndentation(n, l) == IF l.indent >= n THEN [l EXCEPT !.indent = @ - n] ELSE TrimStart(l)

(* Where the text of the first line begins. *)
Offset(pos, first) == IF first.indent > 0 THEN pos + 3 ELSE pos + 2

(* Mutant of FixIndent: every line is moved by the offset of the first one. *)
FixIndentToFirst(pos, lines) ==
    [i \in DOMAIN lines |-> IF i = 1 THEN TrimStart(lines[1])
                            ELSE StripIndentation(Offset(pos, lines[1]), lines[i])]

FixIndent(pos, lines) ==
    IF lines = <<>> THEN <<>> ELSE
    LET rest   == {lines[i].indent : i \in {j \in 2..Len(lines) : ~IsBlank(lines[j])}}
        common == Least({Least(rest, 0), Offset(pos, lines[1])}, 0)
    IN [i \in DOMAIN lines |->
          IF i = 1 THEN TrimStart(lines[1]) ELSE StripIndentation(common, lines[i])]

(* The lines of `RawTrivia::BlockComment`. *)
Normalised(pos, body) ==
    DropEmptyEnd(DropEmptyStart(FixIndent(pos, RemoveStars(pos, SplitLines(body)))))

(* impl Emit for TriviaPiece: every line on its own, two columns in; empty  *)
(* lines in a row are one.  The delimiters have lines of their own.         *)
Printed(column, lines) ==
    LET doubled(i) == IsBlank(lines[i]) /\ i > 1 /\ IsBlank(lines[i - 1])
        line(i) == IF lines[i] = NoLine THEN NoLine ELSE [lines[i] EXCEPT !.indent = @ + column + 2]
    IN <<NoLine>> \o FlattenSeq([i \in DOMAIN lines |-> IF doubled(i) THEN <<>> ELSE <<line(i)>>])
                  \o <<Spaces(column)>>

-----------------------------------------------------------------------------

(* `RawTrivia` and `TriviaPiece`.  A block comment has `lines`, in the       *)
(* source those of its body and later the normalised ones.                  *)
Item(tag, text, doc, lines, n, col) ==
    [tag |-> tag, text |-> text, doc |-> doc, lines |-> lines, n |-> n, col |-> col]

NewlineRun(n)         == Item("Newlines", <<>>, FALSE, <<>>, n, 0)
LineComment(text, col) == Item("LineComment", text, FALSE, <<>>, 0, col)
BlockComment(doc, lines, col) == Item("BlockComment", <<>>, doc, lines, 0, col)
LanguageAnnotation(text) == Item("LanguageAnnotation", text, FALSE, <<>>, 0, 0)
Directive             == Item("Directive", <<>>, FALSE, <<>>, 0, 0)
EmptyLine             == Item("EmptyLine", <<>>, FALSE, <<>>, 0, 0)

-----------------------------------------------------------------------------
(* The lexer and its split.                                                *)

(* The item of the source as raw trivia. *)
Raw(item) ==
    IF item.tag = "BlockComment" THEN BlockComment(item.doc, Normalised(item.col, item.lines), 0) ELSE item

RawTrivia(items) == [i \in DOMAIN items |-> Raw(items[i])]

IsTrailing(pt) ==
    \/ pt.tag = "LineComment"
    \/ pt.tag = "BlockComment" /\ ~pt.doc /\ Len(pt.lines) <= 1

(* The text of a line, trimmed. *)
LineText(l) == (IF l.star THEN <<0>> ELSE <<>>) \o l.text

OneLiner(pt) == pt.tag = "BlockComment" /\ ~pt.doc /\ Len(pt.lines) = 1

(* `TrailingComment`, as its text; <<>> is none.                            *)
ConvertTrailing(pts) ==
    FlattenSeq([i \in DOMAIN pts |-> IF OneLiner(pts[i]) THEN LineText(pts[i].lines[1]) ELSE pts[i].text])

(* The piece of one item that is not a run of newlines.                     *)
Converted(pt) ==
    CASE pt.tag = "BlockComment" /\ pt.lines = <<>> -> <<>>
      [] OneLiner(pt)           -> <<LineComment(LineText(pt.lines[1]), 0)>>
      [] pt.tag = "LineComment" -> <<LineComment(pt.text, 0)>>
      [] OTHER                  -> <<pt>>

(* "Runs of newlines collapse into at most one EmptyLine". *)
BlankLine(n) == IF n > 1 THEN <<EmptyLine>> ELSE <<>>

ConvertStep(acc, pt) ==
    IF pt.tag = "Newlines" THEN [acc EXCEPT !.newlines = @ + pt.n]
    ELSE [newlines |-> 0, result |-> acc.result \o BlankLine(acc.newlines) \o Converted(pt)]

ConvertLeading(pts) ==
    LET last == FoldLeft(ConvertStep, [newlines |-> 0, result |-> <<>>], pts)
    IN last.result \o BlankLine(last.newlines)

(* The number of items in front of the first one that is not trailing. *)
SplitPos(pts) ==
    CHOOSE k \in 0..Len(pts) :
        /\ \A i \in 1..k : IsTrailing(pts[i])
        /\ k < Len(pts) => ~IsTrailing(pts[k + 1])

(* "if trailing comment visually forms a block with following line": one    *)
(* comment, and at its column the next line has a comment (case 1) or the   *)
(* next token (case 2).                                                     *)
FormsBlock(trailing, leading, prevMultiline, nextCol) ==
    /\ Len(trailing) = 1 /\ trailing[1].tag = "LineComment"
    /\ Len(leading) > 0 /\ leading[1] = NewlineRun(1)
    /\ \/ Len(leading) > 1 /\ leading[2].tag = "LineComment" /\ leading[2].col = trailing[1].col
       \/ Len(leading) = 1 /\ ~prevMultiline /\ trailing[1].col = nextCol

Result(trailing, leading) == [trailing |-> trailing, leading |-> leading]

ConvertTrivia(pts, prevMultiline, nextCol) ==
    LET k        == SplitPos(pts)
        trailing == SubSeq(pts, 1, k)
        leading  == SubSeq(pts, k + 1, Len(pts))
    IN IF FormsBlock(trailing, leading, prevMultiline, nextCol)
       THEN Result(<<>>, ConvertLeading(pts))
       ELSE Result(ConvertTrailing(trailing), ConvertLeading(leading))

(* `fast_ws_trivia` in `lexeme`: nothing but white space. *)
OnlySpace(pts) == \A i \in DOMAIN pts : pts[i].tag = "Newlines"

(* Mutant of FastTrivia: a blank line with spaces in it is none. *)
FastTriviaPerRun(pts) == Result(<<>>, IF Len(pts) = 1 THEN BlankLine(pts[1].n) ELSE <<>>)

FastTrivia(pts) == Result(<<>>, BlankLine(FoldLeft(LAMBDA n, pt : n + pt.n, 0, pts)))

Lexeme(pts, prevMultiline, nextCol) ==
    IF OnlySpace(pts) THEN FastTrivia(pts) ELSE ConvertTrivia(pts, prevMultiline, nextCol)
=============================================================================

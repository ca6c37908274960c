------------------------------- MODULE Trivia -------------------------------
(***************************************************************************)
(* What lies between two tokens, read, printed and read again: its lexing  *)
(* (src/lexer/comments.rs), the split into a trailing comment and leading  *)
(* trivia (src/lexer/trivia.rs), its emission (src/format/base.rs) and the *)
(* columns the layout gives it (src/doc/render/layout.rs), which the next  *)
(* reading looks at.                                                       *)
(***************************************************************************)
EXTENDS Spacing, TriviaSplit

CONSTANTS IndentWidth,  \* `Options::indent`
          Sources,      \* sets of what is formatted: [items, layouts], each item
                        \* list in each layout [end, indent, deeper, gap, next]
          MaxPasses     \* bound on the times it is read or printed

(* The items a source has: a block comment has lines, a line comment and an  *)
(* annotation a text, a run of newlines a number of them.                   *)
Texts == Seq(Nat)
CommentLines == [indent : Nat, star : BOOLEAN, gap : Nat, text : Texts]
Items(tags) == [tag : tags, text : Texts, doc : BOOLEAN, lines : Seq(CommentLines), n : Nat, col : Nat]
SourceTags == {"Newlines", "LineComment", "BlockComment", "LanguageAnnotation", "Directive"}

Formed(item) ==
    /\ item.tag # "BlockComment" => item.lines = <<>>
    /\ item.tag \notin {"LineComment", "LanguageAnnotation"} => item.text = <<>>

Ends == [kind : {"token", "string", "indented"}, width : Nat]

ASSUME TriviaAssumption == IndentWidth \in Nat /\ MaxPasses \in Nat

ASSUME SourcesAssumption == \A s \in Sources :
    /\ \A pts \in s.items : pts \in Seq(Items(SourceTags)) /\ \A i \in DOMAIN pts : Formed(pts[i])
    /\ \A l \in s.layouts : /\ l.end \in Ends /\ l.indent \in Nat /\ l.deeper \in BOOLEAN
                            /\ l.gap \in {Hardspace, Hardline} /\ l.next \in Nat

-----------------------------------------------------------------------------
(* Printing: a sequence of items and spacings, then the spacings merged.   *)

Gap(s) == [tag |-> "Spacing", s |-> s]

(* Mutant of EmitTrailing: the line goes on. *)
EmitTrailingOpen(text) ==
    IF text = <<>> THEN <<>> ELSE <<Gap(Hardspace), LineComment(text, 0)>>

(* impl Emit for TrailingComment *)
EmitTrailing(text) ==
    IF text = <<>> THEN <<>> ELSE <<Gap(Hardspace), LineComment(text, 0), Gap(Hardline)>>

(* impl Emit for TriviaPiece *)
EmitPiece(p) ==
    CASE p = EmptyLine                  -> <<Gap(Emptyline)>>
      [] p.tag = "LanguageAnnotation"   -> <<p, Gap(Hardspace)>>
      [] OTHER                          -> <<p, Gap(Hardline)>>

(* impl Emit for Trivia: a lone annotation stays on the line. *)
EmitLeading(pieces) ==
    IF pieces = <<>> THEN <<>>
    ELSE IF Len(pieces) = 1 /\ pieces[1].tag = "LanguageAnnotation" THEN EmitPiece(pieces[1])
    ELSE <<Gap(Hardline)>> \o FlattenSeq([i \in DOMAIN pieces |-> EmitPiece(pieces[i])])

(* Spacings that meet are merged, as fixup does. *)
MergeStep(acc, e) ==
    IF e.tag = "Spacing" /\ acc # <<>> /\ Last(acc).tag = "Spacing"
    THEN Append(Front(acc), Gap(Merge(Last(acc).s, e.s))) ELSE Append(acc, e)

Merged(elems) == FoldLeft(MergeStep, <<>>, elems)

VARIABLES source,  \* what was given
          raw,     \* the text between the two tokens, as items
          end,     \* how the token in front ends
          indent,  \* indentation of the line it ends on
          deeper,  \* the nest of the next token is deeper
          gap,     \* the spacing that is emitted in front of the next token
          next,    \* column of the next token
          pass,    \* number of times the text was read
          result,  \* what the lexer made of it
          printed  \* the text when it was first printed, in a sequence

layout == <<source, end, indent, deeper, gap>>
vars == <<raw, layout, next, pass, result, printed>>

PrevMultiline == end.kind # "token"

(* Mutant of Shift: no shift. *)
ShiftNever(col) == 0

(* `goOne` special case: one column more for a comment behind one character.*)
Shift(col) == IF col = 2 /\ deeper /\ end.kind # "string" THEN 1 ELSE 0

(* The column of a comment behind the token.  The last line of a simple     *)
(* string begins at column 0 whatever the indentation.                      *)
CommentColumn ==
    IF end.kind = "string" THEN end.width + 1
    ELSE indent + end.width + 1 + Shift(end.width + 1)

(* A line with a deeper nest is indented once more, however much deeper.    *)
NextColumn == IF deeper THEN indent + IndentWidth ELSE indent

(* The text of a merged sequence as the lexer reads it.  Comments on lines  *)
(* of their own are at the column of the next token.                        *)
Relexed(elems) ==
    LET item(i) ==
            IF elems[i].tag = "Spacing"
            THEN IF LineFeeds(elems[i].s) = 0 THEN <<>> ELSE <<NewlineRun(LineFeeds(elems[i].s))>>
            ELSE LET col == IF i > 1 /\ elems[i - 1].tag = "Spacing" /\ LineFeeds(elems[i - 1].s) > 0
                            THEN NextColumn ELSE CommentColumn
                 IN  CASE elems[i].tag = "LineComment"  -> <<LineComment(elems[i].text, col)>>
                       [] elems[i].tag = "BlockComment" ->
                             <<BlockComment(elems[i].doc, Printed(col, elems[i].lines), col)>>
                       [] OTHER -> <<elems[i]>>
    IN FlattenSeq([i \in DOMAIN elems |-> item(i)])

-----------------------------------------------------------------------------
(* Trivia that a source can have: a comment ends its line, an annotation is *)
(* in front of a string, at most one line above it, and a directive has a   *)
(* line of its own.                                                         *)
Sourced(pts) == \A i \in DOMAIN pts :
    /\ pts[i].tag \in {"LineComment", "Directive"} => i < Len(pts) /\ pts[i + 1].tag = "Newlines"
    /\ pts[i].tag = "Directive" => i > 1 /\ pts[i - 1].tag = "Newlines"
    /\ pts[i].tag = "LanguageAnnotation" => SubSeq(pts, i + 1, Len(pts)) \in {<<>>, <<NewlineRun(1)>>}

Init == \E s \in Sources : \E l \in s.layouts :
    /\ source \in s.items /\ Sourced(source) /\ raw = source
    /\ end = l.end /\ indent = l.indent /\ deeper = l.deeper /\ gap = l.gap /\ next = l.next
    /\ pass = 0 /\ result = Result(<<>>, <<>>) /\ printed = <<>>

(* The lexer reads what is between the tokens. *)
Read ==
    /\ pass < MaxPasses /\ pass % 2 = 0
    /\ result' = Lexeme(RawTrivia(raw), PrevMultiline, next)
    /\ pass' = pass + 1
    /\ UNCHANGED <<raw, layout, next, printed>>

(* The formatter prints it. *)
PrintTrivia ==
    /\ pass < MaxPasses /\ pass % 2 = 1
    /\ raw' = Relexed(Merged(EmitTrailing(result.trailing) \o EmitLeading(result.leading) \o <<Gap(gap)>>))
    /\ printed' = IF printed = <<>> THEN <<raw'>> ELSE printed
    /\ next' = NextColumn
    /\ pass' = pass + 1
    /\ UNCHANGED <<layout, result>>

Next == Read \/ PrintTrivia

Spec == Init /\ [][Next]_vars

-----------------------------------------------------------------------------
(* The words of comments, and a blank line wherever there are some.         *)
BlankLines == 0
Written(text) == FlattenSeq([i \in DOMAIN text |-> IF text[i] = 0 THEN <<>> ELSE <<text[i]>>])
WordsOf(item) ==
    Written(item.text \o FlattenSeq([k \in DOMAIN item.lines |-> item.lines[k].text]))

Paragraphs(seen, feeds) ==
    IF feeds > 1 /\ (seen = <<>> \/ Last(seen) # BlankLines) THEN Append(seen, BlankLines) ELSE seen

WordStep(acc, item) ==
    CASE item.tag = "Newlines"  -> [acc EXCEPT !.feeds = @ + item.n]
      [] item.tag = "EmptyLine" -> [acc EXCEPT !.feeds = @ + 2]
      [] OTHER -> [seen |-> Paragraphs(acc.seen, acc.feeds) \o WordsOf(item), feeds |-> 0]

Words(items) ==
    LET all == FoldLeft(WordStep, [seen |-> <<>>, feeds |-> 0], items)
    IN  Paragraphs(all.seen, all.feeds)

(* No word of a comment and no blank line is lost, doubled or moved past    *)
(* another one, by normalising, by the split, by printing or by reading     *)
(* again, whichever of its two paths the lexer takes.                       *)
WordsKept == pass > 0 =>
    /\ Words(raw) = Words(source)
    /\ Written(result.trailing) \o Words(result.leading) = Words(source)

LineOf(items, w) ==
    LET i == CHOOSE i \in DOMAIN items : \E k \in DOMAIN items[i].lines : w \in ToSet(items[i].lines[k].text)
    IN  CHOOSE l \in ToSet(items[i].lines) : w \in ToSet(l.text)

Plain(lines) == {k \in 2..Len(lines) : ~IsBlank(lines[k])}
(* The lines of a block comment behind its first one keep their indentation *)
(* relative to each other, when no decorating stars were removed.           *)
RelativeIndentKept == pass > 0 => \A i \in DOMAIN source :
    LET lines == source[i].lines
        now(k) == LineOf(result.leading, lines[k].text[1]).indent
    IN  (\A k \in Plain(lines) : ~lines[k].star) =>
            \A j, k \in Plain(lines) : now(j) + lines[k].indent = now(k) + lines[j].indent

(* Printed trivia is read as it was meant: a comment does not swallow what  *)
(* follows it, an annotation stays in front of its string and a directive   *)
(* on a line of its own.                                                    *)
PrintedIsLegal == Sourced(raw)

(* Behind a string that spans lines, a comment and another one in the next  *)
(* line at its column.                                                      *)
BlockBehindString == LET p == printed[1] IN
    /\ end.kind = "string" /\ Len(p) > 2 /\ p[2] = NewlineRun(1)
    /\ {p[1].tag, p[3].tag} = {"LineComment"} /\ p[1].col = p[3].col

(* `format(format(x)) == format(x)`: the text that was printed first is     *)
(* what is printed ever after; a trailing comment stays one when it is read *)
(* again at the column the layout gave it, and so does a leading one.       *)
Idempotent == printed # <<>> /\ pass % 2 = 0 /\ ~BlockBehindString => <<raw>> = printed
=============================================================================

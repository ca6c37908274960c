----------------------------- MODULE DocBuilder -----------------------------
(***************************************************************************)
(* Building a document and normalising it.  The formatter writes the       *)
(* document through the builder methods of src/doc/builder.rs and the      *)
(* trivia emitters of src/format/base.rs: one action per call.  Groups and *)
(* nests are closures there, so they open and close in stack order.        *)
(* `Finish` is the call of `Doc::fixup` that precedes every layout.        *)
(*                                                                         *)
(* The k-th text that is written has the string <<k>>, so that every text  *)
(* can be recognised in the result.                                        *)
(***************************************************************************)
EXTENDS Fixup, FiniteSets

CONSTANTS MaxCalls,      \* bound on the number of builder calls
          UsedSpacings,  \* the spacings the formatter pushes
          UsedGroups,    \* the group kinds it opens
          UsedTrivia,    \* the trivia lists it emits: sequences of pieces
          UsedStrings    \* the indented strings: sequences of lines, TRUE for one with text

ASSUME BuilderAssumption ==
    /\ MaxCalls \in Nat
    /\ UsedSpacings \subseteq {Softbreak, Break, Hardspace, Softspace, Space, Hardline, Emptyline}
    /\ UsedGroups \subseteq GroupKinds

VARIABLES doc,     \* the elements written so far
          opens,   \* the open closures: [kind, start] of a group, [dn, doff] of a nest
          written, \* number of texts written
          calls,   \* number of builder calls made
          fixed    \* the normalised document, a sequence holding it once it exists

vars == <<doc, opens, written, calls, fixed>>

Init == doc = <<>> /\ opens = <<>> /\ written = 0 /\ calls = 0 /\ fixed = <<>>

Building == fixed = <<>> /\ calls < MaxCalls

(* Push elements of which `n` are texts. *)
Push(elems, n) ==
    /\ doc' = doc \o elems
    /\ written' = written + n

NewText(kind, k) == Text(0, 0, kind, <<written + k>>)

(* Doc::text, Doc::trailing *)
PushText(kind) ==
    /\ Building
    /\ Push(<<NewText(kind, 1)>>, 1)
    /\ calls' = calls + 1
    /\ UNCHANGED <<opens, fixed>>

(* Doc::softbreak .. Doc::emptyline *)
PushSpacing(s) ==
    /\ Building
    /\ Push(<<Sp(s)>>, 0)
    /\ calls' = calls + 1
    /\ UNCHANGED <<opens, fixed>>

(* impl Emit for TrailingComment *)
EmitTrailingComment ==
    /\ Building
    /\ Push(<<Sp(Hardspace), NewText("TrailingComment", 1), Sp(Hardline)>>, 1)
    /\ calls' = calls + 1
    /\ UNCHANGED <<opens, fixed>>

(* impl Emit for TriviaPiece, the k-th text of its list; a block comment is *)
(* its two delimiters around one line indented by two columns.              *)
Piece(p, k) ==
    CASE p = "EmptyLine"          -> <<Sp(Emptyline)>>
      [] p = "LineComment"        -> <<NewText("Comment", k), Sp(Hardline)>>
      [] p = "BlockComment"       -> <<NewText("Comment", k), Sp(Hardline), Nest(0, 2),
                                       NewText("Comment", k + 1), Sp(Hardline), Nest(0, -2),
                                       NewText("Comment", k + 2), Sp(Hardline)>>
      [] p = "LanguageAnnotation" -> <<NewText("Comment", k), Sp(Hardspace)>>
      [] p = "Directive"          -> <<NewText("Directive", k), Sp(Hardline)>>

PieceTexts(p) == CASE p = "EmptyLine" -> 0 [] p = "BlockComment" -> 3 [] OTHER -> 1

TextsBefore(trivia, i) ==
    FoldLeft(LAMBDA acc, p : acc + PieceTexts(p), 0, SubSeq(trivia, 1, i - 1))

(* impl Emit for Trivia: a lone language annotation stays on the line *)
EmitTrivia(trivia) ==
    /\ Building
    /\ trivia # <<>>
    /\ LET pieces == Flat([i \in DOMAIN trivia |-> Piece(trivia[i], TextsBefore(trivia, i) + 1)])
       IN Push(IF trivia = <<"LanguageAnnotation">> THEN pieces ELSE <<Sp(Hardline)>> \o pieces,
               TextsBefore(trivia, Len(trivia) + 1))
    /\ calls' = calls + 1
    /\ UNCHANGED <<opens, fixed>>

(* emit_indented_string: the lines between the quotes, separated by         *)
(* newline(); an empty line writes no text at all.                          *)
LineElems(lines, i) ==
    LET k == 1 + Cardinality({j \in 1..i : lines[j]})
    IN (IF i > 1 THEN <<Sp(Newlines(1))>> ELSE <<>>)
       \o (IF lines[i] THEN <<NewText("Regular", k)>> ELSE <<>>)

EmitIndentedString(lines) ==
    /\ Building
    /\ LET n    == Cardinality({j \in DOMAIN lines : lines[j]})
           body == Flat([i \in DOMAIN lines |-> LineElems(lines, i)])
       IN Push(<<Group("Regular",
                       <<NewText("Regular", 1)>>
                       \o (IF Len(lines) > 1 THEN <<Sp(Break)>> ELSE <<>>)
                       \o <<Nest(1, 0)>> \o body \o <<Nest(-1, 0)>>
                       \o <<NewText("Regular", n + 2)>>)>>, n + 2)
    /\ calls' = calls + 1
    /\ UNCHANGED <<opens, fixed>>

(* Doc::group_with: the body is split off the parent when the closure ends *)
OpenGroup(kind) ==
    /\ Building
    /\ opens' = Append(opens, [tag |-> "group", kind |-> kind, start |-> Len(doc)])
    /\ calls' = calls + 1
    /\ UNCHANGED <<doc, written, fixed>>

CloseGroup ==
    /\ fixed = <<>>
    /\ opens # <<>> /\ Last(opens).tag = "group"
    /\ LET g == Last(opens) IN
         doc' = Append(SubSeq(doc, 1, g.start),
                       Group(g.kind, SubSeq(doc, g.start + 1, Len(doc))))
    /\ opens' = Front(opens)
    /\ UNCHANGED <<written, calls, fixed>>

(* Doc::nest_pair, with the deltas of Doc::nested *)
OpenNest(dn, doff) ==
    /\ Building
    /\ Push(<<Nest(dn, doff)>>, 0)
    /\ opens' = Append(opens, [tag |-> "nest", dn |-> dn, doff |-> doff])
    /\ calls' = calls + 1
    /\ UNCHANGED fixed

CloseNest ==
    /\ fixed = <<>>
    /\ opens # <<>> /\ Last(opens).tag = "nest"
    /\ Push(<<Nest(-Last(opens).dn, -Last(opens).doff)>>, 0)
    /\ opens' = Front(opens)
    /\ UNCHANGED <<calls, fixed>>

Finish ==
    /\ fixed = <<>> /\ opens = <<>> /\ doc # <<>>
    /\ fixed' = <<FixupDoc(doc)>>
    /\ UNCHANGED <<doc, opens, written, calls>>

Next ==
    \/ \E kind \in {"Regular", "Trailing"} : PushText(kind)
    \/ \E s \in UsedSpacings : PushSpacing(s)
    \/ EmitTrailingComment
    \/ \E t \in UsedTrivia : EmitTrivia(t)
    \/ \E lines \in UsedStrings : EmitIndentedString(lines)
    \/ \E k \in UsedGroups : OpenGroup(k)
    \/ CloseGroup
    \/ OpenNest(1, 0)
    \/ CloseNest
    \/ Finish

Spec == Init /\ [][Next]_vars

-----------------------------------------------------------------------------
Fixed == fixed # <<>>
Result == fixed[1]

Neighbours(level) == {<<level[i], level[i + 1]>> : i \in 1..(Len(level) - 1)}

(* The normal form the layout engine relies on, however the builder         *)
(* interleaved groups, nests and comments.  It reads one element at a time  *)
(* and merges nothing: there are no two adjacent spacings on any level and  *)
(* no Nest marker.  The compact trial of a group measures its soft content  *)
(* only: no group body is empty, starts with a hard spacing or a comment,   *)
(* or ends with a hard spacing.                                             *)
NormalForm ==
    Fixed =>
        /\ \A level \in Levels(Result) :
             /\ \A p \in Neighbours(level) : ~(IsSpacing(p[1]) /\ IsSpacing(p[2]))
             /\ \A i \in DOMAIN level : ~IsNest(level[i])
        /\ \A body \in GroupBodies(Result) :
             /\ body # <<>>
             /\ ~HardSpacingElem(Head(body)) /\ ~IsComment(Head(body))
             /\ ~HardSpacingElem(Last(body))

(* The letters of the texts in reading order, with the kind of their text.  *)
Letters(d) ==
    LET texts == SelectSeq(Leaves(d), IsText) IN
    Flat([i \in DOMAIN texts |->
            [j \in DOMAIN texts[i].txt |-> <<texts[i].txt[j], texts[i].kind>>]])

(* The separations of the texts in `leaves`: for each text the last letter  *)
(* before it, its first letter, and the spacing written in between, merged  *)
(* in reading order as the measuring functions of fits.rs do ({} if none).  *)
RECURSIVE Separations(_, _, _)
Separations(leaves, seen, sep) ==
    CASE leaves = <<>> -> {}
      [] leaves # <<>> /\ IsSpacing(Head(leaves)) ->
           Separations(Tail(leaves), seen,
                       IF sep = {} THEN {Head(leaves).sp}
                       ELSE {Merge(s, Head(leaves).sp) : s \in sep})
      [] leaves # <<>> /\ IsNest(Head(leaves)) -> Separations(Tail(leaves), seen, sep)
      [] leaves # <<>> /\ IsText(Head(leaves)) ->
           {<<seen, Head(leaves).txt[1], sep>>} \cup
           Separations(Tail(leaves), Last(Head(leaves).txt), {})

(* Lifting, dissolving, concatenating and merging in another order never    *)
(* lose, duplicate, reorder or re-kind a letter, and never change what      *)
(* stands between two texts: every gap of the result is the gap of the      *)
(* built document, and only texts with nothing in between grew together.    *)
TextPreserved ==
    Fixed => LET built == Separations(Leaves(doc), 0, {})
                 kept  == Separations(Leaves(Result), 0, {})
             IN /\ Letters(Result) = Letters(doc)
                /\ kept \subseteq built
                /\ \A gap \in built \ kept : gap[3] = {}

(* The line feeds between two neighbouring texts a and b of the result. *)
FeedsBetween(a, b) ==
    LET gaps == {g \in Separations(Leaves(Result), 0, {}) : g[1] = a /\ g[2] = b}
    IN {LineFeeds(s) : s \in UNION {g[3] : g \in gaps}}

(* The indented strings of the document: the elements of their groups. *)
StringBodies == {b \in GroupBodies(doc) : Sp(Newlines(1)) \in ToSet(b)}

(* Blank lines are part of a string's value and are written only as merged  *)
(* Newlines: the n separators between two lines with text come out as       *)
(* exactly n line feeds, whatever surrounds the string.                     *)
StringLinesKept ==
    Fixed => \A b \in StringBodies : \A i, j \in DOMAIN b :
        (/\ i < j
         /\ IsText(b[i]) /\ IsText(b[j])
         /\ \A m \in (i + 1)..(j - 1) : b[m] = Sp(Newlines(1))
         /\ j > i + 1)
        => FeedsBetween(b[i].txt[1], b[j].txt[1]) = {j - i - 1}

(* The nesting and offset each text starts with: the sum of the deltas open *)
(* at its place in the built document.                                      *)
Indentation(leaves, i) ==
    FoldLeft(LAMBDA acc, e : IF IsNest(e) THEN <<acc[1] + e.dn, acc[2] + e.doff>> ELSE acc,
             <<0, 0>>, SubSeq(leaves, 1, i - 1))

Indents(d) ==
    LET leaves == Leaves(d) IN
    { <<leaves[i].txt[1], Indentation(leaves, i)[1] + leaves[i].nest,
        Indentation(leaves, i)[2] + leaves[i].off>> :
          i \in {j \in DOMAIN leaves : IsText(leaves[j])} }

(* Every text keeps the indentation its closures gave it, however often its *)
(* group was dissolved and its elements were read again; the deltas cancel  *)
(* out, so no text is left with a negative one (the debug_assert of         *)
(* `fixup_mut`).                                                            *)
IndentationBaked == Fixed => Indents(Result) \subseteq Indents(doc)

=============================================================================

----------------------------- MODULE Formatter -----------------------------
(***************************************************************************)
(* `format_with` (src/lib.rs): read a file, turn its tree into a document, *)
(* normalise and lay it out, and then the same with the result, as the     *)
(* next run of the formatter would.                                        *)
(*                                                                         *)
(* A file is a sequence of columns, see Emitter and Measure: the letters   *)
(* of its tokens, blanks and line feeds, comments, a Hash or Block and a   *)
(* word, and the markers of disabled regions.  The parser is left out but  *)
(* for what it does with trivia: the tree of a file is given, and a text   *)
(* that has its tokens in order is a text of that tree.                    *)
(***************************************************************************)
EXTENDS Syntax, Doc

CONSTANTS Trees,         \* the trees of the files to format, their leaves numbered
          SourcesOf(_),  \* the texts of the i-th tree
          Emitted(_, _), \* the document of annotations and a tree: EmitFile of Emitter
          TargetWidth,   \* target line width
          IndentWidth    \* columns per indentation level

(* The walks over a document, as in Renderer. *)
CONSTANTS LeavesOf(_), FixedUp(_), LevelsOf(_), LineFits(_, _, _), IndentAhead(_), SpacingDropped(_), TrialsOf(_)

ASSUME FormatterAssumption == TargetWidth \in Nat /\ IndentWidth \in Nat

VARIABLES file,      \* the source as it was given: [of, text], a text of Trees[of]
          text,      \* the text to format next
          pass,      \* calls of format begun
          doc, actions, out, col, indents, didx, suppress, stack, result, steps

layout == <<doc, actions, out, col, indents, didx, suppress, stack, result, steps>>
vars   == <<file, text, pass, layout>>

R == INSTANCE Renderer WITH Docs <- {}

Passes == 2    \* the second one formats what is formatted already

Tokens == Values([i \in DOMAIN Trees |-> TokensOf(Trees[i])])

tree   == Trees[file.of]
leaves == Tokens[file.of]

-----------------------------------------------------------------------------
(* What the lexer reads off a text.                                        *)

IsSpace(c)      == c \in {Blank, Feed, SoftGap}
IsAnnotation(w) == w >= 200    \* words that are language identifiers

Disable   == 96    \* the comments `/*nixfmt:disable*/` and `/*nixfmt:enable*/`,
Enable    == 97    \* one column each
IsMark(c) == c \in {Disable, Enable}

Last0(is)  == IF is = {} THEN 0 ELSE CHOOSE x \in is : \A y \in is : y <= x
First0(is) == IF is = {} THEN 0 ELSE CHOOSE x \in is : \A y \in is : x <= y

LineOf(s, i)   == Cardinality({j \in 1..(i - 1) : s[j] = Feed})
ColumnOf(s, i) == (i - 1) - Last0({j \in 1..(i - 1) : s[j] = Feed})

(* is_next_string_delimiter: no more than one line feed to the string. *)
NamesLanguage(w, s, i, next) ==
    /\ IsAnnotation(w) /\ next.tok \in Strings \cup {"\"${", "mid${"}
    /\ \A j \in DOMAIN s : i < j /\ s[j] # next.k /\ (\A x \in i..j : s[x] # next.k) => IsSpace(s[j])
    /\ Cardinality({j \in DOMAIN s : i < j /\ s[j] = Feed /\ \A x \in i..j : s[x] # next.k}) <= 1

LineStart(s, i) == Last0({j \in 1..(i - 1) : s[j] = Feed}) + 1
LineEnd(s, i)   == First0({j \in i..Len(s) : s[j] = Feed} \cup {Len(s) + 1}) - 1

(* try_parse_format_directive: "alone on their line". *)
IsDirective(s, i) ==
    IsMark(s[i]) /\ \A j \in LineStart(s, i)..LineEnd(s, i) : j = i \/ IsSpace(s[j])

(* parse_trivia, one column: `mode` is what the column is read as. *)
ReadColumn(s, next, acc, i) ==
    LET c    == s[i]
        item == Last(acc.items)
        put(x, m) == [items |-> Append(acc.items, x), mode |-> m]
        set(x, m) == [items |-> Append(Front(acc.items), x), mode |-> m]
    IN CASE acc.mode = "line" /\ c # Feed -> set([item EXCEPT !.text = Append(@, c)], "line")
         [] acc.mode = "block" -> IF c = Block THEN [acc EXCEPT !.mode = "space"]
                                  ELSE IF NamesLanguage(c, s, i + 1, next)
                                  THEN set(T!LanguageAnnotation(<<c>>), "block")
                                  ELSE set(T!BlockComment(FALSE, <<T!Line(0, FALSE, 0, <<c>>)>>, 0), "block")
         [] acc.mode # "block" /\ c = Feed ->
              IF acc.mode = "feed" THEN set(T!NewlineRun(item.n + 1), "feed") ELSE put(T!NewlineRun(1), "feed")
         [] acc.mode \in {"space", "feed"} /\ c = Hash  -> put(T!LineComment(<<>>, ColumnOf(s, i)), "line")
         [] acc.mode \in {"space", "feed"} /\ c = Block -> put(T!BlockComment(FALSE, <<>>, 0), "block")
         [] acc.mode \in {"space", "feed"} /\ IsMark(c) ->
              put(IF IsDirective(s, i) THEN [T!Directive EXCEPT !.text = <<c>>]
                  ELSE T!BlockComment(FALSE, <<T!Line(0, FALSE, 0, <<c>>)>>, 0), "space")
         [] OTHER -> [acc EXCEPT !.mode = "space"]

RawItems(s, from, to, next) ==
    FoldLeft(LAMBDA acc, i : ReadColumn(s, next, acc, i), [items |-> <<>>, mode |-> "space"],
             [n \in 1..(to - from + 1) |-> from + n - 1]).items

-----------------------------------------------------------------------------
(* The annotations of a text.                                              *)

Positions(s, k)    == {i \in DOMAIN s : s[i] = k}
Begin(s, leaf)     == IF leaf.tok = "eof" THEN Len(s) + 1 ELSE First0(Positions(s, leaf.k))
End(s, leaf)       == Last0(Positions(s, leaf.k))
Present(s, leaf)   == leaf.tok = "eof" \/ Positions(s, leaf.k) # {}

Interpolations == Those(tree, LAMBDA t : t.tag = "Interpolated")
OpensString(leaf)    == leaf.tok \in {"\"${", "mid${"}

(* "there is no preceding Nix token here": after `${`, and after a brace    *)
(* within an interpolation, where the trivia is read with the next token.   *)
DefersTrivia(leaf) ==
    \/ OpensString(leaf)
    \/ /\ leaf.tok = "}"
       /\ \E t \in Interpolations : t.kids[1].k < leaf.k /\ leaf.k < t.kids[3].k

(* The leaf that begins the token or string that `leaf` ends. *)
Owner(leaf) ==
    IF leaf.tok # "}\"" THEN leaf
    ELSE (CHOOSE t \in Interpolations : t.kids[3].k = leaf.k).kids[1]

IsMultiline(s, leaf) == LineOf(s, End(s, leaf)) > LineOf(s, Begin(s, Owner(leaf)))

DropEmptyLines(pieces) ==
    SubSeq(pieces, Cardinality({n \in DOMAIN pieces : \A i \in 1..n : pieces[i].tag = "EmptyLine"}) + 1, Len(pieces))

(* The trivia in front of `next`, where `left` is the token before it, if any. *)
Between(s, left, next) ==
    LET from  == IF left = <<>> THEN 1 ELSE End(s, left[1]) + 1
        items == RawItems(s, from, Begin(s, next) - 1, next)
    IN CASE left = <<>>                  -> T!Result(<<>>, DropEmptyLines(T!ConvertLeading(items)))
         [] left # <<>> /\ DefersTrivia(left[1]) -> T!Result(<<>>, T!ConvertLeading(items))
         [] OTHER -> T!Lexeme(items, IsMultiline(s, left[1]), ColumnOf(s, Begin(s, next)))

(* The annotations of the tokens, what is hoisted into items put aside.     *)
Annotations(s) ==
    LET here    == SelectSeq(leaves, LAMBDA leaf : Present(s, leaf))
        split   == Values([n \in DOMAIN here |-> Between(s, IF n = 1 THEN <<>> ELSE <<here[n - 1]>>, here[n])])
        hoisted == Hoisted(tree)
        index(k) == CHOOSE n \in DOMAIN here : here[n].k = k
        behind(k) == {n \in DOMAIN here : n > 1 /\ Owner(here[n - 1]).k = k}
    IN Values([k \in DOMAIN leaves |->
          IF ~Present(s, leaves[k]) THEN NoTrivia
          ELSE LET lead == split[index(k)].leading IN
               [pre   |-> IF k \in hoisted THEN <<>> ELSE lead,
                above |-> IF k \in hoisted THEN lead ELSE <<>>,
                trail |-> IF behind(k) = {} THEN <<>> ELSE split[Last0(behind(k))].trailing,
                line  |-> LineOf(s, Begin(s, leaves[k]))]])

-----------------------------------------------------------------------------
(* The disabled regions of a text (take_directive_regions).                 *)

InLine(s, i)  == \E j \in 1..i : s[j] = Hash /\ Feed \notin {s[x] : x \in j..i}
InBlock(s, i) == s[i] = Block \/ Cardinality({j \in 1..i : s[j] = Block}) % 2 = 1

Directives(s) == SelectSeq([i \in DOMAIN s |-> i], LAMBDA i : IsMark(s[i]) /\ IsDirective(s, i) /\ ~InBlock(s, i))

Depth(s, i) == Cardinality({t \in Interpolations : Begin(s, t.kids[1]) < i /\ i < End(s, t.kids[3])})

(* [acts, open]: what becomes of the markers so far, and the disable that   *)
(* waits for its enable, 0 if none; see DirectivePairing.                   *)
Pairing(s) ==
    LET at   == Directives(s)
        step(acc, n) ==
            CASE s[at[n]] = Disable /\ acc.open = 0 -> [acc EXCEPT !.open = n]
              [] s[at[n]] = Enable /\ acc.open # 0 /\ Depth(s, at[n]) = Depth(s, at[acc.open]) ->
                   [acts |-> [acc.acts EXCEPT ![acc.open] = "Begin", ![n] = "End"], open |-> 0]
              [] OTHER -> acc
        last == FoldLeft(step, [acts |-> [n \in DOMAIN at |-> "Inert"], open |-> 0], [n \in DOMAIN at |-> n])
    IN IF last.open # 0 /\ Depth(s, at[last.open]) = 0
       THEN [last.acts EXCEPT ![last.open] = "Begin"] ELSE last.acts

(* The lines the region opened at marker n covers. *)
Verbatim(s, acts, n) ==
    LET at   == Directives(s)
        ends == {m \in DOMAIN at : m > n /\ acts[m] = "End"}
        ink  == {i \in DOMAIN s : s[i] # Feed}
    IN SubSeq(s, LineStart(s, at[n]), IF ends = {} THEN Last0(ink) ELSE LineEnd(s, at[First0(ends)]))

-----------------------------------------------------------------------------
Idle == doc = <<>>

(* What is written for the cells of a layout of `s`: regions as they were. *)
Written(cells, s, acts) ==
    LET cell(c) == CASE c = SoftGap       -> <<Blank>>
                     [] c \in {R!Region(n) : n \in DOMAIN acts} ->
                          Verbatim(s, acts, CHOOSE n \in DOMAIN acts : c = R!Region(n))
                     [] OTHER             -> <<c>>
    IN Append(R!Trimmed(Flat([i \in DOMAIN cells |-> cell(cells[i])])), Feed)

Init ==
    /\ \E i \in DOMAIN Trees : \E s \in SourcesOf(i) : file = [of |-> i, text |-> s] /\ text = s
    /\ pass = 0
    /\ doc = <<>> /\ actions = <<>> /\ out = <<>> /\ col = 0 /\ indents = <<R!Entry(0, 0)>>
    /\ didx = 0 /\ suppress = FALSE /\ stack = <<>> /\ result = <<>> /\ steps = 0

(* Parse and emit, and start the renderer on the document. *)
Read ==
    /\ Idle /\ pass < Passes
    /\ pass' = pass + 1
    /\ doc' = FixedUp(Emitted(Annotations(text), tree))
    /\ actions' = Pairing(text) /\ didx' = 0 /\ suppress' = FALSE
    /\ stack' = <<R!DocFrame(<<Group("Regular", doc')>>, <<>>)>>
    /\ out' = <<>> /\ col' = 0 /\ indents' = <<R!Entry(0, 0)>> /\ steps' = 0
    /\ UNCHANGED <<file, text, result>>

Layout ==
    /\ ~Idle /\ ~R!Done
    /\ R!Next
    /\ UNCHANGED <<file, text, pass>>

Output == Written(result[1], text, actions)

(* The text is written back; a soft gap has become a blank like any other. *)
Write ==
    /\ R!Done
    /\ text' = Output
    /\ doc' = <<>> /\ result' = <<>>
    /\ UNCHANGED <<file, pass, actions, out, col, indents, didx, suppress, stack, steps>>

Terminated == Idle /\ pass = Passes /\ UNCHANGED vars

Next == Read \/ Layout \/ Write \/ Terminated

Spec == Init /\ [][Next]_vars

-----------------------------------------------------------------------------
(* What formatting must not do.                                            *)

(* The cells of a text that are not white space nor part of a comment.     *)
Code(s) ==
    SelectSeq([i \in DOMAIN s |-> i], LAMBDA i : ~IsSpace(s[i]) /\ ~IsMark(s[i]) /\ ~InLine(s, i) /\ ~InBlock(s, i))

(* Two tokens that are read as something else when nothing is between them: *)
(* a longer name, a path, a URI or a float.                                 *)
Words == Simple \cup Keywords
Fuses(x, y) ==
    \/ x.tok \in Words /\ y.tok \in Words \cup {"-", "/", "lines"}    \* names may hold quotes
    \/ x.tok \in {":", "/"} /\ y.tok \in Words
    \/ x.tok = "1" /\ y.tok = "."

(* Formatting keeps the program: the tokens are read back whole and in      *)
(* order, none is swallowed by a comment and no two are run together; only  *)
(* the comma behind a last attribute comes and goes.                        *)
TokensKept ==
    R!Done =>
        LET s    == Output
            code == Code(s)
            here == SelectSeq(leaves, LAMBDA leaf : Present(s, leaf))
        IN /\ [n \in DOMAIN code |-> s[code[n]]]
                = Flat([n \in DOMAIN here |-> [i \in 1..TokenWidth[here[n].tok] |-> here[n].k]])
           /\ \A leaf \in ToSet(leaves) : Present(s, leaf) \/ leaf.k \in OptionalCommas(tree)
           /\ \A n \in 2..Len(here) :
                  Begin(s, here[n]) = End(s, here[n - 1]) + 1 => ~Fuses(here[n - 1], here[n])

(* The comments of a text in order, each as its words, but for annotations. *)
Comments(s) ==
    LET items == SelectSeq(RawItems(s, 1, Len(s), Leaf("eof")), LAMBDA p : p.tag # "Newlines")
        words == [n \in DOMAIN items |->
                     IF items[n].tag = "BlockComment" THEN items[n].lines[1].text ELSE items[n].text]
    IN SelectSeq(words, LAMBDA w : ~IsAnnotation(w[1]))

AnnotationsAttached(s, t) ==
    \A leaf \in ToSet(leaves) : \A i \in DOMAIN s :
        NamesLanguage(s[i], s, i + 1, leaf)
        => \E j \in DOMAIN t : t[j] = s[i] /\ NamesLanguage(t[j], t, j + 1, leaf)

(* No comment is lost, doubled, joined to another or overtaken by one, on   *)
(* whichever side of a token it is put, and an annotation stays in front of *)
(* the string whose language it names.                                      *)
CommentsKept ==
    R!Done => /\ Comments(Output) = Comments(file.text)
              /\ AnnotationsAttached(file.text, Output)

(* "format(format(x)) == format(x)" (src/regression_tests/properties.rs).   *)
Idempotent == R!Done /\ pass = Passes => Output = text
=============================================================================

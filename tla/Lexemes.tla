------------------------------ MODULE Lexemes -------------------------------
(***************************************************************************)
(* How characters become tokens and terms: the token scanner               *)
(* (src/lexer/scan.rs, numbers.rs), and the parser functions that go back  *)
(* to characters because a path, a URI and a selection cannot be told from *)
(* tokens alone (src/parser/path_uri.rs, term.rs), and how the emitters    *)
(* put what was read on one line.                                          *)
(*                                                                         *)
(* The lexer stands one token ahead, so where the parser asks whether a    *)
(* path or a URI begins here, the white space behind the current token is  *)
(* already behind the cursor.                                              *)
(*                                                                         *)
(* A text is a sequence of characters; " " stands for any white space.     *)
(* Brackets, keywords and prefix `!` are left to Grammar.  What is read is *)
(* a flat list of items: the tree of operators is that of Grammar, which   *)
(* also rejects chained comparisons.                                       *)
(***************************************************************************)
EXTENDS Integers, SequencesExt

Blank    == " "
NoChar   == ""      \* behind the end of the text
Letters  == {"a", "e"}
Digits   == {"0", "1"}
Alnum    == Letters \cup Digits

IdentChars  == Alnum \cup {"-"}
PathChars   == Alnum \cup {".", "-", "+"}
SchemeChars == Alnum \cup {".", "-", "+"}
UriChars    == Alnum \cup {"~", "-", "+", ":", ".", "/"}

CharAt(s, i) == IF i \in DOMAIN s THEN s[i] ELSE NoChar

(* The first position from i on whose character is not in C. *)
SkipOver(s, C, i) ==
    CHOOSE j \in i..(Len(s) + 1) : CharAt(s, j) \notin C /\ \A k \in i..(j - 1) : s[k] \in C

Token(kind, to) == [kind |-> kind, to |-> to]

-----------------------------------------------------------------------------
(* The scanner: the kind of the token that begins at i and the position     *)
(* behind it.                                                              *)

(* parse_exponent: all of it or nothing. *)
ExponentEnd(s, i) ==
    LET digits == IF CharAt(s, i + 1) \in {"+", "-"} THEN i + 2 ELSE i + 1
    IN IF CharAt(s, i) = "e" /\ CharAt(s, digits) \in Digits THEN SkipOver(s, Digits, digits) ELSE i

(* A number that begins with more than one digit, the first one zero. *)
ManyZeros(s, i, dot) == s[i] = "0" /\ dot > i + 1

ScanNumber(s, i) ==
    LET dot  == SkipOver(s, Digits, i)
        frac == CharAt(s, dot) = "." /\ CharAt(s, dot + 1) \in Digits /\ ~ManyZeros(s, i, dot)
        bare == CharAt(s, dot) = "." /\ CharAt(s, dot + 1) \notin Digits /\ SubSeq(s, i, dot - 1) # <<"0">>
    IN  CASE frac  -> Token("float", ExponentEnd(s, SkipOver(s, Digits, dot + 1)))
          [] bare  -> Token("float", ExponentEnd(s, dot + 1))
          [] OTHER -> Token("int", dot)

ScanDot(s, i) ==
    CASE CharAt(s, i + 1) = "." /\ CharAt(s, i + 2) = "." -> Token("...", i + 3)
      [] CharAt(s, i + 1) \in Digits -> Token("float", ExponentEnd(s, SkipOver(s, Digits, i + 1)))
      [] OTHER -> Token(".", i + 1)

RECURSIVE SearchPathEnd(_, _)
(* try_env_path, from the beginning of a segment: the position behind `>`,  *)
(* 0 if the pattern does not match.                                         *)
SearchPathEnd(s, i) ==
    LET end == SkipOver(s, PathChars, i) IN
    CASE end > i /\ CharAt(s, end) = ">" -> end + 1
      [] end > i /\ CharAt(s, end) = "/" -> SearchPathEnd(s, end + 1)
      [] OTHER -> 0

ScanLess(s, i) ==
    CASE SearchPathEnd(s, i + 1) # 0 -> Token("env", SearchPathEnd(s, i + 1))
      [] SearchPathEnd(s, i + 1) = 0 /\ CharAt(s, i + 1) = "=" -> Token("<=", i + 2)
      [] OTHER -> Token("<", i + 1)

(* try_two_char *)
OneOrTwo(s, i, second, two) == IF CharAt(s, i + 1) = second THEN Token(two, i + 2) ELSE Token(s[i], i + 1)

(* Lexer::next_token.  The quote is followed by what the string scanner     *)
(* reads: strings are those of IndentedString.                              *)
NextToken(s, i) ==
    LET c == CharAt(s, i) IN
    CASE c = NoChar     -> Token("eof", i)
      [] c \in Letters  -> Token("ident", SkipOver(s, IdentChars, i))
      [] c \in Digits   -> ScanNumber(s, i)
      [] c = "."        -> ScanDot(s, i)
      [] c = "<"        -> ScanLess(s, i)
      [] c = "+"        -> OneOrTwo(s, i, "+", "++")
      [] c = "-"        -> OneOrTwo(s, i, ">", "->")
      [] c = "/"        -> OneOrTwo(s, i, "/", "//")
      [] c = ">"        -> OneOrTwo(s, i, "=", ">=")
      [] c = "="        -> OneOrTwo(s, i, "=", "==")
      [] OTHER          -> Token(c, i + 1)

-----------------------------------------------------------------------------
(* The parser's state: the current token [kind, from, to], the cursor `at`  *)
(* behind the white space that follows it, and whether there is any.        *)

(* Lexer::lexeme with fast_ws_trivia, which leaves a string to its scanner. *)
Lexeme(s, i) ==
    LET from == SkipOver(s, {Blank}, i)
        tok  == NextToken(s, from)
        at   == IF tok.kind = "\"" THEN tok.to ELSE SkipOver(s, {Blank}, tok.to)
    IN  [kind |-> tok.kind, from |-> from, to |-> tok.to, at |-> at, spaced |-> at > tok.to]

Advance(s, p) == Lexeme(s, p.at)

Peek(s, p, n) == CharAt(s, p.at + n)

(* looks_like_uri *)
LooksLikeUri(s, p) ==
    /\ p.kind = "ident" /\ Peek(s, p, 0) = ":" /\ Peek(s, p, 1) \in UriChars
    /\ \A i \in p.from..(p.to - 1) : s[i] \in SchemeChars

(* A segment of a path and the beginning of the next one. *)
SegmentAhead(s, p, from) ==
    LET end == SkipOver(s, PathChars, from) IN
    end > from /\ CharAt(s, end) = "/" /\ CharAt(s, end + 1) \in PathChars

(* What looks_like_path matches, wherever the white space is. *)
PathAhead(s, p) ==
    CASE p.kind = "ident" ->
            \/ Peek(s, p, 0) = "/" /\ Peek(s, p, 1) \in PathChars
            \/ Peek(s, p, 0) = "." /\ SegmentAhead(s, p, p.at + 1)
      [] p.kind = "." ->
            \/ Peek(s, p, 0) = "/" /\ Peek(s, p, 1) \in PathChars
            \/ SegmentAhead(s, p, p.at)
      [] p.kind = "/" -> Peek(s, p, 0) \in PathChars
      [] p.kind = "~" -> Peek(s, p, 0) = "/" /\ Peek(s, p, 1) \in PathChars
      [] OTHER -> FALSE

(* looks_like_path: has_preceding_whitespace is about the white space behind *)
(* the token.                                                              *)
LooksLikePath(s, p) == ~p.spaced /\ PathAhead(s, p)

-----------------------------------------------------------------------------
(* The parser: a result is [ok, p, items].  An item is a token or what the   *)
(* parser reads character by character, with the text it keeps.             *)

Item(kind, text) == [kind |-> kind, text |-> text]
TextOf(s, p)     == SubSeq(s, p.from, p.to - 1)

Parsed(p, items) == [ok |-> TRUE, p |-> p, items |-> items]
Failed(p)        == [ok |-> FALSE, p |-> p, items |-> <<>>]

(* `r` with the items in front of its own. *)
Behind(items, r) == [r EXCEPT !.items = items \o @]

InPath(s, i) == CharAt(s, i) \in PathChars \/ (CharAt(s, i) = "/" /\ CharAt(s, i + 1) # "/")

(* Mutant of PathText: the head, which the lexer has read, is forgotten. *)
TailText(s, p, end) == SubSeq(s, p.at, end - 1)

(* The head as a token, the tail as characters. *)
PathText(s, p, end) == TextOf(s, p) \o SubSeq(s, p.at, end - 1)

(* parse_path *)
ParsePath(s, p) ==
    LET end == CHOOSE j \in p.at..(Len(s) + 1) : ~InPath(s, j) /\ \A k \in p.at..(j - 1) : InPath(s, k)
    IN  IF s[end - 1] = "/" THEN Failed(p)
        ELSE Parsed(Lexeme(s, end), <<Item("path", PathText(s, p, end))>>)

(* parse_uri: a simple string from here on. *)
ParseUri(s, p) ==
    LET end == SkipOver(s, UriChars, p.at)
    IN  Parsed(Lexeme(s, end), <<Item("string", TextOf(s, p) \o SubSeq(s, p.at, end - 1))>>)

(* parse_simple_string, of what a URI was printed as *)
ParseString(s, p) ==
    LET end == SkipOver(s, UriChars, p.at)
    IN  IF CharAt(s, end) # "\"" THEN Failed(p)
        ELSE Parsed(Lexeme(s, end + 1), <<Item("string", SubSeq(s, p.at, end - 1))>>)

(* Mutant of IsBinaryOp: a slash is an operator wherever one may be. *)
IsBinaryOpAnyway(s, p) ==
    p.kind \in {"+", "-", "*", "/", "++", "//", "->", "<", ">", "<=", ">=", "=="}

IsBinaryOp(s, p) ==
    \/ p.kind \in {"+", "-", "*", "++", "//", "->", "<", ">", "<=", ">=", "=="}
    \/ p.kind = "/" /\ ~LooksLikePath(s, p)

IsTermStart(s, p) ==
    \/ p.kind \in {"ident", "int", "float", "env", "\""}
    \/ p.kind \in {".", "/", "~"} /\ LooksLikePath(s, p)

RECURSIVE Selection(_, _)
(* parse_postfix_selection, which goes back to a dot without a selector     *)
Selection(s, r) ==
    LET dot  == Advance(s, r.p)
        name == CASE dot.kind = "ident" -> Parsed(Advance(s, dot), <<Item("selector", TextOf(s, dot))>>)
                  [] dot.kind = "\""    -> ParseString(s, dot)
                  [] OTHER             -> Failed(dot)
    IN  IF r.ok /\ r.p.kind = "." /\ ~LooksLikePath(s, r.p) /\ dot.kind \in {"ident", "\""}
        THEN Selection(s, Behind(Append(r.items, Item("dot", <<".">>)), name))
        ELSE r

(* parse_token_term *)
TokenTerm(s, p) == Parsed(Advance(s, p), <<Item(p.kind, TextOf(s, p))>>)

(* parse_term *)
Term(s, p) ==
    CASE LooksLikeUri(s, p) -> ParseUri(s, p)
      [] LooksLikePath(s, p) -> ParsePath(s, p)
      [] OTHER -> CASE p.kind \in {"ident", "int", "float", "env"} -> Selection(s, TokenTerm(s, p))
                    [] p.kind = "\"" -> Selection(s, ParseString(s, p))
                    [] OTHER -> Failed(p)

RECURSIVE ApplicationTail(_, _), Application(_, _), Operation(_, _), Expression(_, _)
(* parse_application_tail *)
ApplicationTail(s, r) ==
    IF r.ok /\ IsTermStart(s, r.p) /\ ~IsBinaryOp(s, r.p)
    THEN ApplicationTail(s, Behind(r.items, Term(s, r.p)))
    ELSE r

(* parse_application *)
Application(s, p) ==
    IF p.kind = "-" THEN Behind(<<Item("negation", <<"-">>)>>, Application(s, Advance(s, p)))
    ELSE ApplicationTail(s, Term(s, p))

(* maybe_parse_binary_operation *)
Operation(s, r) ==
    IF r.ok /\ IsBinaryOp(s, r.p)
    THEN Operation(s, Behind(Append(r.items, Item("operator", TextOf(s, r.p))), Application(s, Advance(s, r.p))))
    ELSE r

(* parse_abstraction_or_operation *)
Expression(s, p) ==
    LET next == Advance(s, p)
        plain == p.kind = "ident" /\ ~LooksLikeUri(s, p) /\ ~LooksLikePath(s, p)
                 /\ ~(Peek(s, p, 0) = "/" /\ Peek(s, p, 1) # "/")
        term == Application(s, p)
    IN  CASE plain /\ next.kind = ":" ->
               Behind(<<Item("ident", TextOf(s, p)), Item("colon", <<":">>)>>, Expression(s, Advance(s, next)))
          [] plain /\ next.kind # ":" -> Operation(s, ApplicationTail(s, Selection(s, TokenTerm(s, p))))
          [] ~plain -> IF term.p.kind = ":" THEN Failed(p) ELSE Operation(s, term)

(* parse_file *)
File(s) == LET r == Expression(s, Lexeme(s, 1)) IN IF r.p.kind = "eof" THEN r ELSE Failed(r.p)

-----------------------------------------------------------------------------
(* The emitters, on one line: where two items are not set apart.             *)

(* Mutant of Adjacent: a selector is always printed behind its base. *)
AdjacentToNumbers(x, y) == x.kind \in {"dot", "negation"} \/ y.kind \in {"colon", "dot"}

Adjacent(x, y) ==
    \/ x.kind \in {"dot", "negation"} \/ y.kind = "colon"
    \/ y.kind = "dot" /\ x.kind \notin {"int", "float"}

Chars(item) == IF item.kind = "string" THEN <<"\"">> \o item.text \o <<"\"">> ELSE item.text

Printed(items) ==
    FlattenSeq([i \in DOMAIN items |->
        (IF i = 1 \/ Adjacent(items[i - 1], items[i]) THEN <<>> ELSE <<Blank>>) \o Chars(items[i])])

-----------------------------------------------------------------------------
(* A text is read, printed and read again, as the next run of the formatter *)
(* would.                                                                   *)

CONSTANTS Sources,     \* the texts to format
          Reading(_),  \* the parser: File
          Writing(_),  \* the emitters and the renderer: Printed
          MaxPasses    \* bound on the times a text is read

ASSUME LexemesAssumption == MaxPasses \in Nat

VARIABLES source,   \* the text as it was given
          text,     \* the text to read next
          items,    \* what was read last
          first,    \* what was read first
          phase,    \* "read", "print" or "rejected"
          pass      \* number of times a text was read

vars == <<source, text, items, first, phase, pass>>

Init ==
    /\ source \in Sources /\ text = source
    /\ items = <<>> /\ first = <<>> /\ phase = "read" /\ pass = 0

ReadText ==
    /\ phase = "read" /\ pass < MaxPasses
    /\ LET r == Reading(text) IN
          /\ phase' = IF r.ok THEN "print" ELSE "rejected"
          /\ items' = r.items
          /\ first' = IF pass = 0 THEN r.items ELSE first
    /\ pass' = pass + 1
    /\ UNCHANGED <<source, text>>

PrintItems ==
    /\ phase = "print"
    /\ text' = Writing(items) /\ phase' = "read"
    /\ UNCHANGED <<source, items, first, pass>>

Next == ReadText \/ PrintItems

Spec == Init /\ [][Next]_vars

-----------------------------------------------------------------------------
(* Properties.                                                             *)

(* What is printed is read again, and as the same items: nothing the        *)
(* emitters put next to each other is read as one token, and nothing they   *)
(* set apart was one path or number (README.md: "Idempotent and             *)
(* AST-preserving by construction"; format/mod.rs, on the selection from a  *)
(* number).  A URI is a string from the first reading on.                   *)
ReadsBack == pass > 1 => phase # "rejected" /\ items = first

Blackened(s) == SelectSeq(s, LAMBDA c : c # Blank)
ItemsText(list) == FlattenSeq([i \in DOMAIN list |-> list[i].text])

(* No character is lost or moved where the parser leaves the tokens for the *)
(* characters and comes back: the head of a path is a token, its tail is    *)
(* not, and a dot without a selector is read a second time.                 *)
TextKept == first # <<>> => ItemsText(first) = Blackened(source)

(* The number of characters of the source that are no white space, up to i. *)
NonBlanks(i) == Len(Blackened(SubSeq(source, 1, i)))

(* The characters of each item stood together in the source: the lexer is   *)
(* behind the white space when a path or a URI begins, and white space      *)
(* separates terms.                                                         *)
ItemsWhole ==
    \A k \in DOMAIN first :
        LET before == Len(ItemsText(SubSeq(first, 1, k - 1)))
            end    == before + Len(first[k].text)
        IN  \A i \in DOMAIN source : source[i] = Blank => NonBlanks(i) \notin (before + 1)..(end - 1)

(* An operator <<sym>> begins at i: its character is the last one of the    *)
(* items read so far.                                                       *)
OperatorAt(i, sym) ==
    \E k \in DOMAIN first :
        first[k] = Item("operator", <<sym>>) /\ Len(ItemsText(SubSeq(first, 1, k))) = NonBlanks(i)

(* <{PATH_CHAR}+(/{PATH_CHAR}+)*> *)
Segments(t) == t # <<>> /\ Head(t) \in PathChars /\ Last(t) \in PathChars
               /\ ToSet(t) \subseteq PathChars \cup {"/"} /\ \A i \in 2..Len(t) : t[i - 1] # "/" \/ t[i] # "/"
SearchPath(t) == Len(t) > 2 /\ Head(t) = "<" /\ Last(t) = ">" /\ Segments(SubSeq(t, 2, Len(t) - 1))

(* The slash at i is directly followed by what can stand in a path, and it  *)
(* is not half of `//`.                                                     *)
PathAt(i) == source[i] = "/" /\ CharAt(source, i + 1) \in PathChars /\ CharAt(source, i - 1) # "/"

(* A slash divides only where no path begins or goes on, and `<` compares   *)
(* only where no search path begins, though three places of the parser ask  *)
(* for the one ("a/b" (path) vs "a / b" (division)) and the other must      *)
(* match up to its end ("maximal-munch", scan.rs).                          *)
PathsBeforeOperators ==
    /\ \A i \in DOMAIN source : PathAt(i) => ~OperatorAt(i, "/")
    /\ \A i, j \in DOMAIN source :
          i < j /\ SearchPath(SubSeq(source, i, j)) => ~OperatorAt(i, "<")
=============================================================================

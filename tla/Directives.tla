----------------------------- MODULE Directives -----------------------------
(***************************************************************************)
(* How `/*nixfmt:disable*/` and `/*nixfmt:enable*/` get from the source    *)
(* into the syntax tree and into the list of recorded markers: the lexer   *)
(* reads one lexeme ahead of the parser, defers the trivia behind a token  *)
(* that may be followed by string content, is rewound behind the `}` of a  *)
(* string interpolation and restored when `{` turns out to open a set and  *)
(* not a parameter list (src/lexer/mod.rs, src/parser).                    *)
(*                                                                         *)
(* A source is a sequence of tokens and markers.  Only the tokens that     *)
(* change how trivia is read are told apart; "x" is any other term.        *)
(***************************************************************************)
EXTENDS DirectivePairing, FiniteSets, SequencesExt

CONSTANT Sources     \* the files: sequences over Lexemes, each one valid Nix

Markers == {"disable", "enable"}
Tokens  == {"x", "=", ";", ":", ",", "...", "{", "}", "${", "quote"}
Lexemes == Tokens \cup Markers

ASSUME SourcesAssumption == Sources \subseteq Seq(Lexemes)

VARIABLES src,       \* the file
          lexer,     \* [pos, buffer, start, recorded, depth]
          current,   \* the token the parser looks at: [tok, pre]
          stack,     \* the constructs under way, innermost last
          ast,       \* the markers (by position) the parsed part holds
          parsed     \* the tree is complete, its markers are being paired

parser == <<lexer, current, stack, ast>>
vars == <<src, parser, parsed, pvars>>

-----------------------------------------------------------------------------
EndPos == Len(src) + 1
TokenAt(p) == IF p > Len(src) THEN "eof" ELSE src[p]

(* `parse_trivia`: the markers from p on, each with the depth it is met at. *)
RunEnd(p) == CHOOSE q \in p..EndPos : TokenAt(q) \notin Markers
                                      /\ \A r \in p..(q - 1) : src[r] \in Markers
Run(p) == [i \in 1..(RunEnd(p) - p) |-> p + i - 1]
Mark(at, d) == [at |-> at, disable |-> src[at] = "disable", depth |-> d]
Record(l, positions) == l.recorded \o [i \in DOMAIN positions |-> Mark(positions[i], l.depth)]

(* `parse_and_convert_trivia`: what is read becomes the next token's own. *)
ReadTrivia(l) ==
    [l EXCEPT !.pos = RunEnd(l.pos), !.buffer = Run(l.pos), !.start = l.pos,
              !.recorded = Record(l, Run(l.pos))]

(* `convert_leading` after a deferral: read in front of the token instead. *)
SyncTrivia(l) ==
    [l EXCEPT !.pos = RunEnd(l.pos), !.buffer = l.buffer \o Run(l.pos),
              !.start = IF Run(l.pos) = <<>> THEN l.start ELSE l.pos,
              !.recorded = Record(l, Run(l.pos))]

(* Behind these tokens there may be string content, where `/*` is text. *)
Defers(tok, d) == tok = "quote" \/ (tok = "}" /\ d > 0)

Consume(l) == [l EXCEPT !.pos = IF l.pos = EndPos THEN l.pos ELSE l.pos + 1, !.buffer = <<>>]

(* `Lexer::lexeme`: the next token with its leading trivia; what follows it *)
(* is read at once unless it has to be deferred.                            *)
Lexeme(l) ==
    LET synced == SyncTrivia(l)
        tok    == TokenAt(synced.pos)
        after  == Consume(synced)
    IN  [current |-> [tok |-> tok, pre |-> synced.buffer],
         lexer   |-> IF Defers(tok, l.depth) THEN [after EXCEPT !.start = after.pos]
                                             ELSE ReadTrivia(after)]

Top == IF stack = <<>> THEN "file" ELSE Last(stack).kind
Frame(kind) == [kind |-> kind, saved |-> <<>>]

(* In a string the parser scans characters and holds no token. *)
InRaw == Top = "string" /\ current.tok = "sof"

Parsing == ~parsed /\ UNCHANGED <<src, parsed, pvars>>

Advance(from) == current' = Lexeme(from).current /\ lexer' = Lexeme(from).lexer

(* `take_and_advance`: the current token and its trivia go to the tree. *)
Take == ast' = ast \o current.pre /\ Advance(lexer)

Fresh == [pos |-> 1, buffer |-> <<>>, start |-> 1, recorded |-> <<>>, depth |-> 0]

Init ==
    /\ src \in Sources
    /\ lexer = Lexeme(ReadTrivia(Fresh)).lexer /\ current = Lexeme(ReadTrivia(Fresh)).current
    /\ stack = <<>> /\ ast = <<>> /\ parsed = FALSE
    /\ offsets = <<>> /\ Start

-----------------------------------------------------------------------------
(* A token that neither opens nor closes anything. *)
Plain ==
    /\ Parsing /\ ~InRaw
    /\ current.tok \in {"x", "=", ";", ":", ","} /\ ~(Top = "formals" /\ current.tok = "=")
    /\ Take /\ UNCHANGED stack

(* `{`: a parameter list if a name or `...` follows, to be given up if the  *)
(* name is followed by `=`; a set otherwise.                                *)
OpenBrace ==
    /\ Parsing /\ current.tok = "{"
    /\ Take
    /\ LET saved == <<[lexer |-> lexer, current |-> current, ast |-> ast]>>
       IN  stack' = Append(stack, IF current'.tok \in {"x", "..."}
                                  THEN [kind |-> "formals", saved |-> saved]
                                  ELSE Frame("binders"))

(* Mutant of Restored: the trivia in front of the cursor is not brought back. *)
RestoredCursor(s) == [s.lexer EXCEPT !.buffer = <<>>]

(* `restore_state`; `trivia_start` is not part of the saved state. *)
Restored(s) == [s.lexer EXCEPT !.start = lexer.start]

(* `{ x =`: back to the `{`, which is taken again as the start of a set. *)
Backtrack ==
    /\ Parsing /\ Top = "formals" /\ current.tok = "="
    /\ LET s == Last(stack).saved[1]
       IN  ast' = s.ast \o s.current.pre /\ Advance(Restored(s))
    /\ stack' = Append(Front(stack), Frame("binders"))

(* `...` ends a parameter list; a comma behind it is skipped unseen. *)
Ellipsis ==
    /\ Parsing /\ Top = "formals" /\ current.tok = "..."
    /\ ast' = ast \o current.pre
    /\ LET next == Lexeme(lexer)
       IN  IF next.current.tok = "," THEN Advance(next.lexer) ELSE Advance(lexer)
    /\ UNCHANGED stack

CloseBrace ==
    /\ Parsing /\ Top \in {"binders", "formals"} /\ current.tok = "}"
    /\ Take /\ stack' = Front(stack)

(* `${` as an attribute name; the depth stays. *)
EnterSelector ==
    /\ Parsing /\ ~InRaw /\ current.tok = "${"
    /\ Take /\ stack' = Append(stack, Frame("selector"))

ExitSelector ==
    /\ Parsing /\ Top = "selector" /\ current.tok = "}"
    /\ Take /\ stack' = Front(stack)

Nothing == [tok |-> "sof", pre |-> <<>>]

OpenString ==
    /\ Parsing /\ current.tok = "quote"
    /\ ast' = ast \o current.pre /\ current' = Nothing
    /\ stack' = Append(stack, Frame("string"))
    /\ UNCHANGED lexer

RawText ==
    /\ Parsing /\ InRaw /\ TokenAt(lexer.pos) \notin {"${", "quote", "eof"}
    /\ lexer' = [lexer EXCEPT !.pos = lexer.pos + 1]
    /\ UNCHANGED <<current, stack, ast>>

Deeper(l) == Lexeme([l EXCEPT !.pos = l.pos + 1, !.depth = l.depth + 1])

(* `${` in a string. *)
EnterInterp ==
    /\ Parsing /\ InRaw /\ TokenAt(lexer.pos) = "${"
    /\ current' = Deeper(lexer).current /\ lexer' = Deeper(lexer).lexer
    /\ stack' = Append(stack, Frame("interp"))
    /\ UNCHANGED ast

(* `rewind_trivia`: back to where the last trivia began. *)
Rewound(l) == [l EXCEPT !.pos = l.start, !.buffer = <<>>]

(* Mutant of Shallower: leaving the interpolation is not noted. *)
Deep(l) == Rewound(l)

(* `exit_interp`, behind the rewind. *)
Shallower(l) == [Rewound(l) EXCEPT !.depth = IF l.depth = 0 THEN 0 ELSE l.depth - 1]

(* The `}` of an interpolation: back to the string right behind it. *)
ExitInterp ==
    /\ Parsing /\ Top = "interp" /\ current.tok = "}"
    /\ ast' = ast \o current.pre
    /\ lexer' = Shallower(lexer) /\ current' = Nothing
    /\ stack' = Front(stack)

(* `parse_trailing_trivia_and_advance` behind the closing quote. *)
CloseString ==
    /\ Parsing /\ InRaw /\ TokenAt(lexer.pos) = "quote"
    /\ Advance(ReadTrivia(Consume(lexer)))
    /\ stack' = Front(stack)
    /\ UNCHANGED ast

(* Sorted by position; of two records of one marker one is kept. *)
TakenOffsets ==
    LET ats     == {lexer.recorded[i].at : i \in DOMAIN lexer.recorded}
        rank(x) == Cardinality({y \in ats : y <= x})
    IN  [k \in 1..Cardinality(ats) |-> CHOOSE m \in ToSet(lexer.recorded) : rank(m.at) = k]

(* The trivia in front of the end of file is the file's trailing trivia. *)
ParseEnds ==
    /\ ~parsed /\ current.tok = "eof" /\ stack = <<>>
    /\ ast' = ast \o current.pre /\ current' = Nothing
    /\ offsets' = TakenOffsets /\ lexer' = [lexer EXCEPT !.recorded = <<>>]
    /\ n' = 1 /\ open' = 0 /\ actions' = [i \in DOMAIN offsets' |-> "Inert"]
    /\ parsed' = TRUE
    /\ UNCHANGED <<src, stack>>

Pairing == parsed /\ Pair /\ UNCHANGED <<src, parser, parsed>>

Finished == parsed /\ Paired /\ UNCHANGED vars

Next ==
    \/ Plain \/ OpenBrace \/ Backtrack \/ Ellipsis \/ CloseBrace
    \/ EnterSelector \/ ExitSelector
    \/ OpenString \/ RawText \/ EnterInterp \/ ExitInterp \/ CloseString
    \/ ParseEnds \/ Pairing \/ Finished

Spec == Init /\ [][Next]_vars

-----------------------------------------------------------------------------
(* What the markers of a source are, read off the source alone: from left  *)
(* to right, the constructs open in front of each position.                 *)
Opened(ctx, tok) ==
    LET inner == IF ctx = <<>> THEN "code" ELSE Last(ctx)
    IN  CASE tok = "quote" /\ inner = "raw" -> Front(ctx)
          [] tok = "quote" /\ inner # "raw" -> Append(ctx, "raw")
          [] tok = "${" -> Append(ctx, IF inner = "raw" THEN "interp" ELSE "code")
          [] tok = "{" /\ inner # "raw" -> Append(ctx, "code")
          [] tok = "}" /\ inner # "raw" /\ ctx # <<>> -> Front(ctx)
          [] OTHER -> ctx

Context[p \in 1..EndPos] == IF p = 1 THEN <<>> ELSE Opened(Context[p - 1], src[p - 1])

InterpsOf(ctx) == Cardinality({i \in DOMAIN ctx : ctx[i] = "interp"})
IsRaw(ctx) == ctx # <<>> /\ Last(ctx) = "raw"

(* The markers in front of a position that are no string text. *)
TrueMarkers[p \in 1..EndPos] ==
    IF p = 1 THEN <<>>
    ELSE IF src[p - 1] \in Markers /\ ~IsRaw(Context[p - 1])
         THEN Append(TrueMarkers[p - 1], Mark(p - 1, InterpsOf(Context[p - 1])))
         ELSE TrueMarkers[p - 1]

At(marks) == [i \in DOMAIN marks |-> marks[i].at]

(* At every moment the lexer has recorded exactly the markers in front of   *)
(* its cursor that are not string text, once each, in order and with the    *)
(* `${}` depth they really have, whatever was deferred, rewound or restored.*)
RecordedAreReal ==
    IF parsed THEN offsets = TrueMarkers[EndPos]
              ELSE lexer.recorded = TrueMarkers[lexer.pos]

(* Every recorded marker is on its way into the tree, in source order: "so  *)
(* the action list and the document stay aligned".                          *)
MarkersInTree ==
    ast \o current.pre \o lexer.buffer = At(IF parsed THEN offsets ELSE lexer.recorded)
=============================================================================

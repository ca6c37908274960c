--------------------------- MODULE IndentedString ---------------------------
(***************************************************************************)
(* A string, read, printed and read again: scanning and interpolations,    *)
(* stripping of the common indentation, and indented strings that become   *)
(* simple ones (src/parser/strings.rs), and their emission                 *)
(* (src/format/string.rs).                                                 *)
(*                                                                         *)
(* A text is a list of lines, a line a sequence of characters.  "b" stands *)
(* for a pair of braces and what is in it: an interpolation behind "$",    *)
(* text behind anything else.  "q" is the double quote.                    *)
(***************************************************************************)
EXTENDS Naturals, SequencesExt

CONSTANTS Sources,   \* sets of the strings in the source: [kind, lines]
          Outer,     \* the indentation of the line a string begins on
          Width,     \* `Options::indent`
          MaxPasses  \* bound on the times a string is read or printed

ASSUME StringAssumption == Outer \in Nat /\ Width \in Nat /\ MaxPasses \in Nat

ASSUME SourcesAssumption == \A s \in Sources :
    /\ s.kind \in {"simple", "indented"}
    /\ \A lines \in s.lines : lines \in Seq(Seq(STRING)) /\ lines # <<>>

(* The characters that matter. *)
Blank       == " "
Apostrophe  == "'"
Dollar      == "$"
Backslash   == "\\"
DoubleQuote == "q"
Braces      == "b"

Spaces(n) == [i \in 1..n |-> Blank]
IsOnlySpaces(text) == ToSet(text) \subseteq {Blank}
LeadingSpaces(text) ==
    CHOOSE n \in 0..Len(text) : /\ IsOnlySpaces(SubSeq(text, 1, n))
                                /\ n < Len(text) => text[n + 1] # Blank
WithoutPrefix(text, n) == SubSeq(text, n + 1, Len(text))

-----------------------------------------------------------------------------
(* Scanning.                                                               *)

Close         == <<Apostrophe, Apostrophe>>
Interpolation == <<Dollar, Braces>>

Shorter(m, n) == IF m <= n THEN m ELSE n

(* The number of characters an arm of `parse_indented_string_part` takes of  *)
(* the rest of the line.                                                    *)
IndentedStep(rest) ==
    IF IsPrefix(<<Apostrophe, Apostrophe, Backslash>>, rest) THEN Shorter(4, Len(rest))
    ELSE IF \E c \in {Dollar, Apostrophe} : IsPrefix(<<Apostrophe, Apostrophe, c>>, rest) THEN 3
    ELSE IF \E s \in {Close, Interpolation, <<Dollar, Dollar>>} : IsPrefix(s, rest) THEN 2
    ELSE 1

(* ... and one of `parse_simple_string_part`. *)
SimpleStep(rest) ==
    IF rest[1] = Backslash THEN Shorter(2, Len(rest))
    ELSE IF \E s \in {Interpolation, <<Dollar, Dollar>>} : IsPrefix(s, rest) THEN 2
    ELSE 1

ScanStep(kind, rest) == IF kind = "indented" THEN IndentedStep(rest) ELSE SimpleStep(rest)

(* A line as the scanner takes it apart. *)
Tokens(kind, line) ==
    LET from[i \in 1..(Len(line) + 1)] ==
            IF i > Len(line) THEN <<>>
            ELSE LET rest == WithoutPrefix(line, i - 1)
                     n    == ScanStep(kind, rest)
                 IN  <<SubSeq(rest, 1, n)>> \o from[i + n]
    IN from[1]

Terminator(kind) == IF kind = "indented" THEN Close ELSE <<DoubleQuote>>

(* The string ends where it is meant to.                                    *)
Legal(kind, lines) ==
    /\ \A i \in DOMAIN lines : Terminator(kind) \notin ToSet(Tokens(kind, lines[i]))
    /\ LET toks == Tokens(kind, Last(lines) \o Terminator(kind))
       IN  Last(toks) = Terminator(kind) /\ Terminator(kind) \notin ToSet(Front(toks))

(* `StringPart` *)
TextPart(t) == [interp |-> FALSE, text |-> t]
Part(token) == [interp |-> token = Interpolation, text |-> token]

(* Text runs are one part, up to the next interpolation.                    *)
Parts(kind, line) ==
    LET add(acc, token) ==
            IF acc # <<>> /\ ~Last(acc).interp /\ token # Interpolation
            THEN Append(Front(acc), TextPart(Last(acc).text \o token)) ELSE Append(acc, Part(token))
    IN FoldLeft(add, <<>>, Tokens(kind, line))

Chars(parts) == FlattenSeq([i \in DOMAIN parts |-> parts[i].text])

-----------------------------------------------------------------------------
(* `process_indented`                                                      *)

IsTextOnly(line) == Len(line) = 1 /\ ~line[1].interp
IsBlank(line)    == IsTextOnly(line) /\ IsOnlySpaces(line[1].text)
IsEmptyLine(line) == line = <<>> \/ IsBlank(line)

RemoveEmptyFirstLine(lines) == IF IsEmptyLine(lines[1]) /\ Len(lines) > 1 THEN Tail(lines) ELSE lines

RemoveEmptyLastLine(lines) ==
    IF lines # <<>> /\ IsEmptyLine(Last(lines)) THEN Append(Front(lines), <<>>) ELSE lines

(* Mutant of HasPrefix: a blank line caps the indentation. *)
HasPrefixBlank(line) == line # <<>>

(* `line_prefix` is not None: "Whitespace-only lines are ignored".          *)
HasPrefix(line) == line # <<>> /\ ~IsBlank(line)

PrefixLength(line) == IF line[1].interp THEN 0 ELSE LeadingSpaces(line[1].text)

(* `strip_prefix_from_line` *)
StripPrefix(n, line) ==
    IF line = <<>> \/ n = 0 \/ line[1].interp THEN line
    ELSE IF LeadingSpaces(line[1].text) >= n
         THEN [line EXCEPT ![1].text = WithoutPrefix(@, n)]
         ELSE IF IsBlank(line) THEN <<>> ELSE line

StripCommonIndentation(lines) ==
    LET prefixes == {PrefixLength(lines[i]) : i \in {j \in DOMAIN lines : HasPrefix(lines[j])}}
        common   == CHOOSE n \in prefixes : \A m \in prefixes : n <= m
    IN [i \in DOMAIN lines |-> IF prefixes = {} THEN <<>> ELSE StripPrefix(common, lines[i])]

(* `merge_adjacent_text`, where it drops a text that was stripped to nothing.*)
MergeAdjacentText(line) ==
    FlattenSeq([k \in DOMAIN line |-> IF line[k].text = <<>> THEN <<>> ELSE <<line[k]>>])

ProcessIndented(lines) ==
    LET stripped == StripCommonIndentation(RemoveEmptyLastLine(RemoveEmptyFirstLine(lines)))
    IN [i \in DOMAIN stripped |-> MergeAdjacentText(stripped[i])]

-----------------------------------------------------------------------------
(* `classify_indented_string`                                              *)

HasQuoteOrBackslash(part) == ~part.interp /\ ToSet(part.text) \cap {DoubleQuote, Backslash} # {}

ShouldBeSimple(lines) ==
    Len(lines) <= 1 /\ \A i \in DOMAIN lines : \A p \in ToSet(lines[i]) : ~HasQuoteOrBackslash(p)

(* Mutant of ConvertEscapes: the escape of a dollar sign is left alone. *)
ConvertQuotesOnly(text) ==
    LET from[i \in 1..(Len(text) + 1)] ==
            IF i > Len(text) THEN <<>>
            ELSE IF IsPrefix(<<Apostrophe, Apostrophe, Apostrophe>>, WithoutPrefix(text, i - 1))
                 THEN Close \o from[i + 3]
            ELSE <<text[i]>> \o from[i + 1]
    IN from[1]

ConvertEscapes(text) ==
    LET from[i \in 1..(Len(text) + 1)] ==
            IF i > Len(text) THEN <<>>
            ELSE LET rest == WithoutPrefix(text, i - 1) IN
                 IF IsPrefix(<<Apostrophe, Apostrophe, Dollar>>, rest) THEN <<Backslash, Dollar>> \o from[i + 3]
                 ELSE IF IsPrefix(<<Apostrophe, Apostrophe, Apostrophe>>, rest) THEN Close \o from[i + 3]
                 ELSE <<rest[1]>> \o from[i + 1]
    IN from[1]

Converted(part) == IF part.interp THEN part ELSE TextPart(ConvertEscapes(part.text))

Term(kind, lines) == [kind |-> kind, lines |-> lines]

Classified(lines) ==
    IF ShouldBeSimple(lines)
    THEN Term("simple", [i \in DOMAIN lines |-> [k \in DOMAIN lines[i] |-> Converted(lines[i][k])]])
    ELSE Term("indented", lines)

Parsed(text) ==
    LET lines == [i \in DOMAIN text.lines |-> Parts(text.kind, text.lines[i])]
    IN IF text.kind = "simple" THEN Term("simple", lines) ELSE Classified(ProcessIndented(lines))

-----------------------------------------------------------------------------
(* Emission.                                                               *)

(* A line of its own is indented unless it is empty. *)
IndentedLine(line) == IF line = <<>> THEN <<>> ELSE Spaces(Outer + Width) \o Chars(line)

(* Several lines begin behind a line break; closing quotes on a line of     *)
(* their own are not in the nest.                                           *)
PrintIndented(lines) ==
    IF Len(lines) = 1 THEN <<Chars(lines[1])>>
    ELSE LET printedLines == [i \in DOMAIN lines |-> IndentedLine(lines[i])]
         IN <<<<>>>> \o (IF Last(lines) = <<>> THEN Append(Front(printedLines), Spaces(Outer)) ELSE printedLines)

(* "Literal \n avoids the indentation that newline() would inject".         *)
PrintSimple(lines) == [i \in DOMAIN lines |-> Chars(lines[i])]

PrintedText(t) == Term(t.kind, IF t.kind = "simple" THEN PrintSimple(t.lines) ELSE PrintIndented(t.lines))

-----------------------------------------------------------------------------
VARIABLES source,   \* the string as it was given
          text,     \* the string as it stands in the text
          term,     \* `Term::SimpleString` or `Term::IndentedString`, in a sequence
          pass,     \* number of times it was read or printed
          printed   \* what was printed first, in a sequence

vars == <<source, text, term, pass, printed>>

Init ==
    /\ \E s \in Sources : \E lines \in s.lines : source = Term(s.kind, lines)
    /\ Legal(source.kind, source.lines)
    /\ text = source /\ term = <<>> /\ pass = 0 /\ printed = <<>>

Read ==
    /\ pass < MaxPasses /\ pass % 2 = 0
    /\ term' = <<Parsed(text)>>
    /\ pass' = pass + 1
    /\ UNCHANGED <<source, text, printed>>

PrintString ==
    /\ pass < MaxPasses /\ pass % 2 = 1
    /\ text' = PrintedText(term[1])
    /\ printed' = IF printed = <<>> THEN <<text'>> ELSE printed
    /\ pass' = pass + 1
    /\ UNCHANGED <<source, term>>

Next == Read \/ PrintString

Spec == Init /\ [][Next]_vars

-----------------------------------------------------------------------------
(* What a token means: its characters without escapes. *)
Meaning(kind, token) ==
    IF token = Interpolation THEN <<"interpolation">>
    ELSE IF kind = "simple" THEN IF token[1] = Backslash THEN Tail(token) ELSE token
    ELSE IF token = <<Apostrophe, Apostrophe, Apostrophe>> THEN Close
    ELSE IF Len(token) < 3 THEN token
    ELSE IF token[3] = Dollar THEN <<Dollar>> ELSE SubSeq(token, 4, Len(token))

(* The lines of an indented string that Nix sees: without the first one if  *)
(* it is blank, the last one emptied if it is blank, and without the spaces *)
(* all lines that are not blank begin with.                                 *)
NixLines(lines) ==
    LET kept   == IF Len(lines) > 1 /\ IsOnlySpaces(lines[1]) THEN Tail(lines) ELSE lines
        filled == {i \in DOMAIN kept : ~IsOnlySpaces(kept[i])}
        strips(n) == \A i \in filled : LeadingSpaces(kept[i]) >= n
        line(i) == IF i = Len(kept) /\ i \notin filled THEN <<>>
                   ELSE WithoutPrefix(kept[i], CHOOSE n \in 0..LeadingSpaces(kept[i]) :
                           strips(n) /\ \A m \in (n + 1)..LeadingSpaces(kept[i]) : ~strips(m))
    IN [i \in DOMAIN kept |-> line(i)]

(* The value of a string. *)
Value(t) ==
    LET lines == IF t.kind = "simple" THEN t.lines ELSE NixLines(t.lines)
        meaning(line) == LET toks == Tokens(t.kind, line)
                         IN FlattenSeq([k \in DOMAIN toks |-> Meaning(t.kind, toks[k])])
    IN [i \in DOMAIN lines |-> meaning(lines[i])]

(* Formatting does not change what a string means, whatever its blank       *)
(* lines, indentation and escapes, and whichever kind it is printed as; and *)
(* it ends where it did: no quote, escape or dollar sign of its text meets  *)
(* its delimiters or starts an interpolation.                               *)
ValueKept == Legal(text.kind, text.lines) /\ Value(text) = Value(source)

(* The string that was printed first is what is printed ever after: lines   *)
(* do not move further in with every pass.                                  *)
Idempotent == printed # <<>> /\ pass % 2 = 0 => <<text>> = printed
=============================================================================

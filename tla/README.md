# Specifications of nixfmt-rs

TLA+ models of the formatter in `src/`, model-checked with TLC and, where noted,
proved with TLAPS. Paths below are relative to the repository; line numbers are
in `PROJECT.json` (`map`).

## 1. Inventory

    text ── lexer ──► tokens + trivia ── parser ──► AST ── emitters ──► Doc ── fixup ──► Doc ── layout ──► text
              │                            ▲  save/restore                                        ▲
              └── directive markers ───────┴── take_directive_regions ── list of actions ─────────┘
    main.rs: walks paths in threads, reads, formats, writes in place; `--mergetool`

| Component | State | Operations | Interacts with | What is hard | What makes it correct |
|---|---|---|---|---|---|
| Scanner (`lexer/scan.rs`, `numbers.rs`, `parser/path_uri.rs`) | cursor, one token ahead | tokens; paths and URIs read as characters behind a token the lexer already consumed | parser | whether a path, a URI or an operator begins is asked in several places, with the cursor behind white space | what is printed is read as what was read; no character lost |
| Lexer (`src/lexer/mod.rs`) | cursor, trivia buffer, start of the last trivia, recorded markers, `${}` depth | `lexeme`, `parse_trivia`, `save_state`/`restore_state`, `rewind_trivia`, `enter_interp`/`exit_interp` | called by the parser, one token ahead of it | trivia is read before the parser knows whether the token ends an interpolation; deferral, re-sync, rewind, backtracking | each marker is recorded once, in order, with its real depth; no trivia is lost |
| Trivia conversion (`lexer/trivia.rs`, `comments.rs`) | none (pure) | classify as trailing or leading, normalise comments | lexer | reading the formatter's own output gives the same class | round trip |
| Directive pairing (`Lexer::take_directive_regions`) | markers, open disable, actions | one loop | its result is replayed by the renderer by index only | unbalanced and nested markers, depths | regions do not overlap, both ends at one depth |
| Parser (`src/parser`) | current token, recursion depth, lexer | recursive descent, one real backtracking point (`{`), precedence climbing | lexer, AST | speculation, lookahead, restructuring of `+`, `or` as name and keyword | what is accepted is a legal tree with all its tokens, and every legal tree is read |
| AST (`src/ast`) | none (data) | the first token of a node, moving comments between tokens, questions of shape (`is_simple`, `is_absorbable`) | parser, emitters | spans of the source are kept and asked for | |
| Emitters (`src/format`) | none (they write a Doc) | one `Emit` per node, builder calls in nested closures; comments are moved from token to token first | AST, Doc builder | closures nest groups, nests and comments in any order; some decisions are taken from the lines of the source | tokens and comments survive, and what is printed is formatted to itself |
| Doc builder (`src/doc/builder.rs`) | the Doc, open groups and nests | push text, spacing, group, nest, trivia | emitters, fixup | | |
| Fixup (`doc/render/fixup.rs`) | none (one pass) | merge, join, lift, dissolve | builder, layout | order of merging and lifting | text, separation and indentation preserved, groups soft |
| Measuring (`doc/render/fits.rs`) | none | `fits`, `first_line_width`, `first_line_fits` | layout | looks ahead across groups that are not laid out yet | flat lines fit |
| Layout (`doc/render/layout.rs`) | output, column, indentation stack, directive index, suppression | render texts, spacings, groups; try Priority children and roll back | fixup, directives | trials nested in trials; five pieces of state rolled back together | each text once, forced breaks exact, width respected, ends |
| Command line (`main.rs`) | files, exit status | walk with threads, format in place, check, mergetool | file system, git | overlapping arguments, failures half way | files end up formatted or untouched; status tells |
| Diagnostics, dumps, normaliser, wasm, fuzz targets, web | none | printing, thin callers | all | | not modelled |

The hazards of this code, each at its line, are in `PROJECT.json` (`hazards`).

## 2. Modules

`Spacing` and `Doc` are the vocabulary; `Fixup`, `Measure` and `Walks` are the pure passes;
the rest are state machines. MC modules only give constants. A state machine does not name a recursive
operator: what it asks of one is a constant of it (`FixedUp`, `LineFits`, `Reading`, ...), which the
configurations give to the definition (`FixedUp <- FixupDoc`), so that the machine can be proved about.

| Module | Models | State and steps |
|---|---|---|
| `Spacing` | `Spacing::merge` and its users | a spacing is a number in rank order, `Newlines(n)` the numbers behind the names |
| `Doc` | `Elem`, slices read as one chain | records; a text is a sequence of letters, each one column wide, so that every letter can be found again in the output |
| `Fixup` | `fixup_mut`, `simplify_group`, `lift_bounds` | operators, one per branch; also the leaves of a document and the bodies of its groups |
| `DocBuilder` | builder calls of the emitters, then fixup | `doc` is the Doc, `frames` the closures under way; one action per builder function; `Finish` runs fixup as `layout_greedy` does |
| `Measure` | `fits_impl`, `first_line_width` | folds over the leaves of a chain (`LeavesOf`) |
| `Walks` | `first_line_fits`, `next_indent`, `priority_groups`, the leading spacing of a group | operators that recurse into groups: the questions the engine asks of a document before it lays it out |
| `Renderer` | `layout_greedy`, `render_doc`, `render_group` | the call stack is explicit (`stack` of Doc and trial frames), each element rendered is a step, each trial begins, is rejected, succeeds or fails as a step |
| `RenderState` | the part of the renderer that checkpoints and rolls back | abstract promise: output only grows between checkpoint and rollback, markers are consumed in order, nothing is written while suppressed; `Renderer` implements it (`KeepsPromises`) |
| `DirectivePairing` | `take_directive_regions` | one step per marker, one at the end |
| `Directives` | lexer lookahead and the parser actions that change how trivia is read | `lexer` is the lexer's record, `current` the parser's token, `stack` the constructs under way; one action per parser function; then `DirectivePairing` runs on what was recorded (it is extended, not copied) |
| `Grammar` | the recursive descent of `src/parser` on tokens | one operator per function, from a place to trees and the place behind them; a function that only puts together what others read is a list of symbols; `{` is read as formals and, if that gives way, again as bindings |
| `LegalSyntax` | the grammar, as a property of trees | which trees need no further parentheses, from the operator table and the classes of operands: says nothing of how the parser reads them |
| `Sentences` | the parser against that grammar | a sentence grows by one token as long as the parser has not stopped inside it (`AddToken`); a tree grows by one construct and is written out, the comma behind its last formals there or not (`AddConstruct`) |
| `Lexemes` | `scan.rs`, `numbers.rs`, `path_uri.rs`, and where `term.rs` and `operators.rs` ask for characters; a text read, printed, read again | operators from a text to a flat list of items; and what the emitters put between items. `text`, `items`, `first`; `ReadText` and `PrintItems` alternate |
| `TriviaSplit` | `is_trailing`, `convert_trailing`, `convert_leading`, `convert_trivia`; the lines of a block comment: stars and indentation removed, printed | operators, one per function; a line is its indentation, a star with a gap, a text; an item is what lies between two tokens as the lexer reads it, a piece is what the tree keeps |
| `Trivia` | what lies between two tokens: normalised, split, printed, read again | `raw` is what the lexer reads, `result` the split, `Read` and `PrintTrivia` alternate; only columns and classes of items are kept, a text is a list of words; block comments are those of `TriviaSplit` |
| `IndentedString` | strings of both kinds: scanned, stripped, reclassified, printed, read again | `text` is the string in the source, `term` what is parsed from it, `Read` and `PrintString` alternate; a text is a sequence of the letters the code tells apart, an interpolation is one of them |
| `Syntax` | the AST and what the emitters ask of it | a tree is a record of a tag and the nodes below it, a leaf has a number `k`; the trivia and lines of the leaves are a function `a` of their numbers, so that moving a comment is an EXCEPT; also the table of operators, their precedence and side |
| `Emitter` | `src/format`: one operator per `emit_*` and `absorb_*` function | operators from `a` and a tree to a Doc; `Emit(a, Bare(..))`, `Rhs`, `Call` and the like name another function than `emit` for a node; a token is a text of as many letters `k` as it is wide |
| `Formatter` | `format_with`, twice | `Read` finds the leaves in the text again, classifies what lies between them (`TriviaSplit`) and emits (`Emitted`, given `EmitFile` of `Emitter`); `Layout` is the steps of `Renderer` on the result of `Fixup`; `Write` makes the output the text of the second pass. A text is a sequence of cells: a letter per leaf, blanks, line feeds, `#`, `/*`, words, markers. The renderer writes a cell for a disabled region, `Written` puts the lines of the source there |
| `Walker` | `walk_and_process`, `process_path`, `process`, `try_format` | `thread` holds the program counter and the source of each walker thread; reading, truncating and writing are separate steps |
| `Mergetool` | `run_mergetool` | `pc` is the step; each step has an action for its failure; `process_path` is one step. `merging` and `outcome` remember what git was given and what it left in LOCAL, for the properties only |

## 3. Runs

Every pass run is exhaustive for its constants.

| Run | Question | Bounds and why they are enough |
|---|---|---|
| `builder` | does any order of builder calls survive fixup? | four calls, closures nested two deep, one letter per text: a lift needs a group, a neighbour and one element inside; a dissolve one group more |
| `layout` | does the layout of nested, prioritised, commented and marked documents keep its promises? | width 5, indent 2, documents of up to three levels: each of the three ways to lay out a group, accepted and rejected, with text before and behind |
| `render_state` | do checkpoints survive any interleaving of writing, trials and markers? | two cells, one marker, two nested trials: a rollback inside a trial that is rolled back |
| `directives` | are markers recorded and placed correctly whatever the lexer defers, rewinds or restores? | eight sources with each construct, alone and in another one, two markers in every pair of gaps and in string text: two regions, or one with an inert marker; the actions of the pairing loop are those of `DirectivePairing` |
| `grammar` | is what the parser accepts the language of the grammar, and the tree the one that was meant? | ten sets of words, each about one subject (formals and braces, selections and `or`, bindings, `inherit`, operators, keywords, interpolated selectors), sentences of up to 7 to 9 tokens: long enough for `{ a, a } @ a :`; the other way round every tree of two constructs of 44 kinds around six seeds: every pair of constructs, on either side of each other |
| `lexemes` | do characters become the same items when what is printed is read again? | every text of up to seven characters over seven alphabets (paths, operators, homes, lambdas with URIs, search paths, numbers, other operators): two items with something between them and on both sides; two passes |
| `trivia` | do comments keep class, words, blank lines and place when formatted twice? | up to four items of eleven kinds between two tokens, four kinds of token in front, both indentations, two columns; a block comment alone of up to three lines of any indentation up to 4, with and without star; four passes: a second cycle must repeat the first |
| `strings` | do strings keep their value and become stable? | a line of up to five of the six characters the code tells apart, two lines of up to two, up to four lines of thirteen kinds; four passes |
| `formatter` | does formatting keep tokens and comments, and is formatting its own output the identity? | width 12, indent 2: 23 trees that between them have every kind of expression, binder and parameter and every shape the emitters single out; per tree every source with one comment, line break, blank line or annotation in front of any token, or comments in front of two tokens up to three apart, but for a comment behind the colon of a lambda, on its line (`Movable`, see below) and for parameter sets wider than their line (`WideParams`): the moves of comments reach over two tokens. Also every source with a disabled region between any two tokens, an unclosed one, a lone `enable` or a marker inside a line, but for markers in front of a parameter's comma (`Carried`). 7046 sources, two passes |
| `walker` | what becomes of files and status when threads share files and operations fail? | two threads, two files, one twice or an argument missing; every content, mode and permission |
| `mergetool` | what becomes of MERGED and status when a step fails? | every combination of four files, modes and failures, two conflicts |

Deadlock is checked in `layout`, `render_state`, `directives`, `formatter` and `walker`: the renderer, the
lexer, the formatter and the walker never stop without a result. The others do stop, with a
result or at their bound.

One run shows what the code does otherwise than its documentation says (`findings`): `uri_space`.
`looks_like_uri` compares the character behind the cursor, which is behind the white space that follows
the identifier: `a :a`, a function, is read as the URI `a:a`, a string. The alphabets of `lexemes` have
no colon behind white space (`SpacedColon`).

Five more configurations have a counterexample each and belong to cases the runs above leave out by name:

| Configuration | Shows |
|---|---|
| `SoftbreakWidth.cfg` (`MCRenderer`, `WidthLeftAtSoftbreak`) | `layout.rs:260`: `target_width - col` underflows at a Softbreak behind a term wider than the line |
| `LambdaComment.cfg` (`MCFormatter`, `Idempotent`) | `format/stmt.rs:26` asks whether the body of a lambda begins on the line of the colon in the source. A comment behind the colon does not change the answer, but it is printed up to the end of the line and moves the body to the next one: the second pass takes the other branch (`Movable` keeps such comments out of `formatter`) |
| `WideParams.cfg` (`MCFormatter`, `Idempotent`) | `format/params.rs:173` keeps a parameter set flat if its braces are on one line of the source, even where it no longer fits: the first pass breaks the line, the second breaks the set |
| `DroppedMarker.cfg` (`MCDirectives`, `MarkersInTree`) | `parser/parameters.rs:109`: the comma behind `...` is skipped with `advance`, which drops the trivia in front of it; a marker there is recorded and is not in the tree (`src/lexer/mod.rs:122` "stay aligned") |
| `MovedMarker.cfg` (`MCFormatter`, `TokensKept`) | `format/params.rs:136`: trivia in front of a comma is carried to the next parameter, markers too. With the markers on lines of their own, in `{ /*disable*/ a /*enable*/ , b }` the comma is printed inside the region and so not at all, in `{ a /*disable*/ , b }` it is printed in front of the region and again in it: the output is no longer Nix (`README.md:92` "keep it verbatim"; `properties.rs:6` "AST preservation") |

Other deviations met while modelling; where a property meets one, its definition
names the case it spares:

| Code | What it does | What is said of it |
|---|---|---|
| `src/lexer/mod.rs:139` | an unclosed disable inside a `${}` keeps `open` occupied: a complete pair behind it is inert | `README.md:92` "Wrap a region in ..." |
| `src/lexer/mod.rs:141` | markers in sibling `${}` have one depth and form a region | `src/lexer/mod.rs:14` "a region that would escape its `${}`" is inert |
| `src/parser/operators.rs:138` | only the last `+` of a chain is turned: `a + ((b + c) + d)` | `:127` "restructures it to right-associative"; the tree `grammar` expects of a chain is that of the code (`Chain` of `LegalSyntax`) |
| `src/parser/operators.rs:200` | prefix `!` binds tighter than every binary operator: `!a + b` is `(!a) + b` | the same line: "would be at precedence 11 ... but it's handled separately" |
| `src/parser/operators.rs:23` | `1/a` is an application of `1` to `/a`, printed `1 /a` | `src/parser/path_uri.rs` "a/b" (path) vs "a / b" (division) |
| `src/parser/parameters.rs:147` | without a comma in front of it `...` is rejected as well | the same line: "only `}` or `...` may follow" |
| `src/lexer/numbers.rs:34` | `01.` is the number `01` and a dot, `1.` is a number | `:34` "Allow trailing '.' for numbers starting with non-zero digit" |
| `src/parser/operators.rs:124` | right-associative chains recurse without `nested` | `src/parser/mod.rs:26` "Bounded" |
| `src/main.rs:219` | a second thread on the same file may read it while it is truncated, and the status is 1 | `docs/nixfmt.1.scd:93`; `StatusTells` spares overlapping arguments |
| `src/main.rs:398` | two conflicts end with status 1 | `docs/nixfmt.1.scd:101` "the exit status is the exit code of git merge-file" |
| `src/main.rs:383` | exit code 255 of git merge-file, an error, is taken for conflicts and LOCAL is moved | `docs/nixfmt.1.scd:39` |
| `src/doc/render/layout.rs:228` | the shift of a trailing comment is tied to column 2: with `--indent 4` a comment behind three characters is read as leading the second time | `:224`; `Idempotent` of `Trivia` is checked with the default width |
| `src/lexer/trivia.rs:138` | a comment behind a multi-line string and one below it at its column form a block although `prev_multiline` is set | `:96`; spared by `BlockBehindString` |

Fairness is assumed in `walker` only, weak fairness of each thread: the operating
system schedules every thread, and the reads and writes of a thread return or
fail. The other programs are sequential and deterministic once their input is
chosen. That the layout ends is a bound on its steps
(`TrialsEnd`, proved as `LayoutEnds`) together with the absence of deadlock.

## 4. Proofs

| Module | Theorems | Argument |
|---|---|---|
| `Trivia_proofs`, beginning | `MergeCommutes`, `MergeKeepsForcedBreaks`, `MergeAddsLineFeeds`, `NamedMergeAssociates` | case analysis over the two spacings; the doc comment calls merging a maximum, which holds for forced breaks and not for line counts: these add up where one side is a Newlines |
| `Trivia_proofs` | `TriviaHolds`, `WordsAreKept`, `PrintedStaysLegal` | see below |
| `RenderState_proofs` | `Invariance`, `IndentStackSafe`, `RollbackExact` | the inductive invariant `IInv` adds to the properties that checkpoints nest and that each saved indentation stack is well formed: without it a rollback could bring back a bad stack. From `IndentAssumption` only |
| `Induction` | none of its own: lemmas on recursion (`RecursionExists`) and principles of induction | the library's induction theorems take a predicate, which the provers cannot instantiate; its theorem on least elements (`WFMin`) takes a set. From it: a set that holds 1 and is closed under successor holds an interval (`IntervalInd`), and a function given by a first value and a step exists. A recursive function of a module is such a function, so its unfolding can be proved |
| `Renderer_proofs` | `EngineKeepsPromises`, `EachTextOnce`, `RegionsSilent`, `LayoutEnds` | see below |
| `Directives_proofs` | `DirectivesInvariant`, `RecordedReal`, `RegionsOfFiles`, `MarkersKept` | see below |
| `Directives_proofs`, beginning | `PairingInvariant`, `RegionsSafe` | `PInv`; `RegionsWellFormed` alone is not inductive: a close must not overwrite older decisions. `OpenIsPending` adds that nothing is decided from the open disable on. For every sequence of markers with natural depths (`PairInit`), no assumption |
| `IndentedString_proofs` | `ValuesAreKept`, `StringsSettle` | see below |
| `Walker_proofs` | `WalkerInvariant`, `WalkerTyped`, `StaleOnly` | for any number of threads and files. `OnlyStaleTouched` needs to know what a thread has read: `IInv` adds that files not to be written are as they were (`Untouched`), that a thread that has read such a file holds what it held (`HeldSource`), and that only files to be written have a writer. From `FormatterAssumption` |
| `Walker_proofs`, second half | `FilesEndDone`, `StatusExact` | every step is reduced to what it does to one thread (`Shape`), then three invariants on top of `IInv`. `Alone`: when no file is given twice, a thread's file has no other thread and no entry. `Course`: a file to be written holds what it held, nothing, its output, or its output formatted once more (`KnownFiles`, `KnownSources`); one that is empty has a writer or is lost (`EmptyPending`); one that still holds what it held has an entry or a thread to come (`RawPending`). `StatusSoFar`: the status speaks of every entry handed out and not worked on |
| `Mergetool_proofs` | `MergetoolInvariant`, `GitSeesFormatted`, `NoVersionSkipped`, `ZeroIsResolved`, `MergedSafe` | by program counter: versions not reached are as given, versions behind are formatted or the status says so, LOCAL between merge and rename is what git left (`outcome`), then that formatted (`LocalIsResult`). `Processed`, what `process_path` does to one file, is used through its cases only |

**Directives.** `RecordedAreReal` compares the record of the lexer with `TrueMarkers`, a function of the source
alone, and is far from inductive: the lexer counts `${}` by the calls of the parser, and reads trivia one token
ahead of it. The invariant `DInv` says where the parser is. While it holds a token there is a position `c` with
that token whose `Context`, the constructs open there according to the source, is the shape of the parser's
stack (`StandsAt`), and what the lexer has read behind `c` depends on whether the token defers its trivia
(`ReadBehind`); while it reads string content, the lexer stands where the context ends in raw text
(`InString`). States saved with formals are such states of the stack below them (`SavedAreReal`), so a backtrack
leads to one. The proof has four parts: unfolding `Context` and `TrueMarkers` and their behaviour over a run of
markers (`ContextOverRun`, `MarkersOverRun`); what each function of the lexer does in a faithful state
(`LexemeReal`); one lemma per action of the parser (`PlainKeeps` ... `CloseStringKeeps`); the end, where the
offsets taken are the true markers in order, so that `PInv`, proved of the pairing loop on any growing sequence, applies.
`MarkersKept` adds that tree, current token and trivia buffer hold, joined in this order, the positions of the record
(`InTree`), in the saved states too (`TreeInv`). Its premise `CommasFollow`, no marker between `...` and a comma behind
it, is needed: `DroppedMarker.cfg` is a source without it. All of `DirectivesInvariant`, `RecordedReal` and `RegionsOfFiles`
is for every set of sources (`SourcesAssumption`: sequences of lexemes) and every length. TLC checked `DInv` and `TreeInv` on
the sources of `directives` first. Tokens with punctuation have names in the proofs (`lbrace`, `rbrace`, `dollar`): the SMT
encoding fails on such strings.

**Layout engine.** `EngineKeepsPromises` is the refinement `Renderer => RenderState`: each step of the engine, a
whole text with its blanks and shifts or a rolled back trial, is a step of the abstract promise or a stutter. Its
invariant `LInv` types the frames of the call stack (`Frames`), says that only the innermost frame is at work and every
trial below it has begun a candidate (`StackOf`), and that the checkpoints nest with lengths that do not exceed the output
(`MarksOK`); one lemma per action shows that the step keeps it and is allowed by the promise. The walks over documents, which recurse into groups, are
constants of `Renderer`; the theorem holds for all walks and documents for which there is a set `E` of elements closed under what the
walks return (`Setting`, `Laid`): the set of all elements is one, and on the documents of `layout` TLC finds the finite
one (`WalksAssumption` of `MCRenderer`). The width probes `Fits` and `FirstLineWidth` are part of the proof.
`EachTextOnce` is `DemandedExactlyOnce` in the same generality. Its invariant `DemandInv` says what the frames still owe
(`Owed`): a document frame shows the leaves it has not rendered, a trial the part behind its Priority child or its whole body
(`Remaining`), and the state read so far, continued through the frames from the innermost out, is the state the whole document leads
to. A rollback is harmless because of `TrialOwes`: reading the body from what was shown at the checkpoint leads to the same state as
going on, so whichever way a trial ends the frames below owe the same. That what a probe writes is what reading its leaves demands
is `FitsInk`, by induction over the leaves; `Ink` of a concatenation, `Read` of one and of trimmed output are lemmas of their own. The premise
`Suits` adds to `Setting` that the walks keep the texts (`WalksKeepTexts`: leaves are in reading order, only leading spacings are dropped,
a candidate cuts the body in three) and that the letters of Trailing texts are theirs alone (`Lettered`, which is how the model writes
texts). That the recursive walks are like this for every document is not proved: `WalksAssumption` has TLC check it for all parts of the documents of `layout`.
`RegionsSilent` is `SilentInRegion`: output is dropped exactly while a region is open, and the verbatim text of the region is the end of
the output as long. Its invariant adds `SavedOutside`: no trial starts while output is dropped, so none rolls back into a region, although a
Priority child may leave one open for the part behind it.
`LayoutEnds` is `TrialsEnd`. The bound is computed from the numbers of the elements, which are a recursive function over groups, so
`CostExists` first shows that they exist: computed over and over they settle level by level (`Nests` gives each element a depth below
that of the group it is in). Then `CountInv`: the steps taken, those the frames of the stack still owe (`FrameSteps`) and the one that ends
never exceed the bound. A step pays for itself: a group counts for more than the frame of what is in it, a candidate for its Priority
child, for the part behind and for being rejected, and a trial for its whole body, rendered when all candidates have lost. That groups
nest finitely (`Bounded`) is the one premise on top of `Setting`; `WalksAssumption` checks it too.

**Trivia.** `WordsKept` compares what was given with what the lexer made of it any number of passes later, and is not inductive:
it says nothing of the columns and lines a comment is read at, and what is printed can only be read back if it is legal.
`IInv` adds the types (`Typed`: a block comment has lines and no text, only a run of newlines has a number), that what is between the
tokens is legal (`PrintedIsLegal`) and that an annotation is the last of the leading trivia (`SplitWell`): printed anywhere else it would
come back as the comment it looks like. The words of a sequence of items are a fold (`Told`), so each function gets a lemma that it
leads to the same words, by induction over the items. `RawTriviaKeeps`: trimming, dropping lines, removing stars and
indentation keep the words of a block comment. `LexemeKeeps`: so does the split, on either of the lexer's two paths. `ConvertLeading` merges the
two runs of newlines around a block comment and keeps the state of the fold up to one line feed (`LeadFolds`). `PrintedAgain`: what `Merged` and `Relexed` make of
the elements is described by what has been read so far and the spacing not read yet (`Renders`, `Shows`), and each piece keeps that description. From
`SourcesAssumption` (the items are well formed, a spacing in front of a token is a blank or a line feed) and `TriviaAssumption`;
the widths, the columns, the words and the number of passes are arbitrary.
TLC checked `IInv` on the 900143 states of `trivia` first. That the output is stable (`Idempotent`) and that lines keep
their relative indentation is only model-checked.

**Strings.** Both properties of `IndentedString` follow from `RoundTrip`: what is printed of a legal text is a legal text, has its value and is
printed as it is. The scanners and `ConvertEscapes` are recursive functions over the positions of a line; `ScanUnfold` says of any such scan that
it takes a first piece and then is the scan of the rest, so that lines can be reasoned about token by token (`TokensUnfold`, `ConvertUnfold`), by
induction over their length. Stripping, in three steps: the parts of a line behind spaces are the parts of the line with the spaces
added to the first text (`PartsShifted`), so stripping parts strips the line (`StripLine`); hence `process_indented` takes off what
Nix takes off (`ProcessIs`: its lines are those of `NixLines`, which is defined on characters); and lines with nothing left to
take off are what is found when they are printed, indented and read again (`Reprinted`), because their first column is at the common indentation
(`Settled`). Spaces in front move no token, so the printed string is legal (`MovedLines`). Reclassification: in a line with neither double quotes nor
backslashes the tokens are five (`TokenCases`); each is converted without regard to what is behind it (`ConvertToken`) and the
result is read by the other scanner as a token or two of the same meaning (`RenderToken`). A lone `$` or `'` needs to know the
character behind it, which conversion may change into a backslash and into nothing else (`StartsAs`). From `StringAssumption` and
`SourcesAssumption`: the strings are lines of any characters, at least one line. Tokens and characters have names,
which only `Characters` and the definitions of tokens expand.

One theorem has a premise about the formatter, which is a constant of these modules, and which the run
`formatter` supports rather than proves: `FilesEndDone` that formatting an output a second time settles it
(`Settles`; a file given three times may otherwise change three times). The values the runs of `walker` and
`mergetool` give to the constants satisfy it and include an output that is not stable. `MergedSafe` and `ZeroIsResolved`
need no premise: that what the formatter prints parses is nothing they say.

Only model-checked, and why:

- that the walk ends: liveness;
- everything about `Fixup`, `DocBuilder`, `Walks`, `Emitter`, `Formatter`, `Grammar`, `Sentences` and `Lexemes`, which are recursive
  over documents, trees and texts: the prover has no backend for a module that reaches RECURSIVE operators;
- `FlatLinesFit`, `HardBreaksExact` and `IndentationFollowsNesting` of `Renderer`: they hold of the documents the emitters
  build and not of every document, so a theorem would need what the recursive emitters guarantee as its premise;
- `RelativeIndentKept` and `Idempotent` of `Trivia`: they need the columns of every line of a comment through two readings,
  where the words, which are proved, need only their order.

## 5. Not modelled

- Messages, dumps, the normaliser for comparing trees, bindings, fuzz targets: they print what they are given
  and keep no state. Two places that looked odd while reading: `visual_span` (`src/error/format.rs:185`)
  takes as many characters as the span has bytes, and `src/parser/parameters.rs:192` reports an error at position 0.
- Text as text: identifiers are names from a small set, numbers have two digits in `Lexemes` and none elsewhere
  (overflow of 64 bits is not modelled), UTF-8 is not modelled.
- Strings with more than one interpolation; interpolated paths; in the emitters interpolated selectors too.
- Comments and markers in one source of `Formatter` (apart from markers that are no directives).
  `render_chain` is abstracted. The second backtracking
  point, `parse_postfix_selection`, only restores where the parse then fails, and is left out of `Directives`;
  it is in `Grammar` and `Lexemes`.
- Options in combination: `Walker` and `Mergetool` take one mode at a time, `--check` with `--verify` is not modelled.
- A file of `Walker` is one value, its old content, nothing or an output. Three or more overlapping writers, with outputs that
  differ, could leave a mixture of them in a real file; `walker` has two threads.
- The limit on nesting (`Parser::nested`), which needs inputs far beyond the bounds.
- `Formatter` finds the leaves of its tree in its output again instead of parsing it. `TokensKept` says
  that the text has the tokens of the tree in their order and none of them has fused with its neighbour;
  that such tokens are read as the same tree is what `grammar` shows (`LegalIsRead`).

## 6. Plan

1. Done: Doc pipeline, directives, the whole parser on tokens and its decisions on characters, trivia, strings, emitters
   and whole formatting, command line; proofs of the walker, the mergetool, the layout engine, the directives, the words of trivia and the strings.
2. Strings with several interpolations and interpolated selectors in `Emitter`.
3. Proofs: `Idempotent` of `Trivia`, from what `PrintedAgain` says of a second reading;
   `FlatLinesFit` of `Renderer`, under a premise on the documents yet to be found.

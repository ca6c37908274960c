---------------------------- MODULE Trivia_proofs ----------------------------
(***************************************************************************)
(* Whatever comments and blank lines stand between two tokens, and however *)
(* often they are read and printed: no word of a comment and no blank line *)
(* is lost, doubled or moved, and what is printed is legal.                *)
(***************************************************************************)
EXTENDS Trivia, Induction

-----------------------------------------------------------------------------
(* What is read and what is printed.                                        *)

AllTags     == SourceTags \cup {"EmptyLine"}
SourceItems == {x \in Items(SourceTags) : Formed(x)}
Pieces      == {x \in Items(AllTags \ {"Newlines"}) : Formed(x) /\ (x.tag = "EmptyLine" => x = EmptyLine)}
Results     == [trailing : Texts, leading : Seq(Pieces)]

-----------------------------------------------------------------------------
(* The laws of `Spacing::merge`, for every pair of spacings, however many    *)
(* lines a Newlines holds.  The normaliser and the width probes merge the    *)
(* same neighbours in different orders.                                     *)

(* The two match arguments are ordered first, so it does not matter which   *)
(* neighbour `merge` is called on.                                          *)
THEOREM MergeCommutes ==
    ASSUME NEW a \in Spacings, NEW b \in Spacings
    PROVE  Merge(a, b) = Merge(b, a)
<1>1. CASE a = b
  BY <1>1
<1>2. CASE a # b
  BY <1>2, SMT DEF Merge, Spacings
<1>3. QED BY <1>1, <1>2

(* Merging never yields a spacing of a lower rank than its arguments.       *)
LEMMA MergeGrows ==
    ASSUME NEW a \in Spacings, NEW b \in Spacings
    PROVE  Merge(a, b) \in Spacings /\ Merge(a, b) >= a /\ Merge(a, b) >= b
<1>1. ASSUME NEW lo \in Spacings, NEW hi \in Spacings, lo <= hi
      PROVE  MergeOrdered(lo, hi) \in Spacings /\ MergeOrdered(lo, hi) >= hi
  BY <1>1, SMT DEF MergeOrdered, Spacings, IsNewlines, Count, Newlines,
                   Softbreak, Break, Hardspace, Softspace, Space, Hardline, Emptyline
<1>2. CASE a <= b
  BY <1>1, <1>2, SMT DEF Merge, Spacings
<1>3. CASE b < a
  BY <1>1, <1>3, SMT DEF Merge, Spacings
<1>4. QED BY <1>2, <1>3, SMT DEF Spacings

(* A forced line break survives every merge: fixup may move a comment's     *)
(* hard line next to any spacing and the line still ends there.             *)
THEOREM MergeKeepsForcedBreaks ==
    ASSUME NEW a \in Spacings, NEW b \in Spacings, BreaksAlways(a) \/ BreaksAlways(b)
    PROVE  BreaksAlways(Merge(a, b))
<1>1. \A s \in Spacings : BreaksAlways(s) <=> s >= 5
  BY SMT DEF BreaksAlways, IsNewlines, Spacings, Hardline, Emptyline
<1>2. QED BY <1>1, MergeGrows, SMT DEF Spacings

(* How many lines a merged spacing breaks.  With a Newlines on either side   *)
(* the line feeds of both add up, and a soft spacing, which has none, counts *)
(* as one: fixup that lifts or merges such neighbours in another order may   *)
(* change the number of blank lines, and never loses one.  Named spacings    *)
(* break as many lines as the larger of the two.                             *)
THEOREM MergeAddsLineFeeds ==
    ASSUME NEW a \in Spacings, NEW b \in Spacings
    PROVE  LineFeeds(Merge(a, b)) =
             IF IsNewlines(a) \/ IsNewlines(b)
             THEN LineFeeds(a) + LineFeeds(b)
                  + (IF {a, b} \cap {Softbreak, Softspace} = {} THEN 0 ELSE 1)
             ELSE IF LineFeeds(a) >= LineFeeds(b) THEN LineFeeds(a) ELSE LineFeeds(b)
<1>1. ASSUME NEW lo \in Spacings, NEW hi \in Spacings, lo <= hi
      PROVE  LineFeeds(MergeOrdered(lo, hi)) =
               IF IsNewlines(hi)
               THEN LineFeeds(lo) + LineFeeds(hi) + (IF lo \in {Softbreak, Softspace} THEN 1 ELSE 0)
               ELSE IF LineFeeds(lo) >= LineFeeds(hi) THEN LineFeeds(lo) ELSE LineFeeds(hi)
  BY <1>1, SMTT(60) DEF MergeOrdered, LineFeeds, Spacings, IsNewlines, Count, Newlines,
                   Softbreak, Break, Hardspace, Softspace, Space, Hardline, Emptyline
<1>2. \A s \in Spacings : LineFeeds(s) \in Nat /\ (IsNewlines(s) => s \notin {Softbreak, Softspace})
  BY SMTT(60) DEF LineFeeds, Spacings, IsNewlines, Count, Newlines,
                   Softbreak, Break, Hardspace, Softspace, Space, Hardline, Emptyline
<1>3. \A x, y \in Spacings : x <= y /\ IsNewlines(x) => IsNewlines(y)
  BY SMT DEF IsNewlines, Spacings
<1>4. \A x, y : {x, y} \cap {Softbreak, Softspace} = {} <=> x \notin {Softbreak, Softspace} /\ y \notin {Softbreak, Softspace}
  OBVIOUS
<1>5. CASE a <= b
  BY <1>1, <1>2, <1>3, <1>4, <1>5, SMT DEF Merge
<1>6. CASE b < a
  BY <1>1, <1>2, <1>3, <1>4, <1>6, SMT DEF Merge, Spacings
<1>7. QED BY <1>5, <1>6, SMT DEF Spacings

(* The named spacings, those without a line count, may be merged in any     *)
(* grouping: fixup merges across group boundaries in another order than the *)
(* probes of fits.rs do.  (With Newlines this is false: Softbreak, Break    *)
(* and Newlines(1) give 2 or 3 lines.)                                      *)
THEOREM NamedMergeAssociates ==
    ASSUME NEW a \in 0..6, NEW b \in 0..6, NEW c \in 0..6
    PROVE  Merge(Merge(a, b), c) = Merge(a, Merge(b, c))
<1>1. \A x, y \in 0..6 :
        Merge(x, y) = IF {x, y} \in {{Break, Softspace}, {Break, Hardspace}} THEN Space
                      ELSE IF {x, y} = {Softbreak, Hardspace} THEN Softspace
                      ELSE IF x <= y THEN y ELSE x
  BY SMTT(60) DEF Merge, MergeOrdered, IsNewlines, Softbreak, Break, Hardspace, Softspace, Space,
                  Emptyline
<1>2. QED
  BY <1>1, SMTT(60) DEF Softbreak, Break, Hardspace, Softspace, Space

-----------------------------------------------------------------------------
(* The words of a text: its stars left out.                                 *)

Shown      == Nat \ {0}
WrittenMap == [w \in Nat |-> IF w = 0 THEN <<>> ELSE <<w>>]

LEMMA WrittenMapped ==
    /\ MapsInto(WrittenMap, Nat, Shown)
    /\ \A t \in Texts : Written(t) = Mapped(WrittenMap, t)
<1>1. MapsInto(WrittenMap, Nat, Shown)
  <2>1. ASSUME NEW w \in Nat PROVE (IF w = 0 THEN <<>> ELSE <<w>>) \in Seq(Shown)
    <3>1. CASE w = 0
      BY <3>1, EmptySeq
    <3>2. CASE w # 0
      <4>1. w \in Shown
        BY <3>2 DEF Shown
      <4>2. <<w>> \in Seq(Shown)
        BY <4>1
      <4>. QED BY <3>2, <4>2
    <3>. QED BY <3>1, <3>2
  <2>. QED BY <2>1 DEF MapsInto, WrittenMap
<1>2. ASSUME NEW t \in Texts PROVE Written(t) = Mapped(WrittenMap, t)
  <2>1. \A i \in DOMAIN t : t[i] \in Nat
    BY DEF Texts
  <2>2. [i \in DOMAIN t |-> IF t[i] = 0 THEN <<>> ELSE <<t[i]>>] = [i \in DOMAIN t |-> WrittenMap[t[i]]]
    BY <2>1 DEF WrittenMap
  <2>. QED BY <2>2 DEF Written, Mapped
<1>. QED BY <1>1, <1>2

LEMMA WrittenEmpty == Written(<<>>) = <<>>
<1>1. <<>> \in Texts
  BY EmptySeq DEF Texts
<1>. QED BY <1>1, WrittenMapped, MappedEmpty

LEMMA WrittenConcat ==
    ASSUME NEW a \in Texts, NEW b \in Texts
    PROVE  /\ a \o b \in Texts /\ Written(a) \in Seq(Shown)
           /\ Written(a \o b) = Written(a) \o Written(b)
<1>1. a \in Seq(Nat) /\ b \in Seq(Nat)
  BY DEF Texts
<1>2. a \o b \in Texts
  BY <1>1, ConcatProperties DEF Texts
<1>3. Mapped(WrittenMap, a) \in Seq(Shown)
  BY <1>1, WrittenMapped, MappedType
<1>4. Mapped(WrittenMap, a \o b) = Mapped(WrittenMap, a) \o Mapped(WrittenMap, b)
  BY <1>1, WrittenMapped, MappedConcat
<1>. QED BY <1>2, <1>3, <1>4, WrittenMapped

LEMMA WrittenType == ASSUME NEW a \in Texts PROVE Written(a) \in Seq(Shown)
  BY WrittenConcat

LEMMA WrittenStar == Written(<<0>>) = <<>>
<1>1. <<>> \in Seq(Nat) /\ <<0>> = Append(<<>>, 0) /\ 0 \in Nat /\ <<0>> \in Texts
  BY DEF Texts
<1>. DEFINE e == <<>>
<1>2. e \in Seq(Nat) /\ Mapped(WrittenMap, e) = e /\ <<0>> = Append(e, 0) /\ e \in Seq(Shown)
  BY <1>1, MappedEmpty
<1>3. WrittenMap[0] = e
  BY <1>1 DEF WrittenMap
<1>. HIDE DEF e
<1>4. Mapped(WrittenMap, Append(e, 0)) = Mapped(WrittenMap, e) \o WrittenMap[0]
  BY <1>1, <1>2, WrittenMapped, MappedAppend
<1>5. e \o e = e
  BY <1>2, ConcatEmptySeq DEF e
<1>. QED BY <1>1, <1>2, <1>3, <1>4, <1>5, WrittenMapped DEF e

(* The texts of the lines of a comment, one behind the other.               *)
LineTexts(lines) == FlattenSeq([k \in DOMAIN lines |-> lines[k].text])
TextMap == [l \in CommentLines |-> l.text]

LEMMA LineTextsMapped ==
    /\ MapsInto(TextMap, CommentLines, Nat)
    /\ \A lines \in Seq(CommentLines) : LineTexts(lines) = Mapped(TextMap, lines) /\ LineTexts(lines) \in Texts
<1>1. \A l \in CommentLines : l.text \in Seq(Nat)
  BY DEF CommentLines, Texts
<1>2. MapsInto(TextMap, CommentLines, Nat)
  BY <1>1 DEF MapsInto, TextMap
<1>3. ASSUME NEW lines \in Seq(CommentLines) PROVE LineTexts(lines) = Mapped(TextMap, lines)
  <2>1. \A k \in DOMAIN lines : lines[k] \in CommentLines
    OBVIOUS
  <2>2. [k \in DOMAIN lines |-> lines[k].text] = [k \in DOMAIN lines |-> TextMap[lines[k]]]
    BY <2>1 DEF TextMap
  <2>. QED BY <2>2 DEF LineTexts, Mapped
<1>4. ASSUME NEW lines \in Seq(CommentLines) PROVE LineTexts(lines) \in Texts
  BY <1>2, <1>3, MappedType DEF Texts
<1>. QED BY <1>2, <1>3, <1>4

LEMMA LineTextsEmpty == LineTexts(<<>>) = <<>>
<1>1. <<>> \in Seq(CommentLines)
  BY EmptySeq
<1>. QED BY <1>1, LineTextsMapped, MappedEmpty

LEMMA LineTextsAppend ==
    ASSUME NEW lines \in Seq(CommentLines), NEW l \in CommentLines
    PROVE  LineTexts(Append(lines, l)) = LineTexts(lines) \o l.text /\ l.text \in Texts
<1>1. Append(lines, l) \in Seq(CommentLines)
  OBVIOUS
<1>2. Mapped(TextMap, Append(lines, l)) = Mapped(TextMap, lines) \o TextMap[l]
  BY LineTextsMapped, MappedAppend
<1>3. TextMap[l] = l.text /\ l.text \in Texts
  BY DEF TextMap, CommentLines
<1>. QED BY <1>1, <1>2, <1>3, LineTextsMapped

LEMMA LineTextsConcat ==
    ASSUME NEW a \in Seq(CommentLines), NEW b \in Seq(CommentLines)
    PROVE  a \o b \in Seq(CommentLines) /\ LineTexts(a \o b) = LineTexts(a) \o LineTexts(b)
<1>1. a \o b \in Seq(CommentLines)
  BY ConcatProperties
<1>2. Mapped(TextMap, a \o b) = Mapped(TextMap, a) \o Mapped(TextMap, b)
  BY LineTextsMapped, MappedConcat
<1>. QED BY <1>1, <1>2, LineTextsMapped

LEMMA LineTextsOne == ASSUME NEW l \in CommentLines PROVE LineTexts(<<l>>) = l.text
<1>. DEFINE e == <<>>
<1>1. e \in Seq(CommentLines) /\ <<l>> = Append(e, l) /\ LineTexts(e) = e
  BY LineTextsEmpty
<1>. HIDE DEF e
<1>2. LineTexts(Append(e, l)) = LineTexts(e) \o l.text /\ l.text \in Seq(Nat)
  BY <1>1, LineTextsAppend DEF Texts
<1>3. <<>> \o l.text = l.text
  BY <1>2, ConcatEmptySeq
<1>. QED BY <1>1, <1>2, <1>3 DEF e

LEMMA WordsOfType ==
    ASSUME NEW tags, NEW item \in Items(tags)
    PROVE  /\ item.text \in Texts /\ LineTexts(item.lines) \in Texts
           /\ WordsOf(item) = Written(item.text) \o Written(LineTexts(item.lines))
           /\ WordsOf(item) \in Seq(Shown)
<1>1. item.text \in Texts /\ item.lines \in Seq(CommentLines)
  BY DEF Items
<1>2. LineTexts(item.lines) \in Texts
  BY <1>1, LineTextsMapped
<1>3. WordsOf(item) = Written(item.text \o LineTexts(item.lines))
  BY DEF WordsOf, LineTexts
<1>. QED BY <1>1, <1>2, <1>3, WrittenConcat, WrittenType

-----------------------------------------------------------------------------
(* Reading on: the words seen and the line feeds behind them.               *)

WordStates == [seen : Texts, feeds : Nat]
AllItems   == Items(AllTags)
Told(st, items) == FoldLeft(WordStep, st, items)
Closed(st) == Paragraphs(st.seen, st.feeds)
Untold     == [seen |-> <<>>, feeds |-> 0]

LEMMA ParagraphsType ==
    ASSUME NEW seen \in Texts, NEW feeds \in Nat
    PROVE  Paragraphs(seen, feeds) \in Texts
<1>1. BlankLines \in Nat /\ seen \in Seq(Nat)
  BY DEF BlankLines, Texts
<1>2. Append(seen, BlankLines) \in Seq(Nat)
  BY <1>1
<1>. QED BY <1>2 DEF Paragraphs, Texts

LEMMA WordStepType ==
    ASSUME NEW st \in WordStates, NEW x \in AllItems
    PROVE  /\ WordStep(st, x) \in WordStates
           /\ x.tag = "Newlines" => WordStep(st, x) = [seen |-> st.seen, feeds |-> st.feeds + x.n]
           /\ x.tag = "EmptyLine" => WordStep(st, x) = [seen |-> st.seen, feeds |-> st.feeds + 2]
           /\ x.tag \notin {"Newlines", "EmptyLine"} =>
                WordStep(st, x) = [seen |-> Paragraphs(st.seen, st.feeds) \o WordsOf(x), feeds |-> 0]
<1>1. st.seen \in Texts /\ st.feeds \in Nat /\ x.n \in Nat /\ WordsOf(x) \in Texts
      /\ Paragraphs(st.seen, st.feeds) \in Texts
  <2>1. st.seen \in Texts /\ st.feeds \in Nat /\ x.n \in Nat
    BY DEF WordStates, AllItems, Items
  <2>2. WordsOf(x) \in Seq(Shown)
    BY WordsOfType DEF AllItems
  <2>3. WordsOf(x) \in Texts
    BY <2>2, SeqMonotonic DEF Texts, Shown
  <2>. QED BY <2>1, <2>3, ParagraphsType
<1>2. Paragraphs(st.seen, st.feeds) \o WordsOf(x) \in Texts
  BY <1>1, ConcatProperties DEF Texts
<1>3. \A n \in Nat : [st EXCEPT !.feeds = @ + n] = [seen |-> st.seen, feeds |-> st.feeds + n]
  BY DEF WordStates
<1>. DEFINE told == [seen |-> Paragraphs(st.seen, st.feeds) \o WordsOf(x), feeds |-> 0]
<1>4. told \in WordStates
  BY <1>2 DEF WordStates
<1>5. \A n \in Nat : [seen |-> st.seen, feeds |-> st.feeds + n] \in WordStates
  BY <1>1 DEF WordStates
<1>6. WordStep(st, x) = CASE x.tag = "Newlines" -> [st EXCEPT !.feeds = @ + x.n]
                          [] x.tag = "EmptyLine" -> [st EXCEPT !.feeds = @ + 2]
                          [] OTHER -> told
  BY DEF WordStep
<1>. HIDE DEF told
<1>7. CASE x.tag = "Newlines"
  BY <1>1, <1>3, <1>5, <1>6, <1>7
<1>8. CASE x.tag = "EmptyLine"
  BY <1>3, <1>5, <1>6, <1>8
<1>9. CASE x.tag \notin {"Newlines", "EmptyLine"}
  BY <1>4, <1>6, <1>9 DEF told
<1>. QED BY <1>7, <1>8, <1>9

(* The fold, element by element. *)
WordFun == [p \in WordStates \X AllItems |-> WordStep(p[1], p[2])]

LEMMA ToldFolds ==
    ASSUME NEW st \in WordStates, NEW items \in Seq(AllItems)
    PROVE  Folded(Told(st, items), WordStates, st, WordFun, items)
<1>. DEFINE Rec(h) == h = [t \in SUBSET DOMAIN items |->
                             IF t = {} THEN st ELSE WordStep(h[t \ {Max(t)}], items[Max(t)])]
            n == Len(items)
<1>0. DOMAIN items = 1..n /\ n \in Nat /\ \A k \in 1..n : items[k] \in AllItems
  OBVIOUS
<1>1. WordFun \in [WordStates \X AllItems -> WordStates]
  BY WordStepType DEF WordFun
<1>2. PICK h \in [SUBSET (1..n) -> WordStates] : IsIteration(h, n, st, WordFun, items)
  BY <1>1, IterationExists
<1>3. \A t \in SUBSET (1..n) : t # {} => Max(t) \in 1..n
  BY <1>0, MaxOfPart
<1>4. Rec(h)
  <2>1. ASSUME NEW t \in SUBSET (1..n)
        PROVE  h[t] = IF t = {} THEN st ELSE WordStep(h[t \ {Max(t)}], items[Max(t)])
    <3>1. CASE t = {}
      BY <1>2, <3>1 DEF IsIteration
    <3>2. CASE t # {}
      <4>1. h[t \ {Max(t)}] \in WordStates /\ items[Max(t)] \in AllItems
        BY <1>0, <1>3, <3>2
      <4>2. h[t] = WordFun[<<h[t \ {Max(t)}], items[Max(t)]>>]
        BY <1>2, <3>2 DEF IsIteration
      <4>. QED BY <3>2, <4>1, <4>2 DEF WordFun
    <3>. QED BY <3>1, <3>2
  <2>. QED BY <1>0, <2>1
<1>. DEFINE g == CHOOSE f : Rec(f)
<1>5. Rec(g)
  <2>. HIDE DEF Rec
  <2>. QED BY <1>4
<1>6. Told(st, items) = g[1..n]
  <2>1. Told(st, items) = (CHOOSE f : Rec(f))[DOMAIN items]
    BY DEF Told, FoldLeft, MapThenFoldSet
  <2>. QED BY <1>0, <2>1
<1>. HIDE DEF g
<1>7. StepsWhereTyped(g, n, WordStates, st, WordFun, items)
  <2>1. \A t \in SUBSET (1..n) : g[t] = IF t = {} THEN st ELSE WordStep(g[t \ {Max(t)}], items[Max(t)])
    BY <1>0, <1>5
  <2>. HIDE DEF Rec
  <2>2. g[{}] = st
    BY <2>1
  <2>3. ASSUME NEW t \in SUBSET (1..n), t # {}, g[t \ {Max(t)}] \in WordStates
        PROVE  g[t] = WordFun[<<g[t \ {Max(t)}], items[Max(t)]>>]
    <3>1. items[Max(t)] \in AllItems
      BY <1>0, <1>3, <2>3
    <3>2. g[t] = WordStep(g[t \ {Max(t)}], items[Max(t)])
      BY <2>1, <2>3
    <3>. QED BY <2>3, <3>1, <3>2 DEF WordFun
  <2>. QED BY <2>2, <2>3 DEF StepsWhereTyped
<1>8. Folded(g[1..n], WordStates, st, WordFun, items)
  <2>. HIDE DEF Rec
  <2>. QED BY <1>1, <1>7, IterationFolds
<1>. QED BY <1>6, <1>8

LEMMA ToldEmpty == ASSUME NEW st \in WordStates PROVE Told(st, <<>>) = st
<1>1. <<>> \in Seq(AllItems)
  BY EmptySeq
<1>. QED BY <1>1, ToldFolds, FoldedEmpty

LEMMA ToldAppend ==
    ASSUME NEW st \in WordStates, NEW items \in Seq(AllItems), NEW x \in AllItems
    PROVE  /\ Told(st, items) \in WordStates
           /\ Told(st, Append(items, x)) = WordStep(Told(st, items), x)
<1>1. Append(items, x) \in Seq(AllItems)
  OBVIOUS
<1>2. /\ Folded(Told(st, items), WordStates, st, WordFun, items)
      /\ Folded(Told(st, Append(items, x)), WordStates, st, WordFun, Append(items, x))
  BY <1>1, ToldFolds
<1>3. Told(st, Append(items, x)) = WordFun[<<Told(st, items), x>>] /\ Told(st, items) \in WordStates
  BY <1>2, FoldedAppend
<1>. QED BY <1>3 DEF WordFun

LEMMA ToldType ==
    ASSUME NEW st \in WordStates, NEW items \in Seq(AllItems)
    PROVE  Told(st, items) \in WordStates
<1>1. Folded(Told(st, items), WordStates, st, WordFun, items)
  BY ToldFolds
<1>2. Len(items) \in 0..Len(items)
  OBVIOUS
<1>. QED BY <1>1, <1>2 DEF Folded

(* Reading on through a second sequence. *)
LEMMA ToldConcat ==
    ASSUME NEW st \in WordStates, NEW a \in Seq(AllItems), NEW b \in Seq(AllItems)
    PROVE  Told(st, a \o b) = Told(Told(st, a), b)
<1>. DEFINE T == {t \in Seq(AllItems) : Told(st, a \o t) = Told(Told(st, a), t)}
<1>0. Told(st, a) \in WordStates
  BY ToldType
<1>1. <<>> \in T
  <2>. DEFINE e == <<>>
  <2>1. a \o e = a /\ Told(Told(st, a), e) = Told(st, a) /\ e \in Seq(AllItems)
    BY <1>0, ToldEmpty, ConcatEmptySeq
  <2>. HIDE DEF e
  <2>2. e \in T
    BY <2>1
  <2>. QED BY <2>2 DEF e
<1>2. ASSUME NEW t \in Seq(AllItems), NEW x \in AllItems, t \in T PROVE Append(t, x) \in T
  <2>1. a \o t \in Seq(AllItems) /\ Append(t, x) \in Seq(AllItems)
    BY ConcatProperties
  <2>2. a \o Append(t, x) = Append(a \o t, x)
    OBVIOUS
  <2>3. Told(st, a \o t) = Told(Told(st, a), t)
    BY <1>2
  <2>. HIDE DEF T
  <2>4. \A u \in Seq(AllItems), s \in WordStates : Told(s, Append(u, x)) = WordStep(Told(s, u), x)
    BY ToldAppend
  <2>5. Told(st, Append(a \o t, x)) = WordStep(Told(st, a \o t), x)
        /\ Told(Told(st, a), Append(t, x)) = WordStep(Told(Told(st, a), t), x)
    BY <1>0, <2>1, <2>4
  <2>. QED BY <2>1, <2>2, <2>3, <2>5 DEF T
<1>. HIDE DEF T
<1>3. \A t \in Seq(AllItems) : t \in T
  BY <1>1, <1>2, SeqInd
<1>. QED BY <1>3 DEF T

(* Words that were read in front, none of them a blank line, do not change   *)
(* what is read behind them.                                                *)
Behind(T, st) == [seen |-> T \o st.seen, feeds |-> st.feeds]

LEMMA ParagraphsBehind ==
    ASSUME NEW T \in Seq(Shown), NEW seen \in Texts, NEW feeds \in Nat
    PROVE  Paragraphs(T \o seen, feeds) = T \o Paragraphs(seen, feeds)
<1>1. T \in Seq(Nat) /\ seen \in Seq(Nat) /\ BlankLines \in Nat
  BY SeqMonotonic DEF Shown, Texts, BlankLines
<1>2. CASE feeds <= 1
  BY <1>2 DEF Paragraphs
<1>3. CASE feeds > 1 /\ seen = <<>>
  <2>. DEFINE e == <<>>
  <2>1. T \o seen = T /\ e \in Seq(Nat)
    BY <1>1, <1>3, ConcatEmptySeq
  <2>2. T = <<>> \/ Last(T) # BlankLines
    <3>1. T # <<>> => Last(T) \in Shown
      BY FrontLast
    <3>. QED BY <3>1 DEF Shown, BlankLines
  <2>3. Paragraphs(T \o seen, feeds) = Append(T, BlankLines) /\ Paragraphs(seen, feeds) = Append(seen, BlankLines)
    BY <1>3, <2>1, <2>2 DEF Paragraphs
  <2>4. T \o Append(seen, BlankLines) = Append(T \o seen, BlankLines)
    BY <1>1
  <2>. QED BY <2>1, <2>3, <2>4
<1>4. CASE feeds > 1 /\ seen # <<>>
  <2>1. T \o seen \in Seq(Nat) /\ Len(T \o seen) = Len(T) + Len(seen) /\ Len(seen) \in Nat \ {0} /\ Len(T) \in Nat
    BY <1>1, <1>4, ConcatProperties, EmptySeq
  <2>2. T \o seen # <<>> /\ Last(T \o seen) = Last(seen)
    <3>1. Len(T) + Len(seen) \in 1..(Len(T) + Len(seen)) /\ ~(Len(T) + Len(seen) <= Len(T))
          /\ (Len(T) + Len(seen)) - Len(T) = Len(seen)
      BY <2>1
    <3>2. (T \o seen)[Len(T) + Len(seen)] = seen[Len(seen)]
      BY <1>1, <3>1, ConcatProperties
    <3>3. T \o seen # <<>>
      BY <2>1
    <3>. QED BY <2>1, <3>2, <3>3 DEF Last
  <2>3. T \o Append(seen, BlankLines) = Append(T \o seen, BlankLines)
    BY <1>1
  <2>. QED BY <1>4, <2>2, <2>3 DEF Paragraphs
<1>. QED BY <1>2, <1>3, <1>4

LEMMA WordStepBehind ==
    ASSUME NEW T \in Seq(Shown), NEW st \in WordStates, NEW x \in AllItems
    PROVE  Behind(T, st) \in WordStates /\ WordStep(Behind(T, st), x) = Behind(T, WordStep(st, x))
<1>1. T \in Seq(Nat) /\ T \in Texts /\ st.seen \in Texts /\ st.feeds \in Nat
  BY SeqMonotonic DEF Shown, Texts, WordStates
<1>2. T \o st.seen \in Texts
  BY <1>1, ConcatProperties DEF Texts
<1>3. Behind(T, st) \in WordStates
  BY <1>1, <1>2 DEF Behind, WordStates
<1>4. CASE x.tag = "Newlines"
  <2>1. \A s \in WordStates : WordStep(s, x) = [seen |-> s.seen, feeds |-> s.feeds + x.n]
    BY <1>4, WordStepType
  <2>2. WordStep(Behind(T, st), x) = [seen |-> Behind(T, st).seen, feeds |-> Behind(T, st).feeds + x.n]
    BY <1>3, <2>1
  <2>3. WordStep(st, x) = [seen |-> st.seen, feeds |-> st.feeds + x.n]
    BY <2>1
  <2>. QED BY <1>3, <2>2, <2>3 DEF Behind
<1>5. CASE x.tag = "EmptyLine"
  <2>1. \A s \in WordStates : WordStep(s, x) = [seen |-> s.seen, feeds |-> s.feeds + 2]
    BY <1>5, WordStepType
  <2>2. WordStep(Behind(T, st), x) = [seen |-> Behind(T, st).seen, feeds |-> Behind(T, st).feeds + 2]
    BY <1>3, <2>1
  <2>3. WordStep(st, x) = [seen |-> st.seen, feeds |-> st.feeds + 2]
    BY <2>1
  <2>. QED BY <1>3, <2>2, <2>3 DEF Behind
<1>6. CASE x.tag \notin {"Newlines", "EmptyLine"}
  <2>. DEFINE p == Paragraphs(st.seen, st.feeds)
              w == WordsOf(x)
  <2>1. p \in Seq(Nat) /\ w \in Seq(Nat)
    <3>1. w \in Seq(Shown)
      BY WordsOfType DEF AllItems
    <3>. QED BY <1>1, <3>1, ParagraphsType, SeqMonotonic DEF Shown, Texts
  <2>2. Paragraphs(T \o st.seen, st.feeds) = T \o p
    BY <1>1, ParagraphsBehind
  <2>3. WordStep(Behind(T, st), x) = [seen |-> Paragraphs(T \o st.seen, st.feeds) \o w, feeds |-> 0]
    BY <1>3, <1>6, WordStepType DEF Behind
  <2>4. WordStep(st, x) = [seen |-> p \o w, feeds |-> 0]
    BY <1>6, WordStepType
  <2>. HIDE DEF p, w
  <2>5. Associates(T, p, w)
    BY <1>1, <2>1, Associative
  <2>6. (T \o p) \o w = T \o (p \o w)
    BY <2>5 DEF Associates
  <2>7. WordStep(Behind(T, st), x) = [seen |-> (T \o p) \o w, feeds |-> 0]
    BY <2>2, <2>3
  <2>8. Behind(T, WordStep(st, x)) = [seen |-> T \o (p \o w), feeds |-> 0]
    BY <2>4 DEF Behind
  <2>9. WordStep(Behind(T, st), x) = Behind(T, WordStep(st, x))
    BY <2>6, <2>7, <2>8
  <2>. QED BY <1>3, <2>9
<1>. QED BY <1>3, <1>4, <1>5, <1>6

LEMMA ToldBehind ==
    ASSUME NEW T \in Seq(Shown), NEW st \in WordStates, NEW items \in Seq(AllItems)
    PROVE  /\ Told(Behind(T, st), items) = Behind(T, Told(st, items))
           /\ Closed(Told(Behind(T, st), items)) = T \o Closed(Told(st, items))
<1>. DEFINE S == {t \in Seq(AllItems) : Told(Behind(T, st), t) = Behind(T, Told(st, t))}
<1>0. Behind(T, st) \in WordStates
  <2>1. T \in Texts /\ st.seen \in Texts /\ st.feeds \in Nat
    BY SeqMonotonic DEF Shown, Texts, WordStates
  <2>2. T \o st.seen \in Texts
    BY <2>1, ConcatProperties DEF Texts
  <2>. QED BY <2>1, <2>2 DEF Behind, WordStates
<1>1. <<>> \in S
  <2>1. <<>> \in Seq(AllItems)
    BY EmptySeq
  <2>. QED BY <1>0, <2>1, ToldEmpty
<1>2. ASSUME NEW t \in Seq(AllItems), NEW x \in AllItems, t \in S PROVE Append(t, x) \in S
  <2>1. Told(Behind(T, st), t) = Behind(T, Told(st, t)) /\ Append(t, x) \in Seq(AllItems)
    BY <1>2
  <2>. HIDE DEF S
  <2>2. Told(st, t) \in WordStates /\ Told(st, Append(t, x)) = WordStep(Told(st, t), x)
    BY ToldAppend
  <2>3. Told(Behind(T, st), Append(t, x)) = WordStep(Told(Behind(T, st), t), x)
    BY <1>0, ToldAppend
  <2>4. WordStep(Behind(T, Told(st, t)), x) = Behind(T, WordStep(Told(st, t), x))
    BY <2>2, WordStepBehind
  <2>. QED BY <2>1, <2>2, <2>3, <2>4 DEF S
<1>. HIDE DEF S
<1>3. \A t \in Seq(AllItems) : t \in S
  BY <1>1, <1>2, SeqInd
<1>4. Told(Behind(T, st), items) = Behind(T, Told(st, items))
  BY <1>3 DEF S
<1>5. Told(st, items).seen \in Texts /\ Told(st, items).feeds \in Nat
  BY ToldType DEF WordStates
<1>6. Closed(Behind(T, Told(st, items))) = T \o Closed(Told(st, items))
  BY <1>5, ParagraphsBehind DEF Closed, Behind
<1>. QED BY <1>4, <1>6

(* Items that say the same are read alike. *)
Alike(x, y) == x.tag = y.tag /\ (x.tag = "Newlines" => x.n = y.n) /\ WordsOf(x) = WordsOf(y)
AllAlike(s, t) == Len(s) = Len(t) /\ \A i \in 1..Len(s) : Alike(s[i], t[i])

LEMMA ToldAlike ==
    ASSUME NEW st \in WordStates, NEW a \in Seq(AllItems), NEW b \in Seq(AllItems), AllAlike(a, b)
    PROVE  Told(st, a) = Told(st, b)
<1>. DEFINE S == {s \in Seq(AllItems) : \A t \in Seq(AllItems) : AllAlike(s, t) => Told(st, s) = Told(st, t)}
<1>1. <<>> \in S
  <2>1. \A t \in Seq(AllItems) : AllAlike(<<>>, t) => t = <<>>
    BY EmptySeq DEF AllAlike
  <2>. QED BY <2>1, EmptySeq
<1>2. ASSUME NEW s \in Seq(AllItems), NEW x \in AllItems, s \in S PROVE Append(s, x) \in S
  <2>0. \A t \in Seq(AllItems) : AllAlike(s, t) => Told(st, s) = Told(st, t)
    BY <1>2
  <2>. HIDE DEF S
  <2>1. ASSUME NEW t \in Seq(AllItems), AllAlike(Append(s, x), t)
        PROVE  Told(st, Append(s, x)) = Told(st, t)
    <3>1. Len(t) = Len(s) + 1 /\ Len(s) \in Nat /\ t # <<>>
      BY <2>1, AppendProperties, EmptySeq DEF AllAlike
    <3>2. /\ Front(t) \in Seq(AllItems) /\ Last(t) \in AllItems /\ Len(Front(t)) = Len(s)
          /\ t = Append(Front(t), Last(t)) /\ \A i \in 1..Len(s) : Front(t)[i] = t[i]
      BY <3>1, FrontLast
    <3>. DEFINE u == Front(t)
                y == Last(t)
    <3>3. u \in Seq(AllItems) /\ y \in AllItems /\ Len(u) = Len(s) /\ t = Append(u, y)
          /\ \A i \in 1..Len(s) : u[i] = t[i]
      BY <3>2
    <3>4. t[Len(s) + 1] = y
      BY <3>1 DEF Last
    <3>. HIDE DEF u, y
    <3>5. Alike(x, y)
      <4>1. Len(s) + 1 \in 1..Len(Append(s, x)) /\ Append(s, x)[Len(s) + 1] = x
        BY <3>1, AppendProperties
      <4>. QED BY <2>1, <3>4, <4>1 DEF AllAlike
    <3>6. AllAlike(s, u)
      <4>1. \A i \in 1..Len(s) : i \in 1..Len(Append(s, x)) /\ Append(s, x)[i] = s[i]
        BY <3>1, AppendProperties
      <4>. QED BY <2>1, <3>3, <4>1 DEF AllAlike
    <3>7. Told(st, s) = Told(st, u)
      BY <2>0, <3>3, <3>6
    <3>8. Told(st, Append(s, x)) = WordStep(Told(st, s), x) /\ Told(st, s) \in WordStates
      BY ToldAppend
    <3>9. Told(st, Append(u, y)) = WordStep(Told(st, u), y)
      BY <3>3, ToldAppend
    <3>10. \A z \in WordStates : WordStep(z, x) = WordStep(z, y)
      <4>1. ASSUME NEW z \in WordStates PROVE WordStep(z, x) = WordStep(z, y)
        <5>0. x.tag = y.tag /\ (x.tag = "Newlines" => x.n = y.n) /\ WordsOf(x) = WordsOf(y)
          BY <3>5 DEF Alike
        <5>1. CASE x.tag = "Newlines"
          <6>1. WordStep(z, x) = [seen |-> z.seen, feeds |-> z.feeds + x.n]
            BY <5>1, WordStepType
          <6>2. WordStep(z, y) = [seen |-> z.seen, feeds |-> z.feeds + y.n]
            BY <3>3, <5>0, <5>1, WordStepType
          <6>. QED BY <5>0, <5>1, <6>1, <6>2
        <5>2. CASE x.tag = "EmptyLine"
          <6>1. WordStep(z, x) = [seen |-> z.seen, feeds |-> z.feeds + 2]
            BY <5>2, WordStepType
          <6>2. WordStep(z, y) = [seen |-> z.seen, feeds |-> z.feeds + 2]
            BY <3>3, <5>0, <5>2, WordStepType
          <6>. QED BY <6>1, <6>2
        <5>3. CASE x.tag \notin {"Newlines", "EmptyLine"}
          <6>1. WordStep(z, x) = [seen |-> Paragraphs(z.seen, z.feeds) \o WordsOf(x), feeds |-> 0]
            BY <5>3, WordStepType
          <6>2. WordStep(z, y) = [seen |-> Paragraphs(z.seen, z.feeds) \o WordsOf(y), feeds |-> 0]
            BY <3>3, <5>0, <5>3, WordStepType
          <6>. QED BY <5>0, <6>1, <6>2
        <5>. QED BY <5>1, <5>2, <5>3
      <4>. QED BY <4>1
    <3>. QED BY <3>3, <3>7, <3>8, <3>9, <3>10
  <2>2. Append(s, x) \in Seq(AllItems)
    OBVIOUS
  <2>. QED BY <2>1, <2>2 DEF S
<1>. HIDE DEF S
<1>3. \A s \in Seq(AllItems) : s \in S
  BY <1>1, <1>2, SeqInd
<1>. QED BY <1>3 DEF S

LEMMA WordsTold ==
    ASSUME NEW items \in Seq(AllItems)
    PROVE  /\ Words(items) = Closed(Told(Untold, items))
           /\ Untold \in WordStates /\ Told(Untold, items) \in WordStates
<1>1. Untold \in WordStates
  BY EmptySeq DEF Untold, WordStates, Texts
<1>2. Words(items) = Closed(Told(Untold, items))
  BY DEF Words, Closed, Told, Untold
<1>. QED BY <1>1, <1>2, ToldType

-----------------------------------------------------------------------------
(* The lines of a block comment.                                            *)

LineList == Seq(CommentLines)

LEMMA SpacesType ==
    ASSUME NEW n \in Nat
    PROVE  Spaces(n) \in CommentLines /\ Spaces(n).text = <<>> /\ NoLine \in CommentLines /\ NoLine.text = <<>>
<1>1. <<>> \in Texts
  BY EmptySeq DEF Texts
<1>2. \A m \in Nat : Spaces(m) \in CommentLines /\ Spaces(m).text = <<>>
  BY <1>1 DEF Spaces, Line, CommentLines
<1>. QED BY <1>2 DEF NoLine

LEMMA BlankText == ASSUME NEW l \in CommentLines, IsBlank(l) PROVE l.text = <<>>
  BY DEF IsBlank

LEMMA TrimmedLine ==
    ASSUME NEW l \in CommentLines
    PROVE  /\ TrimEnd(l) \in CommentLines /\ TrimEnd(l).text = l.text
           /\ TrimStart(l) \in CommentLines /\ TrimStart(l).text = l.text
<1>1. 0 \in Nat
  OBVIOUS
<1>2. /\ [l EXCEPT !.gap = 0] \in CommentLines /\ [l EXCEPT !.gap = 0].text = l.text
      /\ [l EXCEPT !.indent = 0] \in CommentLines /\ [l EXCEPT !.indent = 0].text = l.text
  BY DEF CommentLines
<1>3. NoLine \in CommentLines /\ (IsBlank(l) => NoLine.text = l.text)
  BY <1>1, SpacesType, BlankText
<1>. QED BY <1>2, <1>3 DEF TrimEnd, TrimStart

LEMMA StrippedLine ==
    ASSUME NEW l \in CommentLines, NEW n \in Nat
    PROVE  StripIndentation(n, l) \in CommentLines /\ StripIndentation(n, l).text = l.text
<1>1. l.indent \in Nat
  BY DEF CommentLines
<1>2. CASE l.indent >= n
  <2>1. l.indent - n \in Nat
    BY <1>1, <1>2
  <2>2. [l EXCEPT !.indent = l.indent - n] \in CommentLines /\ [l EXCEPT !.indent = l.indent - n].text = l.text
    BY <2>1 DEF CommentLines
  <2>3. StripIndentation(n, l) = [l EXCEPT !.indent = l.indent - n]
    BY <1>2 DEF StripIndentation
  <2>. QED BY <2>2, <2>3
<1>3. CASE ~(l.indent >= n)
  BY <1>3, TrimmedLine DEF StripIndentation
<1>. QED BY <1>2, <1>3

LEMMA UnstarredLine ==
    ASSUME NEW l \in CommentLines, NEW pos \in Nat
    PROVE  WithoutStar(l, pos) \in CommentLines /\ WithoutStar(l, pos).text = l.text
<1>1. l.gap \in Nat /\ l.text \in Texts
  BY DEF CommentLines
<1>2. pos + l.gap \in Nat
  BY <1>1
<1>. QED BY <1>1, <1>2 DEF WithoutStar, Line, CommentLines

(* Lines with the same texts, one by one. *)
SameTexts(a, b) == Len(a) = Len(b) /\ \A i \in 1..Len(a) : a[i].text = b[i].text

LEMMA SameLineTexts ==
    ASSUME NEW a \in LineList, NEW b \in LineList, SameTexts(a, b)
    PROVE  LineTexts(a) = LineTexts(b)
<1>1. DOMAIN a = 1..Len(a) /\ DOMAIN b = 1..Len(a)
  BY DEF LineList, SameTexts
<1>2. [k \in DOMAIN a |-> a[k].text] = [k \in DOMAIN b |-> b[k].text]
  BY <1>1 DEF SameTexts
<1>. QED BY <1>2 DEF LineTexts

(* A function on the positions of lines is a list of lines. *)
LEMMA MappedLines ==
    ASSUME NEW a \in LineList, NEW b, b = [i \in DOMAIN a |-> b[i]],
           \A i \in 1..Len(a) : b[i] \in CommentLines /\ b[i].text = a[i].text
    PROVE  b \in LineList /\ SameTexts(b, a) /\ LineTexts(b) = LineTexts(a)
<1>1. DOMAIN a = 1..Len(a) /\ Len(a) \in Nat
  BY DEF LineList
<1>2. b \in [1..Len(a) -> CommentLines]
  BY <1>1
<1>3. b \in LineList /\ Len(b) = Len(a)
  BY <1>1, <1>2 DEF LineList
<1>4. SameTexts(b, a)
  BY <1>3 DEF SameTexts
<1>. QED BY <1>3, <1>4, SameLineTexts

LEMMA BlankTexts ==
    ASSUME NEW a \in LineList, \A i \in 1..Len(a) : IsBlank(a[i])
    PROVE  LineTexts(a) = <<>>
<1>. DEFINE S == {s \in LineList : (\A i \in 1..Len(s) : IsBlank(s[i])) => LineTexts(s) = <<>>}
<1>1. <<>> \in S
  BY EmptySeq, LineTextsEmpty DEF LineList
<1>2. ASSUME NEW s \in Seq(CommentLines), NEW l \in CommentLines, s \in S PROVE Append(s, l) \in S
  <2>1. Append(s, l) \in LineList /\ Len(Append(s, l)) = Len(s) + 1 /\ Len(s) \in Nat
        /\ Append(s, l)[Len(s) + 1] = l /\ \A i \in 1..Len(s) : Append(s, l)[i] = s[i]
    BY AppendProperties DEF LineList
  <2>2. ASSUME \A i \in 1..Len(Append(s, l)) : IsBlank(Append(s, l)[i])
        PROVE  LineTexts(Append(s, l)) = <<>>
    <3>1. \A i \in 1..Len(s) : i \in 1..Len(Append(s, l))
      BY <2>1
    <3>2. \A i \in 1..Len(s) : IsBlank(s[i])
      BY <2>1, <2>2, <3>1
    <3>3. Len(s) + 1 \in 1..Len(Append(s, l))
      BY <2>1
    <3>4. IsBlank(l)
      BY <2>1, <2>2, <3>3
    <3>5. LineTexts(s) = <<>> /\ l.text = <<>>
      BY <1>2, <3>2, <3>4, BlankText
    <3>6. LineTexts(Append(s, l)) = LineTexts(s) \o l.text
      BY LineTextsAppend
    <3>7. <<>> \o <<>> = <<>>
      OBVIOUS
    <3>. QED BY <3>5, <3>6, <3>7
  <2>. HIDE DEF S
  <2>. QED BY <2>1, <2>2 DEF S
<1>. HIDE DEF S
<1>3. \A s \in Seq(CommentLines) : s \in S
  BY <1>1, <1>2, SeqInd
<1>. QED BY <1>3 DEF S, LineList

(* Dropping empty lines at either end. *)
LEMMA DroppedEnd ==
    ASSUME NEW a \in LineList
    PROVE  /\ \E k \in 0..Len(a) :
                DropEmptyEnd(a) = SubSeq(a, 1, k) /\ \A i \in (k + 1)..Len(a) : IsBlank(a[i])
           /\ DropEmptyEnd(a) \in LineList /\ LineTexts(DropEmptyEnd(a)) = LineTexts(a)
<1>. DEFINE n == Len(a)
            Fit(k) == /\ k > 0 => ~IsBlank(a[k])
                      /\ \A i \in (k + 1)..n : IsBlank(a[i])
            ink == {i \in 1..n : ~IsBlank(a[i])}
<1>0. n \in Nat /\ \A i \in 1..n : a[i] \in CommentLines
  BY DEF LineList
<1>1. \E k \in 0..n : Fit(k)
  <2>1. CASE ink = {}
    <3>1. \A i \in (0 + 1)..n : IsBlank(a[i])
      BY <1>0, <2>1
    <3>2. Fit(0)
      BY <3>1
    <3>3. 0 \in 0..n
      BY <1>0
    <3>. QED BY <3>2, <3>3
  <2>2. CASE ink # {}
    <3>1. ink \in SUBSET (1..n)
      OBVIOUS
    <3>2. Max(ink) \in ink /\ Max(ink) \in 1..n
      <4>. HIDE DEF ink
      <4>. QED BY <1>0, <2>2, <3>1, MaxOfPart
    <3>3. \A j \in ink : Max(ink) >= j
      <4>. HIDE DEF ink
      <4>. QED BY <1>0, <2>2, <3>1, MaxOfPart
    <3>. DEFINE m == Max(ink)
    <3>4. m \in 1..n /\ ~IsBlank(a[m]) /\ \A j \in 1..n : ~IsBlank(a[j]) => m >= j
      BY <3>2, <3>3
    <3>. HIDE DEF m, ink
    <3>5. \A i \in (m + 1)..n : i \in 1..n /\ ~(m >= i)
      BY <1>0, <3>4
    <3>6. Fit(m) /\ m \in 0..n
      BY <1>0, <3>4, <3>5
    <3>. QED BY <3>6
  <2>. QED BY <2>1, <2>2
<1>. DEFINE k == CHOOSE j \in 0..n : Fit(j)
<1>2. k \in 0..n /\ Fit(k)
  <2>. HIDE DEF Fit
  <2>. QED BY <1>1
<1>3. DropEmptyEnd(a) = SubSeq(a, 1, k)
  BY DEF DropEmptyEnd
<1>4. \A i \in (k + 1)..n : IsBlank(a[i])
  BY <1>2
<1>. HIDE DEF k, Fit
<1>. DEFINE front == SubSeq(a, 1, k)
            back  == SubSeq(a, k + 1, n)
<1>5. front \in LineList
  <2>1. \A i \in 1..k : a[i] \in CommentLines
    BY <1>0, <1>2
  <2>. QED BY <1>2, <2>1, SubSeqProperties DEF LineList
<1>6. back \in LineList /\ \A i \in 1..Len(back) : IsBlank(back[i])
  <2>1. \A i \in (k + 1)..n : a[i] \in CommentLines
    BY <1>0, <1>2
  <2>2. k + 1 \in Int /\ n \in Int
    BY <1>0, <1>2
  <2>3. back \in LineList /\ Len(back) = (IF k + 1 <= n THEN n - (k + 1) + 1 ELSE 0)
        /\ \A i \in 1..(n - (k + 1) + 1) : back[i] = a[(k + 1) + i - 1]
    BY <2>1, <2>2, SubSeqProperties DEF LineList
  <2>. HIDE DEF back
  <2>4. \A i \in 1..Len(back) : i \in 1..(n - (k + 1) + 1) /\ (k + 1) + i - 1 \in (k + 1)..n
    BY <1>0, <1>2, <2>3
  <2>. QED BY <1>4, <2>3, <2>4
<1>7. front \o back = a
  <2>1. 1 \in 1..(Len(a) + 1) /\ k \in 0..Len(a) /\ 1 <= k + 1 /\ a \in Seq(CommentLines)
    BY <1>0, <1>2 DEF LineList
  <2>2. CutsAt(a, 1, k)
    BY <2>1, CutJoin
  <2>3. SubSeq(a, 1, Len(a)) = a
    BY <2>1, SubSeqFull
  <2>. QED BY <2>2, <2>3 DEF CutsAt
<1>. HIDE DEF front, back
<1>8. LineTexts(a) = LineTexts(front) \o LineTexts(back) /\ LineTexts(front) \in Seq(Nat)
  BY <1>5, <1>6, <1>7, LineTextsConcat, LineTextsMapped DEF LineList, Texts
<1>9. LineTexts(back) = <<>>
  BY <1>6, BlankTexts
<1>10. LineTexts(front) \o <<>> = LineTexts(front)
  BY <1>8, ConcatEmptySeq
<1>11. LineTexts(front) = LineTexts(a)
  BY <1>8, <1>9, <1>10
<1>. QED BY <1>2, <1>3, <1>4, <1>5, <1>11 DEF front

LEMMA ReverseLines ==
    ASSUME NEW a \in LineList
    PROVE  /\ Reverse(a) \in LineList /\ Len(Reverse(a)) = Len(a)
           /\ \A i \in 1..Len(a) : Reverse(a)[i] = a[(Len(a) - i) + 1]
<1>1. Len(a) \in Nat /\ \A i \in 1..Len(a) : (Len(a) - i) + 1 \in 1..Len(a)
  BY DEF LineList
<1>2. \A i \in 1..Len(a) : a[(Len(a) - i) + 1] \in CommentLines
  BY <1>1 DEF LineList
<1>. QED BY <1>1, <1>2 DEF Reverse, LineList

LEMMA DroppedStart ==
    ASSUME NEW a \in LineList
    PROVE  DropEmptyStart(a) \in LineList /\ LineTexts(DropEmptyStart(a)) = LineTexts(a)
<1>. DEFINE n == Len(a)
            r == Reverse(a)
<1>0. n \in Nat /\ \A i \in 1..n : a[i] \in CommentLines
  BY DEF LineList
<1>1. r \in LineList /\ Len(r) = n /\ \A i \in 1..n : r[i] = a[(n - i) + 1]
  BY ReverseLines
<1>2. PICK k \in 0..n : DropEmptyEnd(r) = SubSeq(r, 1, k) /\ \A i \in (k + 1)..n : IsBlank(r[i])
  <2>. HIDE DEF r
  <2>. QED BY <1>1, DroppedEnd
<1>. HIDE DEF r
<1>. DEFINE kept == SubSeq(r, 1, k)
            front == SubSeq(a, 1, n - k)
            back  == SubSeq(a, (n - k) + 1, n)
<1>3. kept \in LineList /\ Len(kept) = k /\ \A i \in 1..k : kept[i] = r[i]
  <2>1. \A i \in 1..k : r[i] \in CommentLines
    BY <1>0, <1>1, <1>2 DEF LineList
  <2>. QED BY <1>2, <2>1, SubSeqProperties DEF LineList
<1>4. Reverse(kept) \in LineList /\ Len(Reverse(kept)) = k
      /\ \A i \in 1..k : Reverse(kept)[i] = kept[(k - i) + 1]
  <2>. HIDE DEF kept
  <2>. QED BY <1>3, ReverseLines
<1>5. back \in LineList /\ Len(back) = k /\ \A i \in 1..k : back[i] = a[(n - k) + i]
  <2>1. \A i \in ((n - k) + 1)..n : a[i] \in CommentLines
    BY <1>0, <1>2
  <2>2. (n - k) + 1 \in Int /\ n \in Int
    BY <1>0, <1>2
  <2>3. back \in LineList /\ Len(back) = (IF (n - k) + 1 <= n THEN n - ((n - k) + 1) + 1 ELSE 0)
        /\ \A i \in 1..(n - ((n - k) + 1) + 1) : back[i] = a[((n - k) + 1) + i - 1]
    BY <2>1, <2>2, SubSeqProperties DEF LineList
  <2>. HIDE DEF back
  <2>4. n - ((n - k) + 1) + 1 = k /\ \A i \in 1..k : ((n - k) + 1) + i - 1 = (n - k) + i
    BY <1>0, <1>2
  <2>5. Len(back) = k
    BY <1>0, <1>2, <2>3
  <2>. QED BY <2>3, <2>4, <2>5
<1>6. Reverse(kept) = back
  <2>. HIDE DEF kept, back
  <2>1. ASSUME NEW i \in 1..k PROVE Reverse(kept)[i] = back[i]
    <3>1. (k - i) + 1 \in 1..k /\ (k - i) + 1 \in 1..n /\ (n - ((k - i) + 1)) + 1 = (n - k) + i
      BY <1>0, <1>2
    <3>. QED BY <1>1, <1>3, <1>4, <1>5, <3>1
  <2>. QED BY <1>4, <1>5, <2>1, SeqEqual DEF LineList
<1>7. DropEmptyStart(a) = back
  BY <1>2, <1>6 DEF DropEmptyStart, r
<1>8. front \in LineList /\ \A i \in 1..Len(front) : IsBlank(front[i])
  <2>1. \A i \in 1..(n - k) : a[i] \in CommentLines
    BY <1>0, <1>2
  <2>2. n - k \in Nat
    BY <1>0, <1>2
  <2>3. front \in LineList /\ Len(front) = n - k /\ \A i \in 1..(n - k) : front[i] = a[i]
    BY <2>1, <2>2, SubSeqProperties DEF LineList
  <2>. HIDE DEF front
  <2>4. ASSUME NEW i \in 1..(n - k) PROVE IsBlank(a[i])
    <3>1. (n - i) + 1 \in (k + 1)..n /\ (n - i) + 1 \in 1..n /\ (n - ((n - i) + 1)) + 1 = i
      BY <1>0, <1>2
    <3>. QED BY <1>1, <1>2, <3>1
  <2>. QED BY <2>2, <2>3, <2>4
<1>9. front \o back = a
  <2>1. 1 \in 1..(Len(a) + 1) /\ n - k \in 0..Len(a) /\ 1 <= (n - k) + 1 /\ a \in Seq(CommentLines)
    BY <1>0, <1>2 DEF LineList
  <2>2. CutsAt(a, 1, n - k)
    BY <2>1, CutJoin
  <2>3. SubSeq(a, 1, Len(a)) = a
    BY <2>1, SubSeqFull
  <2>. QED BY <2>2, <2>3 DEF CutsAt
<1>. HIDE DEF front, back
<1>10. LineTexts(a) = LineTexts(front) \o LineTexts(back) /\ LineTexts(back) \in Seq(Nat)
  BY <1>5, <1>8, <1>9, LineTextsConcat, LineTextsMapped DEF LineList, Texts
<1>11. LineTexts(front) = <<>>
  BY <1>8, BlankTexts
<1>12. <<>> \o LineTexts(back) = LineTexts(back)
  BY <1>10, ConcatEmptySeq
<1>13. LineTexts(a) = LineTexts(back)
  BY <1>10, <1>11, <1>12
<1>. QED BY <1>5, <1>7, <1>13

LEMMA SplitLinesKeep ==
    ASSUME NEW a \in LineList
    PROVE  SplitLines(a) \in LineList /\ LineTexts(SplitLines(a)) = LineTexts(a)
<1>. DEFINE b == [i \in DOMAIN a |-> TrimEnd(a[i])]
<1>1. DOMAIN a = 1..Len(a) /\ \A i \in 1..Len(a) : a[i] \in CommentLines
  BY DEF LineList
<1>2. \A i \in 1..Len(a) : b[i] \in CommentLines /\ b[i].text = a[i].text
  BY <1>1, TrimmedLine
<1>3. b = [i \in DOMAIN a |-> b[i]]
  OBVIOUS
<1>4. SplitLines(a) = DropEmptyEnd(b)
  BY DEF SplitLines
<1>. HIDE DEF b
<1>5. b \in LineList /\ LineTexts(b) = LineTexts(a)
  BY <1>2, <1>3, MappedLines
<1>. QED BY <1>4, <1>5, DroppedEnd

LEMMA RemoveStarsKeep ==
    ASSUME NEW a \in LineList, NEW pos \in Nat
    PROVE  RemoveStars(pos, a) \in LineList /\ LineTexts(RemoveStars(pos, a)) = LineTexts(a)
<1>. DEFINE b == [i \in DOMAIN a |-> IF i = 1 THEN a[1] ELSE WithoutStar(a[i], pos)]
<1>1. DOMAIN a = 1..Len(a) /\ \A i \in 1..Len(a) : a[i] \in CommentLines
  BY DEF LineList
<1>2. \A i \in 1..Len(a) : b[i] \in CommentLines /\ b[i].text = a[i].text
  BY <1>1, UnstarredLine
<1>3. b = [i \in DOMAIN a |-> b[i]]
  OBVIOUS
<1>4. RemoveStars(pos, a) \in {a, b}
  BY DEF RemoveStars
<1>. HIDE DEF b
<1>5. b \in LineList /\ LineTexts(b) = LineTexts(a)
  BY <1>2, <1>3, MappedLines
<1>. QED BY <1>4, <1>5

(* The least of some numbers, or the default: a number. *)
LEMMA LeastType ==
    ASSUME NEW T \in SUBSET Nat, NEW default \in Nat
    PROVE  Least(T, default) \in Nat
<1>1. CASE T = {}
  BY <1>1 DEF Least
<1>2. CASE T # {}
  <2>1. \E x \in T : \A y \in T : x <= y
    BY <1>2, LeastNat
  <2>2. (CHOOSE x \in T : \A y \in T : x <= y) \in T
    BY <2>1
  <2>. QED BY <1>2, <2>2 DEF Least
<1>. QED BY <1>1, <1>2

LEMMA FixIndentKeeps ==
    ASSUME NEW a \in LineList, NEW pos \in Nat
    PROVE  FixIndent(pos, a) \in LineList /\ LineTexts(FixIndent(pos, a)) = LineTexts(a)
<1>1. CASE a = <<>>
  BY <1>1 DEF FixIndent
<1>2. CASE a # <<>>
  <2>1. DOMAIN a = 1..Len(a) /\ 1 \in 1..Len(a) /\ \A i \in 1..Len(a) : a[i] \in CommentLines
    BY <1>2, EmptySeq DEF LineList
  <2>. DEFINE rest   == {a[i].indent : i \in {j \in 2..Len(a) : ~IsBlank(a[j])}}
              common == Least({Least(rest, 0), Offset(pos, a[1])}, 0)
              b == [i \in DOMAIN a |-> IF i = 1 THEN TrimStart(a[1]) ELSE StripIndentation(common, a[i])]
  <2>2. FixIndent(pos, a) = b
    BY <1>2 DEF FixIndent
  <2>3. common \in Nat
    <3>1. rest \in SUBSET Nat
      <4>1. \A j \in 2..Len(a) : a[j].indent \in Nat
        <5>1. \A j \in 2..Len(a) : a[j] \in CommentLines
          BY <2>1
        <5>. QED BY <5>1 DEF CommentLines
      <4>. QED BY <4>1
    <3>2. Least(rest, 0) \in Nat
      <4>. HIDE DEF rest
      <4>. QED BY <3>1, LeastType
    <3>3. Offset(pos, a[1]) \in Nat
      BY DEF Offset
    <3>4. {Least(rest, 0), Offset(pos, a[1])} \in SUBSET Nat
      BY <3>2, <3>3
    <3>. HIDE DEF rest
    <3>. QED BY <3>4, LeastType
  <2>. HIDE DEF common
  <2>4. \A i \in 1..Len(a) : b[i] \in CommentLines /\ b[i].text = a[i].text
    BY <2>1, <2>3, TrimmedLine, StrippedLine
  <2>5. b = [i \in DOMAIN a |-> b[i]]
    OBVIOUS
  <2>. HIDE DEF b
  <2>. QED BY <2>2, <2>4, <2>5, MappedLines
<1>. QED BY <1>1, <1>2

(* Normalising a block comment keeps its words. *)
LEMMA NormalisedKeeps ==
    ASSUME NEW a \in LineList, NEW pos \in Nat
    PROVE  Normalised(pos, a) \in LineList /\ LineTexts(Normalised(pos, a)) = LineTexts(a)
<1>. DEFINE b == SplitLines(a)
            c == RemoveStars(pos, b)
            d == FixIndent(pos, c)
            e == DropEmptyStart(d)
<1>1. b \in LineList /\ LineTexts(b) = LineTexts(a)
  BY SplitLinesKeep
<1>2. c \in LineList /\ LineTexts(c) = LineTexts(b)
  BY <1>1, RemoveStarsKeep
<1>3. d \in LineList /\ LineTexts(d) = LineTexts(c)
  BY <1>2, FixIndentKeeps
<1>4. e \in LineList /\ LineTexts(e) = LineTexts(d)
  BY <1>3, DroppedStart
<1>5. DropEmptyEnd(e) \in LineList /\ LineTexts(DropEmptyEnd(e)) = LineTexts(e)
  BY <1>4, DroppedEnd
<1>6. Normalised(pos, a) = DropEmptyEnd(e)
  BY DEF Normalised
<1>. QED BY <1>1, <1>2, <1>3, <1>4, <1>5, <1>6

(* Printing it does, too: only empty lines are left out or added. *)
PrintedLine(column, lines, i) ==
    IF IsBlank(lines[i]) /\ i > 1 /\ IsBlank(lines[i - 1]) THEN <<>>
    ELSE <<IF lines[i] = NoLine THEN NoLine ELSE [lines[i] EXCEPT !.indent = @ + column + 2]>>

LEMMA PrintedLineType ==
    ASSUME NEW a \in LineList, NEW column \in Nat, NEW i \in 1..Len(a)
    PROVE  PrintedLine(column, a, i) \in LineList /\ LineTexts(PrintedLine(column, a, i)) = a[i].text
<1>1. a[i] \in CommentLines
  BY DEF LineList
<1>. DEFINE skipped == IsBlank(a[i]) /\ i > 1 /\ IsBlank(a[i - 1])
            moved == [a[i] EXCEPT !.indent = @ + column + 2]
<1>2. moved \in CommentLines /\ moved.text = a[i].text
  <2>1. a[i].indent + column + 2 \in Nat
    BY <1>1 DEF CommentLines
  <2>. QED BY <1>1, <2>1 DEF CommentLines
<1>. HIDE DEF moved
<1>3. <<>> \in LineList /\ \A l \in CommentLines : <<l>> \in LineList
  BY EmptySeq DEF LineList
<1>4. CASE skipped
  <2>1. a[i].text = <<>>
    BY <1>1, <1>4, BlankText
  <2>2. PrintedLine(column, a, i) = <<>>
    BY <1>4 DEF PrintedLine
  <2>. QED BY <1>3, <2>1, <2>2, LineTextsEmpty
<1>5. CASE ~skipped /\ a[i] = NoLine
  <2>1. PrintedLine(column, a, i) = <<NoLine>>
    BY <1>5 DEF PrintedLine
  <2>. QED BY <1>1, <1>3, <1>5, <2>1, LineTextsOne
<1>6. CASE ~skipped /\ a[i] # NoLine
  <2>1. PrintedLine(column, a, i) = <<moved>>
    BY <1>6 DEF PrintedLine, moved
  <2>. QED BY <1>2, <1>3, <2>1, LineTextsOne
<1>. QED BY <1>4, <1>5, <1>6

PrintedLines(column, lines) == FlattenSeq([i \in DOMAIN lines |-> PrintedLine(column, lines, i)])

LEMMA PrintedLinesKeep ==
    ASSUME NEW a \in LineList, NEW column \in Nat
    PROVE  PrintedLines(column, a) \in LineList /\ LineTexts(PrintedLines(column, a)) = LineTexts(a)
<1>. DEFINE S == {s \in LineList : /\ PrintedLines(column, s) \in LineList
                                   /\ LineTexts(PrintedLines(column, s)) = LineTexts(s)}
<1>1. <<>> \in S
  <2>1. [i \in DOMAIN <<>> |-> PrintedLine(column, <<>>, i)] = <<>>
    OBVIOUS
  <2>2. PrintedLines(column, <<>>) = <<>>
    BY <2>1, FlattenEmpty DEF PrintedLines
  <2>. QED BY <2>2, EmptySeq DEF LineList
<1>2. ASSUME NEW s \in Seq(CommentLines), NEW l \in CommentLines, s \in S PROVE Append(s, l) \in S
  <2>. DEFINE n == Len(s)
              more == Append(s, l)
              old == [i \in DOMAIN s |-> PrintedLine(column, s, i)]
              new == [i \in DOMAIN more |-> PrintedLine(column, more, i)]
              last == PrintedLine(column, more, n + 1)
  <2>1. more \in LineList /\ s \in LineList /\ Len(more) = n + 1 /\ n \in Nat /\ more[n + 1] = l
        /\ (\A i \in 1..n : more[i] = s[i]) /\ DOMAIN s = 1..n /\ DOMAIN more = 1..(n + 1)
    BY AppendProperties DEF LineList
  <2>2. PrintedLines(column, s) \in LineList /\ LineTexts(PrintedLines(column, s)) = LineTexts(s)
    BY <1>2
  <2>. HIDE DEF S, more, n
  <2>3. last \in LineList /\ LineTexts(last) = l.text
    <3>1. n + 1 \in 1..Len(more)
      BY <2>1
    <3>. QED BY <2>1, <3>1, PrintedLineType
  <2>4. old \in Seq(LineList) /\ Len(old) = n
    <3>1. \A i \in 1..n : PrintedLine(column, s, i) \in LineList
      BY <2>1, PrintedLineType DEF n
    <3>. QED BY <2>1, <3>1
  <2>5. \A i \in 1..n : PrintedLine(column, more, i) = PrintedLine(column, s, i)
    <3>1. ASSUME NEW i \in 1..n PROVE PrintedLine(column, more, i) = PrintedLine(column, s, i)
      <4>1. more[i] = s[i] /\ (i > 1 => more[i - 1] = s[i - 1])
        BY <2>1
      <4>. QED BY <4>1 DEF PrintedLine
    <3>. QED BY <3>1
  <2>6. new = Append(old, last)
    <3>1. Append(old, last) \in Seq(LineList) /\ Len(Append(old, last)) = n + 1
          /\ (\A i \in 1..n : Append(old, last)[i] = old[i]) /\ Append(old, last)[n + 1] = last
      <4>. HIDE DEF old, last
      <4>. QED BY <2>3, <2>4, AppendProperties
    <3>2. new \in Seq(LineList) /\ Len(new) = n + 1
      <4>1. \A i \in 1..(n + 1) : PrintedLine(column, more, i) \in LineList
        BY <2>1, PrintedLineType
      <4>. QED BY <2>1, <4>1
    <3>3. ASSUME NEW i \in 1..(n + 1) PROVE new[i] = Append(old, last)[i]
      <4>1. new[i] = PrintedLine(column, more, i)
        BY <2>1
      <4>2. CASE i = n + 1
        BY <3>1, <4>1, <4>2
      <4>3. CASE i # n + 1
        <5>1. i \in 1..n /\ old[i] = PrintedLine(column, s, i)
          BY <2>1, <4>3
        <5>. HIDE DEF old, new, last
        <5>. QED BY <2>5, <3>1, <4>1, <5>1
      <4>. QED BY <4>2, <4>3
    <3>. HIDE DEF old, new, last
    <3>. QED BY <3>1, <3>2, <3>3, SeqEqual
  <2>7. PrintedLines(column, more) = FlattenSeq(new) /\ PrintedLines(column, s) = FlattenSeq(old)
    BY DEF PrintedLines
  <2>. HIDE DEF old, new, last
  <2>8. FlattenSeq(Append(old, last)) = FlattenSeq(old) \o last
    BY <2>3, <2>4, FlattenAppend DEF LineList
  <2>9. PrintedLines(column, more) = PrintedLines(column, s) \o last
    BY <2>6, <2>7, <2>8
  <2>10. PrintedLines(column, more) \in LineList
         /\ LineTexts(PrintedLines(column, more)) = LineTexts(PrintedLines(column, s)) \o LineTexts(last)
    <3>. DEFINE p == PrintedLines(column, s)
    <3>1. p \in Seq(CommentLines) /\ last \in Seq(CommentLines)
      BY <2>2, <2>3 DEF LineList
    <3>. HIDE DEF p
    <3>2. p \o last \in Seq(CommentLines) /\ LineTexts(p \o last) = LineTexts(p) \o LineTexts(last)
      BY <3>1, LineTextsConcat
    <3>. QED BY <2>9, <3>2 DEF p, LineList
  <2>11. LineTexts(more) = LineTexts(s) \o l.text
    BY LineTextsAppend DEF more
  <2>12. more \in S
    BY <2>1, <2>2, <2>3, <2>10, <2>11 DEF S
  <2>. QED BY <2>12 DEF more
<1>. HIDE DEF S
<1>3. \A s \in Seq(CommentLines) : s \in S
  BY <1>1, <1>2, SeqInd
<1>. QED BY <1>3 DEF S, LineList

LEMMA PrintedKeeps ==
    ASSUME NEW a \in LineList, NEW column \in Nat
    PROVE  Printed(column, a) \in LineList /\ LineTexts(Printed(column, a)) = LineTexts(a)
<1>. DEFINE first == <<NoLine>>
            last  == <<Spaces(column)>>
            mid   == PrintedLines(column, a)
<1>1. first \in Seq(CommentLines) /\ last \in Seq(CommentLines) /\ LineTexts(first) = <<>> /\ LineTexts(last) = <<>>
  BY SpacesType, LineTextsOne
<1>2. mid \in Seq(CommentLines) /\ LineTexts(mid) = LineTexts(a)
  BY PrintedLinesKeep DEF LineList
<1>3. Printed(column, a) = first \o mid \o last
  BY DEF Printed, PrintedLines, PrintedLine
<1>. HIDE DEF first, last, mid
<1>4. first \o mid \in Seq(CommentLines) /\ LineTexts(first \o mid) = LineTexts(first) \o LineTexts(mid)
  BY <1>1, <1>2, LineTextsConcat
<1>5. (first \o mid) \o last \in Seq(CommentLines)
      /\ LineTexts((first \o mid) \o last) = LineTexts(first \o mid) \o LineTexts(last)
  BY <1>1, <1>4, LineTextsConcat
<1>6. LineTexts(a) \in Seq(Nat)
  BY LineTextsMapped DEF LineList, Texts
<1>7. <<>> \o LineTexts(a) = LineTexts(a) /\ LineTexts(a) \o <<>> = LineTexts(a)
  BY <1>6, ConcatEmptySeq
<1>. QED BY <1>1, <1>2, <1>3, <1>4, <1>5, <1>7 DEF LineList

-----------------------------------------------------------------------------
(* Raw trivia: the items of the source, their block comments normalised.    *)

LEMMA ItemTypes ==
    /\ SourceItems \subseteq AllItems /\ Pieces \subseteq AllItems
    /\ Seq(SourceItems) \subseteq Seq(AllItems) /\ Seq(Pieces) \subseteq Seq(AllItems)
    /\ \A x \in SourceItems : x.tag \in SourceTags /\ x.text \in Texts /\ x.lines \in LineList
                              /\ x.n \in Nat /\ x.col \in Nat /\ x.doc \in BOOLEAN
<1>1. \A tags : tags \subseteq AllTags => Items(tags) \subseteq AllItems
  BY DEF Items, AllItems
<1>2. SourceItems \subseteq AllItems /\ Pieces \subseteq AllItems
  BY <1>1 DEF SourceItems, Pieces, AllTags
<1>3. Seq(SourceItems) \subseteq Seq(AllItems) /\ Seq(Pieces) \subseteq Seq(AllItems)
  BY <1>2, SeqMonotonic
<1>. QED BY <1>2, <1>3 DEF SourceItems, Items, LineList

(* An item that is put together anew. *)
LEMMA ItemType ==
    ASSUME NEW tags, NEW tag \in tags, NEW text \in Texts, NEW doc \in BOOLEAN,
           NEW lines \in LineList, NEW n \in Nat, NEW col \in Nat
    PROVE  Item(tag, text, doc, lines, n, col) \in Items(tags)
  BY DEF Item, Items, LineList

LEMMA EmptyTypes == <<>> \in Texts /\ <<>> \in LineList
  BY EmptySeq DEF Texts, LineList

LEMMA SpecialTypes ==
    /\ \A n \in Nat : NewlineRun(n) \in SourceItems
    /\ \A text \in Texts, col \in Nat : LineComment(text, col) \in SourceItems /\ LineComment(text, col) \in Pieces
    /\ \A doc \in BOOLEAN, lines \in LineList, col \in Nat :
         BlockComment(doc, lines, col) \in SourceItems /\ BlockComment(doc, lines, col) \in Pieces
    /\ EmptyLine \in Pieces
<1>1. \A n \in Nat : NewlineRun(n) \in SourceItems
  BY EmptyTypes, ItemType DEF NewlineRun, SourceItems, SourceTags, Formed, Item
<1>2. ASSUME NEW text \in Texts, NEW col \in Nat
      PROVE  LineComment(text, col) \in SourceItems /\ LineComment(text, col) \in Pieces
  <2>1. \A tags : "LineComment" \in tags => LineComment(text, col) \in Items(tags)
    BY EmptyTypes, ItemType DEF LineComment
  <2>2. Formed(LineComment(text, col)) /\ LineComment(text, col).tag = "LineComment"
    BY DEF Formed, LineComment, Item
  <2>. QED BY <2>1, <2>2 DEF SourceItems, Pieces, SourceTags, AllTags
<1>3. ASSUME NEW doc \in BOOLEAN, NEW lines \in LineList, NEW col \in Nat
      PROVE  BlockComment(doc, lines, col) \in SourceItems /\ BlockComment(doc, lines, col) \in Pieces
  <2>1. \A tags : "BlockComment" \in tags => BlockComment(doc, lines, col) \in Items(tags)
    BY EmptyTypes, ItemType DEF BlockComment
  <2>2. Formed(BlockComment(doc, lines, col)) /\ BlockComment(doc, lines, col).tag = "BlockComment"
    BY DEF Formed, BlockComment, Item
  <2>. QED BY <2>1, <2>2 DEF SourceItems, Pieces, SourceTags, AllTags
<1>4. EmptyLine \in Pieces
  <2>1. EmptyLine \in Items(AllTags \ {"Newlines"})
    BY EmptyTypes, ItemType DEF EmptyLine, AllTags, SourceTags
  <2>2. Formed(EmptyLine)
    BY DEF Formed, EmptyLine, Item
  <2>. QED BY <2>1, <2>2 DEF Pieces
<1>. QED BY <1>1, <1>2, <1>3, <1>4

(* The words of comments.                                                   *)
LEMMA CommentWords ==
    /\ \A text \in Texts, col \in Nat : WordsOf(LineComment(text, col)) = Written(text)
    /\ \A doc \in BOOLEAN, lines \in LineList, col \in Nat :
         WordsOf(BlockComment(doc, lines, col)) = Written(LineTexts(lines))
<1>0. Written(<<>>) = <<>> /\ LineTexts(<<>>) = <<>>
  BY WrittenEmpty, LineTextsEmpty
<1>1. ASSUME NEW text \in Texts, NEW col \in Nat PROVE WordsOf(LineComment(text, col)) = Written(text)
  <2>. DEFINE c == LineComment(text, col)
  <2>1. c \in Items(SourceTags) /\ c.text = text /\ c.lines = <<>>
    BY SpecialTypes DEF SourceItems, LineComment, Item
  <2>. HIDE DEF c
  <2>2. WordsOf(c) = Written(c.text) \o Written(LineTexts(c.lines))
    BY <2>1, WordsOfType
  <2>3. Written(text) \in Seq(Shown)
    BY WrittenType
  <2>4. Written(text) \o <<>> = Written(text)
    BY <2>3, ConcatEmptySeq
  <2>. QED BY <1>0, <2>1, <2>2, <2>4 DEF c
<1>2. ASSUME NEW doc \in BOOLEAN, NEW lines \in LineList, NEW col \in Nat
      PROVE  WordsOf(BlockComment(doc, lines, col)) = Written(LineTexts(lines))
  <2>. DEFINE c == BlockComment(doc, lines, col)
  <2>1. c \in Items(SourceTags) /\ c.text = <<>> /\ c.lines = lines
    BY SpecialTypes DEF SourceItems, BlockComment, Item
  <2>. HIDE DEF c
  <2>2. WordsOf(c) = Written(c.text) \o Written(LineTexts(c.lines))
    BY <2>1, WordsOfType
  <2>3. Written(LineTexts(lines)) \in Seq(Shown)
    BY LineTextsMapped, WrittenType DEF LineList
  <2>4. <<>> \o Written(LineTexts(lines)) = Written(LineTexts(lines))
    BY <2>3, ConcatEmptySeq
  <2>. QED BY <1>0, <2>1, <2>2, <2>4 DEF c
<1>. QED BY <1>1, <1>2

(* A block comment of the source says what its lines say. *)
LEMMA BlockWords ==
    ASSUME NEW x \in SourceItems, x.tag = "BlockComment"
    PROVE  x.text = <<>> /\ WordsOf(x) = Written(LineTexts(x.lines))
<1>1. x \in Items(SourceTags) /\ x.text = <<>> /\ x.lines \in LineList
  BY DEF SourceItems, Formed, Items, LineList
<1>2. WordsOf(x) = Written(x.text) \o Written(LineTexts(x.lines))
  BY <1>1, WordsOfType
<1>3. Written(LineTexts(x.lines)) \in Seq(Shown)
  BY <1>1, LineTextsMapped, WrittenType DEF LineList
<1>4. <<>> \o Written(LineTexts(x.lines)) = Written(LineTexts(x.lines))
  BY <1>3, ConcatEmptySeq
<1>. QED BY <1>1, <1>2, <1>4, WrittenEmpty

LEMMA RawKeeps ==
    ASSUME NEW x \in SourceItems
    PROVE  /\ Raw(x) \in SourceItems /\ Alike(x, Raw(x))
           /\ x.tag # "BlockComment" => Raw(x) = x
<1>0. x.tag # "BlockComment" => Raw(x) = x
  BY DEF Raw
<1>1. CASE x.tag # "BlockComment"
  BY <1>0, <1>1 DEF Alike
<1>2. CASE x.tag = "BlockComment"
  <2>. DEFINE lines == Normalised(x.col, x.lines)
  <2>1. lines \in LineList /\ LineTexts(lines) = LineTexts(x.lines)
    BY ItemTypes, NormalisedKeeps
  <2>. HIDE DEF lines
  <2>2. Raw(x) = BlockComment(x.doc, lines, 0)
    BY <1>2 DEF Raw, lines
  <2>3. x.doc \in BOOLEAN
    BY ItemTypes
  <2>4. Raw(x) \in SourceItems /\ WordsOf(Raw(x)) = Written(LineTexts(lines))
    BY <2>1, <2>2, <2>3, SpecialTypes, CommentWords
  <2>5. Raw(x).tag = "BlockComment"
    BY <2>2 DEF BlockComment, Item
  <2>6. WordsOf(x) = Written(LineTexts(x.lines))
    BY <1>2, BlockWords
  <2>. QED BY <1>2, <2>1, <2>4, <2>5, <2>6 DEF Alike
<1>. QED BY <1>0, <1>1, <1>2

LEMMA RawTriviaKeeps ==
    ASSUME NEW pts \in Seq(SourceItems)
    PROVE  /\ RawTrivia(pts) \in Seq(SourceItems) /\ Len(RawTrivia(pts)) = Len(pts)
           /\ \A i \in 1..Len(pts) : /\ RawTrivia(pts)[i].tag = pts[i].tag
                                     /\ pts[i].tag # "BlockComment" => RawTrivia(pts)[i] = pts[i]
           /\ Words(RawTrivia(pts)) = Words(pts)
<1>. DEFINE r == RawTrivia(pts)
            n == Len(pts)
<1>1. n \in Nat /\ DOMAIN pts = 1..n /\ \A i \in 1..n : pts[i] \in SourceItems
  OBVIOUS
<1>2. r = [i \in 1..n |-> Raw(pts[i])]
  BY <1>1 DEF RawTrivia
<1>3. \A i \in 1..n : Raw(pts[i]) \in SourceItems /\ Alike(pts[i], Raw(pts[i]))
                      /\ (pts[i].tag # "BlockComment" => Raw(pts[i]) = pts[i])
  BY <1>1, RawKeeps
<1>. HIDE DEF r, n
<1>4. r \in [1..n -> SourceItems]
  BY <1>2, <1>3
<1>5. r \in Seq(SourceItems) /\ Len(r) = n /\ \A i \in 1..n : r[i] = Raw(pts[i])
  BY <1>1, <1>2, <1>4
<1>6. AllAlike(pts, r)
  BY <1>3, <1>5 DEF AllAlike, n
<1>7. pts \in Seq(AllItems) /\ r \in Seq(AllItems)
  BY <1>5, ItemTypes
<1>8. Told(Untold, pts) = Told(Untold, r)
  BY <1>6, <1>7, ToldAlike, WordsTold
<1>9. Words(r) = Words(pts)
  BY <1>7, <1>8, WordsTold
<1>10. \A i \in 1..n : r[i].tag = pts[i].tag /\ (pts[i].tag # "BlockComment" => r[i] = pts[i])
  BY <1>3, <1>5 DEF Alike
<1>. QED BY <1>5, <1>9, <1>10 DEF r, n

-----------------------------------------------------------------------------
(* Leading trivia.                                                          *)

LeadStates == [newlines : Nat, result : Seq(Pieces)]
NoLead     == [newlines |-> 0, result |-> <<>>]
Lead(items) == FoldLeft(ConvertStep, NoLead, items)
LeadFun    == [p \in LeadStates \X SourceItems |-> ConvertStep(p[1], p[2])]

(* A block comment of one line becomes a line comment, its star removed.     *)
LEMMA OneLinerText ==
    ASSUME NEW x \in SourceItems, OneLiner(x)
    PROVE  LineText(x.lines[1]) \in Texts /\ Written(LineText(x.lines[1])) = WordsOf(x)
<1>. DEFINE l == x.lines[1]
<1>0. x.lines \in LineList
  BY ItemTypes
<1>1. x.tag = "BlockComment" /\ Len(x.lines) = 1
  BY DEF OneLiner
<1>2. l \in CommentLines /\ x.lines = <<l>> /\ l.text \in Texts
  <2>1. 1 \in 1..Len(x.lines) /\ x.lines \in Seq(CommentLines)
    BY <1>0, <1>1 DEF LineList
  <2>2. l \in CommentLines
    BY <2>1
  <2>3. <<l>> \in Seq(CommentLines) /\ Len(<<l>>) = 1 /\ <<l>>[1] = x.lines[1]
    BY <2>2
  <2>. HIDE DEF l
  <2>4. \A i \in 1..1 : <<l>>[i] = x.lines[i]
    BY <2>3
  <2>5. x.lines = <<l>>
    BY <1>1, <2>1, <2>3, <2>4, SeqEqual
  <2>. QED BY <2>2, <2>5 DEF CommentLines
<1>3. LineTexts(x.lines) = l.text
  <2>. HIDE DEF l
  <2>. QED BY <1>2, LineTextsOne
<1>4. LineText(l) \in Texts /\ Written(LineText(l)) = Written(l.text)
  <2>. HIDE DEF l
  <2>1. <<0>> \in Texts /\ <<>> \in Texts /\ Written(<<0>>) = <<>> /\ Written(<<>>) = <<>>
    <3>1. <<0>> \in Seq(Nat)
      OBVIOUS
    <3>. QED BY <3>1, EmptyTypes, WrittenStar, WrittenEmpty DEF Texts
  <2>. DEFINE star == IF l.star THEN <<0>> ELSE <<>>
  <2>2. star \in Texts /\ Written(star) = <<>>
    BY <2>1
  <2>3. LineText(l) = star \o l.text
    BY DEF LineText
  <2>. HIDE DEF star
  <2>4. star \o l.text \in Texts /\ Written(star \o l.text) = Written(star) \o Written(l.text)
    BY <1>2, <2>2, WrittenConcat
  <2>5. Written(l.text) \in Seq(Shown)
    BY <1>2, WrittenType
  <2>6. <<>> \o Written(l.text) = Written(l.text)
    BY <2>5, ConcatEmptySeq
  <2>. QED BY <2>2, <2>3, <2>4, <2>6
<1>5. WordsOf(x) = Written(l.text)
  BY <1>1, <1>3, BlockWords
<1>. QED BY <1>4, <1>5

(* The piece of an item has the words of the item.                          *)
LEMMA ConvertedKeeps ==
    ASSUME NEW x \in SourceItems, x.tag # "Newlines"
    PROVE  \/ Converted(x) = <<>> /\ WordsOf(x) = <<>>
           \/ \E y \in Pieces : /\ Converted(x) = <<y>> /\ WordsOf(y) = WordsOf(x) /\ y.tag # "EmptyLine"
                                /\ y.tag = "LanguageAnnotation" <=> x.tag = "LanguageAnnotation"
                                /\ y.tag = "LanguageAnnotation" => x = y
<1>0. x.tag \in SourceTags /\ x.tag # "EmptyLine" /\ x.text \in Texts /\ x.lines \in LineList
  BY ItemTypes DEF SourceTags
<1>1. CASE x.tag = "BlockComment" /\ x.lines = <<>>
  <2>0. ~OneLiner(x) /\ x.tag # "LineComment"
    BY <1>1, EmptySeq DEF OneLiner
  <2>1. Converted(x) = <<>>
    BY <1>1, <2>0 DEF Converted
  <2>2. WordsOf(x) = Written(LineTexts(<<>>))
    BY <1>1, BlockWords
  <2>. QED BY <2>1, <2>2, LineTextsEmpty, WrittenEmpty
<1>2. CASE OneLiner(x)
  <2>. DEFINE y == LineComment(LineText(x.lines[1]), 0)
  <2>1. x.tag = "BlockComment" /\ x.lines # <<>>
    BY <1>2, EmptySeq DEF OneLiner
  <2>2. Converted(x) = <<y>>
    BY <1>2, <2>1 DEF Converted
  <2>3. LineText(x.lines[1]) \in Texts /\ Written(LineText(x.lines[1])) = WordsOf(x)
    BY <1>2, OneLinerText
  <2>4. y \in Pieces /\ WordsOf(y) = Written(LineText(x.lines[1])) /\ y.tag = "LineComment"
    <3>1. 0 \in Nat
      OBVIOUS
    <3>. QED BY <2>3, <3>1, SpecialTypes, CommentWords DEF LineComment, Item
  <2>. HIDE DEF y
  <2>. QED BY <2>1, <2>2, <2>3, <2>4
<1>3. CASE x.tag = "LineComment"
  <2>. DEFINE y == LineComment(x.text, 0)
  <2>1. Converted(x) = <<y>>
    BY <1>3 DEF Converted, OneLiner
  <2>2. y \in Pieces /\ WordsOf(y) = Written(x.text) /\ y.tag = "LineComment"
    <3>1. 0 \in Nat
      OBVIOUS
    <3>. QED BY <1>0, <3>1, SpecialTypes, CommentWords DEF LineComment, Item
  <2>3. x.lines = <<>>
    BY <1>3 DEF SourceItems, Formed
  <2>4. WordsOf(x) = Written(x.text) \o Written(LineTexts(x.lines))
    BY WordsOfType DEF SourceItems
  <2>5. Written(x.text) \in Seq(Shown)
    BY <1>0, WrittenType
  <2>6. Written(x.text) \o <<>> = Written(x.text)
    BY <2>5, ConcatEmptySeq
  <2>7. WordsOf(x) = Written(x.text)
    BY <2>3, <2>4, <2>6, LineTextsEmpty, WrittenEmpty
  <2>. HIDE DEF y
  <2>. QED BY <1>3, <2>1, <2>2, <2>7
<1>4. CASE ~(x.tag = "BlockComment" /\ x.lines = <<>>) /\ ~OneLiner(x) /\ x.tag # "LineComment"
  <2>1. Converted(x) = <<x>>
    BY <1>4 DEF Converted
  <2>2. x \in Pieces
    <3>1. x \in Items(AllTags \ {"Newlines"}) /\ Formed(x)
      BY <1>0 DEF SourceItems, Items, AllTags
    <3>. QED BY <1>0, <3>1 DEF Pieces
  <2>. QED BY <1>0, <2>1, <2>2
<1>. QED BY <1>1, <1>2, <1>3, <1>4

LEMMA BlankLineType ==
    ASSUME NEW n \in Nat
    PROVE  /\ BlankLine(n) \in Seq(Pieces)
           /\ BlankLine(n) = IF n > 1 THEN <<EmptyLine>> ELSE <<>>
  BY SpecialTypes, EmptySeq DEF BlankLine

LEMMA ConvertedType ==
    ASSUME NEW x \in SourceItems, x.tag # "Newlines"
    PROVE  Converted(x) \in Seq(Pieces)
<1>1. CASE Converted(x) = <<>>
  BY <1>1, EmptySeq
<1>2. CASE \E y \in Pieces : Converted(x) = <<y>>
  BY <1>2
<1>. QED BY <1>1, <1>2, ConvertedKeeps

LEMMA ConvertStepType ==
    ASSUME NEW st \in LeadStates, NEW x \in SourceItems
    PROVE  /\ ConvertStep(st, x) \in LeadStates
           /\ x.tag = "Newlines" => ConvertStep(st, x) = [newlines |-> st.newlines + x.n, result |-> st.result]
           /\ x.tag # "Newlines" =>
                ConvertStep(st, x) = [newlines |-> 0, result |-> st.result \o BlankLine(st.newlines) \o Converted(x)]
<1>1. st.newlines \in Nat /\ st.result \in Seq(Pieces) /\ x.n \in Nat
  BY ItemTypes DEF LeadStates
<1>2. CASE x.tag = "Newlines"
  <2>1. [st EXCEPT !.newlines = @ + x.n] = [newlines |-> st.newlines + x.n, result |-> st.result]
    BY DEF LeadStates
  <2>2. ConvertStep(st, x) = [newlines |-> st.newlines + x.n, result |-> st.result]
    BY <1>2, <2>1 DEF ConvertStep
  <2>. QED BY <1>1, <1>2, <2>2 DEF LeadStates
<1>3. CASE x.tag # "Newlines"
  <2>. DEFINE b == BlankLine(st.newlines)
              c == Converted(x)
  <2>1. b \in Seq(Pieces) /\ c \in Seq(Pieces)
    BY <1>1, <1>3, BlankLineType, ConvertedType
  <2>2. ConvertStep(st, x) = [newlines |-> 0, result |-> st.result \o b \o c]
    BY <1>3 DEF ConvertStep
  <2>. HIDE DEF b, c
  <2>3. st.result \o b \o c \in Seq(Pieces)
    BY <1>1, <2>1, ConcatProperties
  <2>4. ConvertStep(st, x) \in LeadStates
    BY <2>2, <2>3 DEF LeadStates
  <2>. QED BY <1>3, <2>2, <2>4 DEF b, c
<1>. QED BY <1>2, <1>3

LEMMA LeadFolds ==
    ASSUME NEW items \in Seq(SourceItems)
    PROVE  Folded(Lead(items), LeadStates, NoLead, LeadFun, items)
<1>. DEFINE Rec(h) == h = [t \in SUBSET DOMAIN items |->
                             IF t = {} THEN NoLead ELSE ConvertStep(h[t \ {Max(t)}], items[Max(t)])]
            n == Len(items)
<1>0. DOMAIN items = 1..n /\ n \in Nat /\ \A k \in 1..n : items[k] \in SourceItems
  OBVIOUS
<1>1. LeadFun \in [LeadStates \X SourceItems -> LeadStates] /\ NoLead \in LeadStates
  BY ConvertStepType, EmptySeq DEF LeadFun, NoLead, LeadStates
<1>2. PICK h \in [SUBSET (1..n) -> LeadStates] : IsIteration(h, n, NoLead, LeadFun, items)
  BY <1>1, IterationExists
<1>3. \A t \in SUBSET (1..n) : t # {} => Max(t) \in 1..n
  BY <1>0, MaxOfPart
<1>4. Rec(h)
  <2>1. ASSUME NEW t \in SUBSET (1..n)
        PROVE  h[t] = IF t = {} THEN NoLead ELSE ConvertStep(h[t \ {Max(t)}], items[Max(t)])
    <3>1. CASE t = {}
      BY <1>2, <3>1 DEF IsIteration
    <3>2. CASE t # {}
      <4>1. h[t \ {Max(t)}] \in LeadStates /\ items[Max(t)] \in SourceItems
        BY <1>0, <1>3, <3>2
      <4>2. h[t] = LeadFun[<<h[t \ {Max(t)}], items[Max(t)]>>]
        BY <1>2, <3>2 DEF IsIteration
      <4>. QED BY <3>2, <4>1, <4>2 DEF LeadFun
    <3>. QED BY <3>1, <3>2
  <2>. QED BY <1>0, <2>1
<1>. DEFINE g == CHOOSE f : Rec(f)
<1>5. Rec(g)
  <2>. HIDE DEF Rec
  <2>. QED BY <1>4
<1>6. Lead(items) = g[1..n]
  <2>1. Lead(items) = (CHOOSE f : Rec(f))[DOMAIN items]
    BY DEF Lead, FoldLeft, MapThenFoldSet
  <2>. QED BY <1>0, <2>1
<1>. HIDE DEF g
<1>7. StepsWhereTyped(g, n, LeadStates, NoLead, LeadFun, items)
  <2>1. \A t \in SUBSET (1..n) : g[t] = IF t = {} THEN NoLead ELSE ConvertStep(g[t \ {Max(t)}], items[Max(t)])
    BY <1>0, <1>5
  <2>. HIDE DEF Rec
  <2>2. g[{}] = NoLead
    BY <2>1
  <2>3. ASSUME NEW t \in SUBSET (1..n), t # {}, g[t \ {Max(t)}] \in LeadStates
        PROVE  g[t] = LeadFun[<<g[t \ {Max(t)}], items[Max(t)]>>]
    <3>1. items[Max(t)] \in SourceItems
      BY <1>0, <1>3, <2>3
    <3>2. g[t] = ConvertStep(g[t \ {Max(t)}], items[Max(t)])
      BY <2>1, <2>3
    <3>. QED BY <2>3, <3>1, <3>2 DEF LeadFun
  <2>. QED BY <2>2, <2>3 DEF StepsWhereTyped
<1>8. Folded(g[1..n], LeadStates, NoLead, LeadFun, items)
  <2>. HIDE DEF Rec
  <2>. QED BY <1>1, <1>7, IterationFolds
<1>. QED BY <1>6, <1>8

LEMMA LeadEmpty == Lead(<<>>) = NoLead
<1>1. <<>> \in Seq(SourceItems)
  BY EmptySeq
<1>. QED BY <1>1, LeadFolds, FoldedEmpty

LEMMA LeadAppend ==
    ASSUME NEW items \in Seq(SourceItems), NEW x \in SourceItems
    PROVE  /\ Lead(items) \in LeadStates
           /\ Lead(Append(items, x)) = ConvertStep(Lead(items), x)
<1>1. Append(items, x) \in Seq(SourceItems)
  OBVIOUS
<1>2. /\ Folded(Lead(items), LeadStates, NoLead, LeadFun, items)
      /\ Folded(Lead(Append(items, x)), LeadStates, NoLead, LeadFun, Append(items, x))
  BY <1>1, LeadFolds
<1>3. Lead(Append(items, x)) = LeadFun[<<Lead(items), x>>] /\ Lead(items) \in LeadStates
  BY <1>2, FoldedAppend
<1>. QED BY <1>3 DEF LeadFun

LEMMA LeadType ==
    ASSUME NEW items \in Seq(SourceItems)
    PROVE  /\ Lead(items).newlines \in Nat /\ Lead(items).result \in Seq(Pieces)
           /\ ConvertLeading(items) = Lead(items).result \o BlankLine(Lead(items).newlines)
           /\ ConvertLeading(items) \in Seq(Pieces)
<1>1. Folded(Lead(items), LeadStates, NoLead, LeadFun, items)
  BY LeadFolds
<1>2. Len(items) \in 0..Len(items)
  OBVIOUS
<1>3. Lead(items) \in LeadStates
  BY <1>1, <1>2 DEF Folded
<1>4. Lead(items).newlines \in Nat /\ Lead(items).result \in Seq(Pieces)
  BY <1>3 DEF LeadStates
<1>5. ConvertLeading(items) = Lead(items).result \o BlankLine(Lead(items).newlines)
  BY DEF ConvertLeading, Lead, NoLead
<1>6. BlankLine(Lead(items).newlines) \in Seq(Pieces)
  BY <1>4, BlankLineType
<1>. QED BY <1>4, <1>5, <1>6, ConcatProperties

(* A blank line that is noted twice is one. *)
LEMMA ParagraphsTwice ==
    ASSUME NEW seen \in Texts, NEW f \in Nat, NEW g \in Nat, f # 1
    PROVE  Paragraphs(Paragraphs(seen, f), g) = Paragraphs(seen, f + (IF g > 1 THEN 2 ELSE 0))
<1>. DEFINE p == Paragraphs(seen, f)
<1>0. seen \in Seq(Nat) /\ BlankLines \in Nat
  BY DEF Texts, BlankLines
<1>1. CASE f > 1
  <2>1. p # <<>> /\ Last(p) = BlankLines
    <3>1. CASE seen = <<>> \/ Last(seen) # BlankLines
      <4>1. p = Append(seen, BlankLines)
        BY <1>1, <3>1 DEF Paragraphs
      <4>2. Append(seen, BlankLines) # <<>> /\ Last(Append(seen, BlankLines)) = BlankLines
        BY <1>0, FrontAppend
      <4>. QED BY <4>1, <4>2
    <3>2. CASE ~(seen = <<>> \/ Last(seen) # BlankLines)
      BY <3>2 DEF Paragraphs
    <3>. QED BY <3>1, <3>2
  <2>. HIDE DEF p
  <2>2. Paragraphs(p, g) = p
    BY <2>1 DEF Paragraphs
  <2>3. \A h \in Nat : h > 1 => Paragraphs(seen, h) = p
    BY <1>1 DEF Paragraphs, p
  <2>4. f + (IF g > 1 THEN 2 ELSE 0) > 1 /\ f + (IF g > 1 THEN 2 ELSE 0) \in Nat
    BY <1>1
  <2>. QED BY <2>2, <2>3, <2>4 DEF p
<1>2. CASE f = 0
  <2>1. p = seen
    BY <1>2 DEF Paragraphs
  <2>. HIDE DEF p
  <2>2. CASE g > 1
    BY <1>2, <2>1, <2>2 DEF Paragraphs, p
  <2>3. CASE ~(g > 1)
    BY <1>2, <2>1, <2>3 DEF Paragraphs, p
  <2>. QED BY <2>2, <2>3
<1>. QED BY <1>1, <1>2

(* Blank lines behind what was read. *)
LEMMA ToldBlank ==
    ASSUME NEW st \in WordStates, NEW items \in Seq(Pieces), NEW n \in Nat
    PROVE  /\ items \o BlankLine(n) \in Seq(Pieces)
           /\ Told(st, items \o BlankLine(n)) =
                [seen |-> Told(st, items).seen, feeds |-> Told(st, items).feeds + (IF n > 1 THEN 2 ELSE 0)]
<1>0. items \in Seq(AllItems) /\ EmptyLine \in AllItems /\ EmptyLine \in Pieces /\ EmptyLine.tag = "EmptyLine"
  BY ItemTypes, SpecialTypes DEF EmptyLine, Item
<1>1. Told(st, items) \in WordStates
  BY <1>0, ToldType
<1>2. CASE n > 1
  <2>1. items \o BlankLine(n) = Append(items, EmptyLine)
    BY <1>0, <1>2, BlankLineType, OneMore
  <2>2. Told(st, Append(items, EmptyLine)) = WordStep(Told(st, items), EmptyLine)
    BY <1>0, ToldAppend
  <2>3. WordStep(Told(st, items), EmptyLine) = [seen |-> Told(st, items).seen, feeds |-> Told(st, items).feeds + 2]
    BY <1>0, <1>1, WordStepType
  <2>4. Append(items, EmptyLine) \in Seq(Pieces)
    BY <1>0
  <2>. QED BY <1>2, <2>1, <2>2, <2>3, <2>4
<1>3. CASE ~(n > 1)
  <2>1. items \o BlankLine(n) = items
    BY <1>3, BlankLineType, ConcatEmptySeq
  <2>2. Told(st, items) = [seen |-> Told(st, items).seen, feeds |-> Told(st, items).feeds + 0]
    <3>1. Told(st, items).feeds \in Nat
      BY <1>1 DEF WordStates
    <3>2. Told(st, items).feeds + 0 = Told(st, items).feeds
      BY <3>1
    <3>. QED BY <1>1, <3>2 DEF WordStates
  <2>. QED BY <1>3, <2>1, <2>2
<1>. QED BY <1>2, <1>3

(* What the lexer made of the items so far and what they say.               *)
LeadAgrees(items) ==
    /\ Lead(items).newlines = Told(Untold, items).feeds
    /\ Told(Untold, Lead(items).result).feeds # 1
    /\ Closed(Told(Untold, Lead(items).result)) = Told(Untold, items).seen

LEMMA LeadAgreesAlways == ASSUME NEW items \in Seq(SourceItems) PROVE LeadAgrees(items)
<1>. DEFINE S == {t \in Seq(SourceItems) : LeadAgrees(t)}
<1>1. <<>> \in S
  <2>1. Told(Untold, <<>>) = Untold /\ Lead(<<>>) = NoLead
    BY WordsTold, EmptySeq, ToldEmpty, LeadEmpty
  <2>. QED BY <2>1, EmptySeq DEF LeadAgrees, Untold, NoLead, Closed, Paragraphs
<1>2. ASSUME NEW s \in Seq(SourceItems), NEW x \in SourceItems, s \in S PROVE Append(s, x) \in S
  <2>. DEFINE st == Told(Untold, s)
              ld == Lead(s)
              to == Told(Untold, ld.result)
  <2>1. LeadAgrees(s) /\ Append(s, x) \in Seq(SourceItems)
    BY <1>2
  <2>. HIDE DEF S
  <2>2. st \in WordStates /\ Told(Untold, Append(s, x)) = WordStep(st, x) /\ x \in AllItems
    <3>1. s \in Seq(AllItems) /\ x \in AllItems /\ Untold \in WordStates
      BY ItemTypes, WordsTold, EmptySeq
    <3>. QED BY <3>1, ToldAppend
  <2>3. ld \in LeadStates /\ Lead(Append(s, x)) = ConvertStep(ld, x)
    BY LeadAppend
  <2>4. ld.newlines \in Nat /\ ld.result \in Seq(Pieces) /\ ld.result \in Seq(AllItems)
    BY <2>3, ItemTypes DEF LeadStates
  <2>5. to \in WordStates /\ Untold \in WordStates
    BY <2>4, WordsTold
  <2>6. ld.newlines = st.feeds /\ to.feeds # 1 /\ Closed(to) = st.seen
    BY <2>1 DEF LeadAgrees
  <2>7. CASE x.tag = "Newlines"
    <3>1. WordStep(st, x) = [seen |-> st.seen, feeds |-> st.feeds + x.n]
      BY <2>2, <2>7, WordStepType
    <3>2. ConvertStep(ld, x) = [newlines |-> ld.newlines + x.n, result |-> ld.result]
      BY <2>3, <2>7, ConvertStepType
    <3>. HIDE DEF st, ld
    <3>3. Told(Untold, Append(s, x)).seen = st.seen /\ Told(Untold, Append(s, x)).feeds = st.feeds + x.n
      BY <2>2, <3>1
    <3>4. Lead(Append(s, x)).result = ld.result /\ Lead(Append(s, x)).newlines = ld.newlines + x.n
      BY <2>3, <3>2
    <3>5. LeadAgrees(Append(s, x))
      BY <2>6, <3>3, <3>4 DEF LeadAgrees
    <3>. QED BY <2>1, <3>5 DEF S
  <2>8. CASE x.tag # "Newlines"
    <3>. DEFINE r == ld.result \o BlankLine(ld.newlines)
                c == Converted(x)
                w == WordsOf(x)
    <3>0. x.tag # "EmptyLine"
      BY ItemTypes DEF SourceTags
    <3>1. WordStep(st, x) = [seen |-> Paragraphs(st.seen, st.feeds) \o w, feeds |-> 0]
      BY <2>2, <2>8, <3>0, WordStepType
    <3>2. ConvertStep(ld, x) = [newlines |-> 0, result |-> r \o c]
      BY <2>3, <2>8, ConvertStepType
    <3>3. r \in Seq(Pieces) /\ c \in Seq(Pieces) /\ r \in Seq(AllItems)
          /\ Told(Untold, r) = [seen |-> to.seen, feeds |-> to.feeds + (IF ld.newlines > 1 THEN 2 ELSE 0)]
      BY <2>4, <2>5, <2>8, ToldBlank, ConvertedType, ItemTypes
    <3>4. Closed(Told(Untold, r)) = Paragraphs(st.seen, st.feeds)
      <4>1. to.seen \in Texts /\ to.feeds \in Nat /\ st.feeds \in Nat
        BY <2>2, <2>5 DEF WordStates
      <4>2. Paragraphs(Paragraphs(to.seen, to.feeds), st.feeds)
              = Paragraphs(to.seen, to.feeds + (IF st.feeds > 1 THEN 2 ELSE 0))
        BY <2>6, <4>1, ParagraphsTwice
      <4>3. Paragraphs(to.seen, to.feeds) = st.seen
        BY <2>6 DEF Closed
      <4>4. Closed(Told(Untold, r)) = Paragraphs(to.seen, to.feeds + (IF ld.newlines > 1 THEN 2 ELSE 0))
        <5>. HIDE DEF r, to
        <5>. QED BY <3>3 DEF Closed
      <4>. HIDE DEF st, ld, to, r
      <4>. QED BY <2>6, <4>2, <4>3, <4>4
    <3>5. Told(Untold, r) \in WordStates
      BY <2>5, <3>3, ToldType
    <3>6. Told(Untold, r).feeds # 1
      <4>1. to.feeds \in Nat /\ to.feeds # 1
        BY <2>5, <2>6 DEF WordStates
      <4>2. Told(Untold, r).feeds = to.feeds + (IF ld.newlines > 1 THEN 2 ELSE 0)
        <5>. HIDE DEF r, to
        <5>. QED BY <3>3
      <4>. HIDE DEF to, r
      <4>. QED BY <4>1, <4>2
    <3>. DEFINE q == Told(Untold, r \o c)
    <3>7. q.feeds # 1 /\ Closed(q) = Paragraphs(st.seen, st.feeds) \o w
      <4>. DEFINE p == Paragraphs(st.seen, st.feeds)
      <4>0. p \in Seq(Nat)
        BY <2>2, ParagraphsType DEF WordStates, Texts
      <4>1. CASE c = <<>> /\ w = <<>>
        <5>1. r \o c = r /\ p \o w = p
          <6>. HIDE DEF r, p, c, w
          <6>. QED BY <3>3, <4>0, <4>1, ConcatEmptySeq
        <5>. HIDE DEF r, c, w, p
        <5>. QED BY <3>4, <3>6, <5>1 DEF p
      <4>2. ASSUME NEW y \in Pieces, c = <<y>>, WordsOf(y) = w, y.tag # "EmptyLine"
            PROVE  q.feeds # 1 /\ Closed(q) = p \o w
        <5>1. r \o c = Append(r, y) /\ y \in AllItems /\ y.tag # "Newlines"
          <6>. HIDE DEF r, c
          <6>1. y \in AllItems /\ y.tag # "Newlines"
            BY ItemTypes DEF Pieces, Items
          <6>. QED BY <3>3, <4>2, <6>1, OneMore
        <5>2. q = WordStep(Told(Untold, r), y)
          <6>. HIDE DEF r, c
          <6>. QED BY <2>5, <3>3, <5>1, ToldAppend
        <5>3. WordStep(Told(Untold, r), y) = [seen |-> Closed(Told(Untold, r)) \o w, feeds |-> 0]
          <6>. HIDE DEF r, c, w
          <6>. QED BY <3>5, <4>2, <5>1, WordStepType DEF Closed
        <5>. HIDE DEF q, r, c, w, p, st
        <5>4. q.seen = p \o w /\ q.feeds = 0
          BY <3>4, <5>2, <5>3 DEF p
        <5>. QED BY <5>4 DEF Closed, Paragraphs
      <4>. HIDE DEF q
      <4>. QED BY <2>8, <4>1, <4>2, ConvertedKeeps
    <3>. HIDE DEF q, r, c, w, st, ld
    <3>8. Lead(Append(s, x)).result = r \o c /\ Lead(Append(s, x)).newlines = 0
      BY <2>3, <3>2
    <3>9. Told(Untold, Append(s, x)).seen = Paragraphs(st.seen, st.feeds) \o w /\ Told(Untold, Append(s, x)).feeds = 0
      BY <2>2, <3>1
    <3>10. LeadAgrees(Append(s, x))
      BY <3>7, <3>8, <3>9 DEF LeadAgrees, q
    <3>. QED BY <2>1, <3>10 DEF S
  <2>. QED BY <2>7, <2>8
<1>. HIDE DEF S
<1>3. \A s \in Seq(SourceItems) : s \in S
  BY <1>1, <1>2, SeqInd
<1>. QED BY <1>3 DEF S

(* Leading trivia keep the words and the blank lines of their items.        *)
LEMMA ConvertLeadingKeeps ==
    ASSUME NEW items \in Seq(SourceItems)
    PROVE  ConvertLeading(items) \in Seq(Pieces) /\ Words(ConvertLeading(items)) = Words(items)
<1>. DEFINE ld == Lead(items)
            to == Told(Untold, ld.result)
            st == Told(Untold, items)
            all == ld.result \o BlankLine(ld.newlines)
<1>1. ld.newlines \in Nat /\ ld.result \in Seq(Pieces) /\ ConvertLeading(items) = all /\ ConvertLeading(items) \in Seq(Pieces)
  BY LeadType
<1>2. ld.newlines = st.feeds /\ to.feeds # 1 /\ Closed(to) = st.seen
  BY LeadAgreesAlways DEF LeadAgrees
<1>3. st \in WordStates /\ to \in WordStates /\ Untold \in WordStates
  BY <1>1, ItemTypes, WordsTold
<1>4. Told(Untold, all) = [seen |-> to.seen, feeds |-> to.feeds + (IF ld.newlines > 1 THEN 2 ELSE 0)]
  BY <1>1, <1>3, ToldBlank
<1>. HIDE DEF ld, to, st, all
<1>5. to.seen \in Texts /\ to.feeds \in Nat /\ st.feeds \in Nat
  BY <1>3 DEF WordStates
<1>6. Closed(Told(Untold, all)) = Paragraphs(to.seen, to.feeds + (IF st.feeds > 1 THEN 2 ELSE 0))
  BY <1>2, <1>4 DEF Closed
<1>7. Paragraphs(Paragraphs(to.seen, to.feeds), st.feeds) = Paragraphs(to.seen, to.feeds + (IF st.feeds > 1 THEN 2 ELSE 0))
  BY <1>2, <1>5, ParagraphsTwice
<1>8. Closed(st) = Paragraphs(Paragraphs(to.seen, to.feeds), st.feeds)
  BY <1>2 DEF Closed
<1>9. Words(ConvertLeading(items)) = Closed(Told(Untold, all)) /\ Words(items) = Closed(st)
  BY <1>1, ItemTypes, WordsTold DEF st
<1>. QED BY <1>1, <1>6, <1>7, <1>8, <1>9

(* An annotation stays the last of the leading trivia.                      *)
NoAnnotation(s)   == \A i \in 1..Len(s) : s[i].tag # "LanguageAnnotation"
AnnotationLast(s) == \A i \in 1..Len(s) : s[i].tag = "LanguageAnnotation" => i = Len(s)
AnnotationRest(s) == \A i \in 1..Len(s) : s[i].tag = "LanguageAnnotation" =>
                        i = Len(s) \/ (i + 1 = Len(s) /\ s[i + 1] = NewlineRun(1))

LEMMA NoAnnotationConcat ==
    ASSUME NEW X, NEW a \in Seq(X), NEW b \in Seq(X), NoAnnotation(a)
    PROVE  /\ NoAnnotation(b) => NoAnnotation(a \o b)
           /\ AnnotationLast(b) => AnnotationLast(a \o b)
<1>1. /\ a \o b \in Seq(X) /\ Len(a \o b) = Len(a) + Len(b) /\ Len(a) \in Nat /\ Len(b) \in Nat
      /\ \A i \in 1..(Len(a) + Len(b)) : (a \o b)[i] = IF i <= Len(a) THEN a[i] ELSE b[i - Len(a)]
  BY ConcatProperties
<1>2. ASSUME NEW i \in 1..Len(a \o b), (a \o b)[i].tag = "LanguageAnnotation"
      PROVE  i - Len(a) \in 1..Len(b) /\ b[i - Len(a)].tag = "LanguageAnnotation"
  <2>1. CASE i <= Len(a)
    BY <1>1, <1>2, <2>1 DEF NoAnnotation
  <2>2. CASE ~(i <= Len(a))
    BY <1>1, <1>2, <2>2
  <2>. QED BY <2>1, <2>2
<1>3. ASSUME NoAnnotation(b) PROVE NoAnnotation(a \o b)
  BY <1>2, <1>3 DEF NoAnnotation
<1>4. ASSUME AnnotationLast(b), NEW i \in 1..Len(a \o b), (a \o b)[i].tag = "LanguageAnnotation"
      PROVE  i = Len(a \o b)
  <2>1. i - Len(a) = Len(b)
    BY <1>2, <1>4 DEF AnnotationLast
  <2>. QED BY <1>1, <2>1
<1>. QED BY <1>3, <1>4 DEF AnnotationLast

LEMMA BlankLineAnnotation == ASSUME NEW n \in Nat PROVE NoAnnotation(BlankLine(n))
<1>1. EmptyLine.tag = "EmptyLine" /\ Len(<<EmptyLine>>) = 1 /\ <<EmptyLine>>[1] = EmptyLine
  BY DEF EmptyLine, Item
<1>2. NoAnnotation(<<EmptyLine>>) /\ NoAnnotation(<<>>)
  BY <1>1, EmptySeq DEF NoAnnotation
<1>. QED BY <1>2, BlankLineType

LEMMA ConvertedAnnotation ==
    ASSUME NEW x \in SourceItems, x.tag # "Newlines"
    PROVE  AnnotationLast(Converted(x)) /\ (x.tag # "LanguageAnnotation" => NoAnnotation(Converted(x)))
<1>1. CASE Converted(x) = <<>>
  BY <1>1, EmptySeq DEF AnnotationLast, NoAnnotation
<1>2. ASSUME NEW y \in Pieces, Converted(x) = <<y>>, y.tag = "LanguageAnnotation" => x.tag = "LanguageAnnotation"
      PROVE  AnnotationLast(Converted(x)) /\ (x.tag # "LanguageAnnotation" => NoAnnotation(Converted(x)))
  <2>1. Len(<<y>>) = 1 /\ <<y>>[1] = y
    OBVIOUS
  <2>. QED BY <1>2, <2>1 DEF AnnotationLast, NoAnnotation
<1>. QED BY <1>1, <1>2, ConvertedKeeps

(* One item behind others without an annotation.                            *)
LEMMA LeadMore ==
    ASSUME NEW q \in Seq(SourceItems), NEW x \in SourceItems, NoAnnotation(Lead(q).result), x.tag # "Newlines"
    PROVE  /\ Lead(Append(q, x)).newlines = 0 /\ AnnotationLast(Lead(Append(q, x)).result)
           /\ x.tag # "LanguageAnnotation" => NoAnnotation(Lead(Append(q, x)).result)
<1>. DEFINE ld == Lead(q)
            b == BlankLine(ld.newlines)
            c == Converted(x)
<1>1. ld \in LeadStates /\ Lead(Append(q, x)) = ConvertStep(ld, x)
  BY LeadAppend
<1>2. ld.newlines \in Nat /\ ld.result \in Seq(Pieces) /\ b \in Seq(Pieces) /\ c \in Seq(Pieces)
  BY LeadType, BlankLineType, ConvertedType
<1>3. ConvertStep(ld, x) = [newlines |-> 0, result |-> ld.result \o b \o c]
  BY <1>1, ConvertStepType
<1>4. NoAnnotation(b) /\ AnnotationLast(c) /\ (x.tag # "LanguageAnnotation" => NoAnnotation(c))
  BY <1>2, BlankLineAnnotation, ConvertedAnnotation
<1>. HIDE DEF b, c
<1>5. ld.result \o b \in Seq(Pieces) /\ NoAnnotation(ld.result \o b)
  BY <1>2, <1>4, NoAnnotationConcat, ConcatProperties
<1>6. /\ AnnotationLast((ld.result \o b) \o c)
      /\ x.tag # "LanguageAnnotation" => NoAnnotation((ld.result \o b) \o c)
  BY <1>2, <1>4, <1>5, NoAnnotationConcat
<1>. QED BY <1>1, <1>3, <1>6

LEMMA LeadNoAnnotation ==
    ASSUME NEW items \in Seq(SourceItems), NoAnnotation(items)
    PROVE  NoAnnotation(Lead(items).result)
<1>. DEFINE S == {s \in Seq(SourceItems) : NoAnnotation(s) => NoAnnotation(Lead(s).result)}
<1>1. <<>> \in S
  BY EmptySeq, LeadEmpty DEF NoAnnotation, NoLead
<1>2. ASSUME NEW s \in Seq(SourceItems), NEW x \in SourceItems, s \in S PROVE Append(s, x) \in S
  <2>1. (NoAnnotation(s) => NoAnnotation(Lead(s).result)) /\ Append(s, x) \in Seq(SourceItems)
    BY <1>2
  <2>. HIDE DEF S
  <2>2. ASSUME NoAnnotation(Append(s, x)) PROVE NoAnnotation(Lead(Append(s, x)).result)
    <3>1. Len(Append(s, x)) = Len(s) + 1 /\ Len(s) \in Nat /\ Append(s, x)[Len(s) + 1] = x
          /\ \A i \in 1..Len(s) : Append(s, x)[i] = s[i]
      BY AppendProperties
    <3>2. NoAnnotation(s) /\ x.tag # "LanguageAnnotation"
      <4>1. Len(s) + 1 \in 1..Len(Append(s, x)) /\ \A i \in 1..Len(s) : i \in 1..Len(Append(s, x))
        BY <3>1
      <4>. QED BY <2>2, <3>1, <4>1 DEF NoAnnotation
    <3>3. CASE x.tag = "Newlines"
      <4>1. Lead(s) \in LeadStates /\ Lead(Append(s, x)) = ConvertStep(Lead(s), x)
        BY LeadAppend
      <4>2. ConvertStep(Lead(s), x) = [newlines |-> Lead(s).newlines + x.n, result |-> Lead(s).result]
        BY <3>3, <4>1, ConvertStepType
      <4>. QED BY <2>1, <3>2, <4>1, <4>2
    <3>4. CASE x.tag # "Newlines"
      BY <2>1, <3>2, <3>4, LeadMore
    <3>. QED BY <3>3, <3>4
  <2>. QED BY <2>1, <2>2 DEF S
<1>. HIDE DEF S
<1>3. \A s \in Seq(SourceItems) : s \in S
  BY <1>1, <1>2, SeqInd
<1>. QED BY <1>3 DEF S

LEMMA ConvertLeadingAnnotation ==
    ASSUME NEW items \in Seq(SourceItems), AnnotationRest(items)
    PROVE  AnnotationLast(ConvertLeading(items))
<1>. DEFINE n == Len(items)
            ld == Lead(items)
<1>0. n \in Nat /\ \A i \in 1..n : items[i] \in SourceItems
  OBVIOUS
<1>1. ld.newlines \in Nat /\ ld.result \in Seq(Pieces) /\ ConvertLeading(items) = ld.result \o BlankLine(ld.newlines)
  BY LeadType
<1>2. CASE NoAnnotation(items)
  <2>1. NoAnnotation(ld.result)
    BY <1>2, LeadNoAnnotation
  <2>2. BlankLine(ld.newlines) \in Seq(Pieces) /\ NoAnnotation(BlankLine(ld.newlines))
    BY <1>1, BlankLineType, BlankLineAnnotation
  <2>3. NoAnnotation(ConvertLeading(items))
    BY <1>1, <2>1, <2>2, NoAnnotationConcat
  <2>. QED BY <2>3 DEF NoAnnotation, AnnotationLast
<1>3. ASSUME ld.newlines <= 1, AnnotationLast(ld.result) PROVE AnnotationLast(ConvertLeading(items))
  <2>1. BlankLine(ld.newlines) = <<>>
    BY <1>1, <1>3, BlankLineType
  <2>2. ld.result \o <<>> = ld.result
    BY <1>1, ConcatEmptySeq
  <2>. QED BY <1>1, <1>3, <2>1, <2>2
<1>4. ASSUME items # <<>>, Last(items).tag = "LanguageAnnotation" PROVE AnnotationLast(ConvertLeading(items))
  <2>. DEFINE q == Front(items)
              x == Last(items)
  <2>1. q \in Seq(SourceItems) /\ x \in SourceItems /\ Len(q) = n - 1 /\ items = Append(q, x)
        /\ \A i \in 1..Len(q) : q[i] = items[i]
    BY <1>4, FrontLast
  <2>2. NoAnnotation(q)
    <3>1. ASSUME NEW i \in 1..Len(q), q[i].tag = "LanguageAnnotation" PROVE FALSE
      <4>1. i \in 1..n /\ i # n /\ items[i].tag = "LanguageAnnotation"
        BY <1>0, <2>1, <3>1
      <4>2. items[n] = NewlineRun(1)
        BY <4>1 DEF AnnotationRest
      <4>. QED BY <1>4, <4>2 DEF Last, NewlineRun, Item
    <3>. QED BY <3>1 DEF NoAnnotation
  <2>3. x.tag # "Newlines"
    BY <1>4
  <2>. HIDE DEF q, x
  <2>4. ld.newlines = 0 /\ AnnotationLast(ld.result)
    BY <2>1, <2>2, <2>3, LeadNoAnnotation, LeadMore
  <2>. HIDE DEF ld
  <2>. QED BY <1>3, <2>4
<1>5. ASSUME items # <<>>, NEW i \in 1..n, items[i].tag = "LanguageAnnotation", i + 1 = n, items[n] = NewlineRun(1)
      PROVE  AnnotationLast(ConvertLeading(items))
  <2>. DEFINE f == Front(items)
              q == Front(f)
              x == Last(f)
              y == Last(items)
  <2>1. f \in Seq(SourceItems) /\ y \in SourceItems /\ Len(f) = n - 1 /\ items = Append(f, y)
        /\ (\A j \in 1..Len(f) : f[j] = items[j]) /\ y = NewlineRun(1)
    BY <1>5, FrontLast DEF Last
  <2>. HIDE DEF f, y
  <2>2. f # <<>> /\ Len(f) = i
    BY <1>0, <1>5, <2>1, EmptySeq
  <2>3. q \in Seq(SourceItems) /\ x \in SourceItems /\ Len(q) = i - 1 /\ f = Append(q, x)
        /\ (\A j \in 1..Len(q) : q[j] = f[j]) /\ x = items[i]
    <3>1. i \in 1..Len(f)
      BY <1>5, <2>2
    <3>2. f[i] = items[i]
      BY <2>1, <3>1
    <3>3. x = f[i]
      BY <2>2 DEF Last
    <3>. QED BY <2>1, <2>2, <3>2, <3>3, FrontLast
  <2>. HIDE DEF q, x
  <2>4. NoAnnotation(q)
    <3>1. ASSUME NEW j \in 1..Len(q), q[j].tag = "LanguageAnnotation" PROVE FALSE
      <4>1. j \in 1..n /\ j + 1 < n /\ j \in 1..Len(f)
        BY <1>0, <1>5, <2>1, <2>2, <2>3, <3>1
      <4>2. items[j].tag = "LanguageAnnotation"
        BY <2>1, <2>3, <3>1, <4>1
      <4>3. j = n \/ j + 1 = n
        BY <4>1, <4>2 DEF AnnotationRest
      <4>. QED BY <1>0, <4>1, <4>3
    <3>. QED BY <3>1 DEF NoAnnotation
  <2>5. x.tag # "Newlines"
    BY <1>5, <2>3
  <2>6. Lead(f).newlines = 0 /\ AnnotationLast(Lead(f).result)
    BY <2>3, <2>4, <2>5, LeadNoAnnotation, LeadMore
  <2>7. ld = ConvertStep(Lead(f), y) /\ Lead(f) \in LeadStates
    BY <2>1, LeadAppend
  <2>8. y.tag = "Newlines" /\ y.n = 1
    BY <2>1 DEF NewlineRun, Item
  <2>9. ld = [newlines |-> Lead(f).newlines + y.n, result |-> Lead(f).result]
    BY <2>1, <2>7, <2>8, ConvertStepType
  <2>10. ld.newlines = 1 /\ ld.result = Lead(f).result
    <3>. HIDE DEF ld
    <3>. QED BY <2>6, <2>8, <2>9
  <2>. HIDE DEF ld
  <2>. QED BY <1>3, <2>6, <2>10
<1>6. CASE ~NoAnnotation(items)
  <2>1. PICK i \in 1..n : items[i].tag = "LanguageAnnotation"
    BY <1>6 DEF NoAnnotation
  <2>2. i = n \/ (i + 1 = n /\ items[i + 1] = NewlineRun(1))
    BY <2>1 DEF AnnotationRest
  <2>3. items # <<>>
    BY <2>1, EmptySeq
  <2>4. CASE i = n
    <3>1. Last(items).tag = "LanguageAnnotation"
      BY <2>1, <2>4 DEF Last
    <3>. QED BY <1>4, <2>3, <3>1
  <2>5. CASE i + 1 = n /\ items[i + 1] = NewlineRun(1)
    <3>1. i + 1 = n /\ items[n] = NewlineRun(1)
      BY <2>5
    <3>. HIDE DEF n
    <3>. QED BY <1>5, <2>1, <2>3, <3>1
  <2>. QED BY <2>2, <2>4, <2>5
<1>. QED BY <1>2, <1>6

-----------------------------------------------------------------------------
(* The trailing comment and the split.                                      *)

TrailMap == [x \in SourceItems |-> IF OneLiner(x) THEN LineText(x.lines[1]) ELSE x.text]

LEMMA TrailMapped ==
    /\ MapsInto(TrailMap, SourceItems, Nat)
    /\ \A pts \in Seq(SourceItems) : ConvertTrailing(pts) = Mapped(TrailMap, pts)
<1>1. ASSUME NEW x \in SourceItems
      PROVE  (IF OneLiner(x) THEN LineText(x.lines[1]) ELSE x.text) \in Seq(Nat)
  BY OneLinerText, ItemTypes DEF Texts
<1>2. MapsInto(TrailMap, SourceItems, Nat)
  BY <1>1 DEF MapsInto, TrailMap
<1>3. ASSUME NEW pts \in Seq(SourceItems) PROVE ConvertTrailing(pts) = Mapped(TrailMap, pts)
  <2>1. \A i \in DOMAIN pts : pts[i] \in SourceItems
    OBVIOUS
  <2>2. [i \in DOMAIN pts |-> IF OneLiner(pts[i]) THEN LineText(pts[i].lines[1]) ELSE pts[i].text]
          = [i \in DOMAIN pts |-> TrailMap[pts[i]]]
    BY <2>1 DEF TrailMap
  <2>. QED BY <2>2 DEF ConvertTrailing, Mapped
<1>. QED BY <1>2, <1>3

(* What may be part of a trailing comment is a comment, with its words.     *)
LEMMA TrailWords ==
    ASSUME NEW x \in SourceItems, IsTrailing(x)
    PROVE  /\ TrailMap[x] \in Texts /\ Written(TrailMap[x]) = WordsOf(x)
           /\ x.tag \in {"LineComment", "BlockComment"}
<1>0. x.tag \in {"LineComment", "BlockComment"} /\ x.lines \in LineList
  BY ItemTypes DEF IsTrailing
<1>1. CASE OneLiner(x)
  BY <1>0, <1>1, OneLinerText DEF TrailMap
<1>2. CASE ~OneLiner(x)
  <2>1. TrailMap[x] = x.text /\ x.text \in Texts
    BY <1>2, ItemTypes DEF TrailMap
  <2>2. x.lines = <<>>
    <3>1. CASE x.tag = "LineComment"
      BY <3>1 DEF SourceItems, Formed
    <3>2. CASE x.tag = "BlockComment"
      <4>1. ~x.doc /\ Len(x.lines) <= 1 /\ Len(x.lines) # 1
        BY <1>2, <3>2 DEF IsTrailing, OneLiner
      <4>2. Len(x.lines) \in Nat /\ x.lines \in Seq(CommentLines)
        BY <1>0 DEF LineList
      <4>. DEFINE m == Len(x.lines)
      <4>3. m \in Nat /\ m <= 1 /\ m # 1
        BY <4>1, <4>2
      <4>. HIDE DEF m
      <4>4. m = 0
        BY <4>3
      <4>. QED BY <4>2, <4>4, EmptySeq DEF m
    <3>. QED BY <1>0, <3>1, <3>2
  <2>3. WordsOf(x) = Written(x.text) \o Written(LineTexts(x.lines))
    BY WordsOfType DEF SourceItems
  <2>4. Written(x.text) \in Seq(Shown)
    BY <2>1, WrittenType
  <2>5. Written(x.text) \o <<>> = Written(x.text)
    BY <2>4, ConcatEmptySeq
  <2>. QED BY <1>0, <2>1, <2>2, <2>3, <2>5, LineTextsEmpty, WrittenEmpty
<1>. QED BY <1>1, <1>2

AllTrailing(pts) == \A i \in 1..Len(pts) : IsTrailing(pts[i])

LEMMA TrailingTold ==
    ASSUME NEW pts \in Seq(SourceItems), AllTrailing(pts)
    PROVE  /\ ConvertTrailing(pts) \in Texts
           /\ Told(Untold, pts) = [seen |-> Written(ConvertTrailing(pts)), feeds |-> 0]
<1>. DEFINE S == {s \in Seq(SourceItems) : AllTrailing(s) =>
                    Told(Untold, s) = [seen |-> Written(ConvertTrailing(s)), feeds |-> 0]}
<1>0. \A s \in Seq(SourceItems) : ConvertTrailing(s) \in Texts
  BY TrailMapped, MappedType DEF Texts
<1>1. <<>> \in S
  <2>1. <<>> \in Seq(SourceItems) /\ Told(Untold, <<>>) = Untold
    BY EmptySeq, WordsTold, ToldEmpty
  <2>2. ConvertTrailing(<<>>) = <<>>
    BY <2>1, TrailMapped, MappedEmpty
  <2>. QED BY <2>1, <2>2, WrittenEmpty DEF Untold
<1>2. ASSUME NEW s \in Seq(SourceItems), NEW x \in SourceItems, s \in S PROVE Append(s, x) \in S
  <2>0. AllTrailing(s) => Told(Untold, s) = [seen |-> Written(ConvertTrailing(s)), feeds |-> 0]
    BY <1>2
  <2>. HIDE DEF S
  <2>1. Append(s, x) \in Seq(SourceItems) /\ Len(Append(s, x)) = Len(s) + 1 /\ Len(s) \in Nat
        /\ Append(s, x)[Len(s) + 1] = x /\ \A i \in 1..Len(s) : Append(s, x)[i] = s[i]
    BY AppendProperties
  <2>2. ASSUME AllTrailing(Append(s, x))
        PROVE  Told(Untold, Append(s, x)) = [seen |-> Written(ConvertTrailing(Append(s, x))), feeds |-> 0]
    <3>1. AllTrailing(s) /\ IsTrailing(x)
      <4>1. Len(s) + 1 \in 1..Len(Append(s, x)) /\ \A i \in 1..Len(s) : i \in 1..Len(Append(s, x))
        BY <2>1
      <4>. QED BY <2>1, <2>2, <4>1 DEF AllTrailing
    <3>. DEFINE t == ConvertTrailing(s)
                st == Told(Untold, s)
    <3>2. t \in Texts /\ st = [seen |-> Written(t), feeds |-> 0] /\ Written(t) \in Seq(Shown)
      BY <1>0, <2>0, <3>1, WrittenType
    <3>3. TrailMap[x] \in Texts /\ Written(TrailMap[x]) = WordsOf(x) /\ x.tag \notin {"Newlines", "EmptyLine"}
      BY <3>1, TrailWords
    <3>4. ConvertTrailing(Append(s, x)) = t \o TrailMap[x]
      <4>1. Mapped(TrailMap, Append(s, x)) = Mapped(TrailMap, s) \o TrailMap[x]
        BY TrailMapped, MappedAppend
      <4>. QED BY <2>1, <4>1, TrailMapped
    <3>5. s \in Seq(AllItems) /\ x \in AllItems /\ Untold \in WordStates
      BY ItemTypes, WordsTold, EmptySeq
    <3>6. st \in WordStates /\ Told(Untold, Append(s, x)) = WordStep(st, x)
      BY <3>5, ToldAppend
    <3>. HIDE DEF t, st
    <3>7. WordStep(st, x) = [seen |-> Paragraphs(st.seen, st.feeds) \o WordsOf(x), feeds |-> 0]
      BY <3>3, <3>5, <3>6, WordStepType
    <3>8. Paragraphs(st.seen, st.feeds) = Written(t)
      BY <3>2 DEF Paragraphs
    <3>9. Written(t \o TrailMap[x]) = Written(t) \o Written(TrailMap[x])
      BY <3>2, <3>3, WrittenConcat
    <3>. QED BY <3>3, <3>4, <3>6, <3>7, <3>8, <3>9
  <2>. QED BY <2>1, <2>2 DEF S
<1>. HIDE DEF S
<1>3. \A s \in Seq(SourceItems) : s \in S
  BY <1>1, <1>2, SeqInd
<1>. QED BY <1>0, <1>3 DEF S

(* There is a position to split at. *)
LEMMA SplitPosType ==
    ASSUME NEW pts \in Seq(SourceItems)
    PROVE  SplitPos(pts) \in 0..Len(pts) /\ \A i \in 1..SplitPos(pts) : IsTrailing(pts[i])
<1>. DEFINE n == Len(pts)
            Fit(k) == (\A i \in 1..k : IsTrailing(pts[i])) /\ (k < n => ~IsTrailing(pts[k + 1]))
            T == {i \in 1..n : ~IsTrailing(pts[i])}
<1>0. n \in Nat
  OBVIOUS
<1>1. \E k \in 0..n : Fit(k)
  <2>1. CASE T = {}
    <3>1. Fit(n) /\ n \in 0..n
      BY <1>0, <2>1
    <3>. QED BY <3>1
  <2>2. CASE T # {}
    <3>1. T \in SUBSET Nat
      OBVIOUS
    <3>2. PICK m \in T : \A y \in T : m <= y
      <4>. HIDE DEF T
      <4>. QED BY <2>2, <3>1, LeastNat
    <3>3. m \in 1..n /\ ~IsTrailing(pts[m])
      OBVIOUS
    <3>4. \A i \in 1..(m - 1) : i \in 1..n /\ ~(m <= i)
      BY <1>0, <3>3
    <3>5. \A i \in 1..(m - 1) : IsTrailing(pts[i])
      BY <3>2, <3>4
    <3>6. m - 1 \in 0..n /\ (m - 1) + 1 = m
      BY <1>0, <3>3
    <3>. HIDE DEF T
    <3>7. Fit(m - 1)
      BY <3>3, <3>5, <3>6
    <3>. QED BY <3>6, <3>7
  <2>. QED BY <2>1, <2>2
<1>2. SplitPos(pts) = CHOOSE k \in 0..n : Fit(k)
  BY DEF SplitPos
<1>3. SplitPos(pts) \in 0..n /\ Fit(SplitPos(pts))
  <2>. HIDE DEF Fit, n
  <2>. QED BY <1>1, <1>2
<1>. QED BY <1>3

LEMMA SplitTypes ==
    ASSUME NEW pts \in Seq(SourceItems), NEW k \in 0..Len(pts)
    PROVE  /\ SubSeq(pts, 1, k) \in Seq(SourceItems) /\ SubSeq(pts, k + 1, Len(pts)) \in Seq(SourceItems)
           /\ Len(SubSeq(pts, 1, k)) = k /\ \A i \in 1..k : SubSeq(pts, 1, k)[i] = pts[i]
           /\ Len(SubSeq(pts, k + 1, Len(pts))) = Len(pts) - k
           /\ \A i \in 1..(Len(pts) - k) : SubSeq(pts, k + 1, Len(pts))[i] = pts[k + i]
           /\ SubSeq(pts, 1, k) \o SubSeq(pts, k + 1, Len(pts)) = pts
<1>. DEFINE n == Len(pts)
            back == SubSeq(pts, k + 1, n)
<1>0. n \in Nat /\ k \in Nat /\ k <= n /\ \A i \in 1..n : pts[i] \in SourceItems
  OBVIOUS
<1>1. SubSeq(pts, 1, k) \in Seq(SourceItems) /\ Len(SubSeq(pts, 1, k)) = k
      /\ \A i \in 1..k : SubSeq(pts, 1, k)[i] = pts[i]
  <2>1. \A i \in 1..k : pts[i] \in SourceItems
    BY <1>0
  <2>. QED BY <1>0, <2>1, SubSeqProperties
<1>2. back \in Seq(SourceItems) /\ Len(back) = n - k /\ \A i \in 1..(n - k) : back[i] = pts[k + i]
  <2>1. \A i \in (k + 1)..n : pts[i] \in SourceItems
    BY <1>0
  <2>2. k + 1 \in Int /\ n \in Int
    BY <1>0
  <2>3. back \in Seq(SourceItems) /\ Len(back) = (IF k + 1 <= n THEN n - (k + 1) + 1 ELSE 0)
        /\ \A i \in 1..(n - (k + 1) + 1) : back[i] = pts[(k + 1) + i - 1]
    BY <2>1, <2>2, SubSeqProperties
  <2>. HIDE DEF back
  <2>4. n - (k + 1) + 1 = n - k /\ \A i \in 1..(n - k) : (k + 1) + i - 1 = k + i
    BY <1>0
  <2>5. Len(back) = n - k
    BY <1>0, <2>3
  <2>. QED BY <2>3, <2>4, <2>5
<1>3. SubSeq(pts, 1, k) \o back = pts
  <2>1. 1 \in 1..(Len(pts) + 1) /\ k \in 0..Len(pts) /\ 1 <= k + 1
    BY <1>0
  <2>2. CutsAt(pts, 1, k)
    BY <2>1, CutJoin
  <2>3. SubSeq(pts, 1, Len(pts)) = pts
    BY SubSeqFull
  <2>. QED BY <2>2, <2>3 DEF CutsAt
<1>. QED BY <1>1, <1>2, <1>3

(* What is split is read in two parts.                                      *)
LEMMA SplitKeeps ==
    ASSUME NEW pts \in Seq(SourceItems), NEW k \in 0..Len(pts), \A i \in 1..k : IsTrailing(pts[i])
    PROVE  LET t == ConvertTrailing(SubSeq(pts, 1, k))
               l == ConvertLeading(SubSeq(pts, k + 1, Len(pts)))
           IN  /\ Result(t, l) \in Results
               /\ Written(t) \o Words(l) = Words(pts)
               /\ AnnotationRest(pts) => AnnotationLast(l)
<1>. DEFINE a == SubSeq(pts, 1, k)
            b == SubSeq(pts, k + 1, Len(pts))
            t == ConvertTrailing(a)
            l == ConvertLeading(b)
            n == Len(pts)
<1>1. a \in Seq(SourceItems) /\ b \in Seq(SourceItems) /\ a \o b = pts /\ AllTrailing(a)
  BY SplitTypes DEF AllTrailing
<1>2. n \in Nat /\ Len(b) = n - k /\ \A i \in 1..(n - k) : b[i] = pts[k + i]
  BY SplitTypes
<1>. HIDE DEF a, b, n
<1>3. t \in Texts /\ Told(Untold, a) = [seen |-> Written(t), feeds |-> 0]
  BY <1>1, TrailingTold
<1>4. l \in Seq(Pieces) /\ Words(l) = Words(b)
  BY <1>1, ConvertLeadingKeeps
<1>5. Result(t, l) \in Results
  BY <1>3, <1>4 DEF Result, Results
<1>. HIDE DEF t, l
<1>6. Written(t) \o Words(l) = Words(pts)
  <2>1. a \in Seq(AllItems) /\ b \in Seq(AllItems) /\ pts \in Seq(AllItems) /\ Untold \in WordStates
    BY <1>1, ItemTypes, WordsTold
  <2>2. Written(t) \in Seq(Shown)
    BY <1>3, WrittenType
  <2>3. Told(Untold, a) = Behind(Written(t), Untold)
    <3>1. Written(t) \o <<>> = Written(t)
      BY <2>2, ConcatEmptySeq
    <3>. QED BY <1>3, <3>1 DEF Behind, Untold
  <2>4. Told(Untold, a \o b) = Told(Told(Untold, a), b)
    BY <2>1, ToldConcat
  <2>5. Closed(Told(Behind(Written(t), Untold), b)) = Written(t) \o Closed(Told(Untold, b))
    BY <2>1, <2>2, ToldBehind
  <2>6. Words(pts) = Closed(Told(Untold, pts)) /\ Words(b) = Closed(Told(Untold, b))
    BY <2>1, WordsTold
  <2>. QED BY <1>1, <1>4, <2>3, <2>4, <2>5, <2>6
<1>7. ASSUME AnnotationRest(pts) PROVE AnnotationLast(l)
  <2>1. AnnotationRest(b)
    <3>1. ASSUME NEW i \in 1..Len(b), b[i].tag = "LanguageAnnotation"
          PROVE  i = Len(b) \/ (i + 1 = Len(b) /\ b[i + 1] = NewlineRun(1))
      <4>1. i \in 1..(n - k) /\ k + i \in 1..n /\ b[i] = pts[k + i] /\ k \in Nat
        BY <1>2, <3>1 DEF n
      <4>2. k + i = n \/ (k + i + 1 = n /\ pts[k + i + 1] = NewlineRun(1))
        BY <1>7, <3>1, <4>1 DEF AnnotationRest, n
      <4>3. CASE k + i = n
        BY <1>2, <4>1, <4>3
      <4>4. CASE k + i + 1 = n /\ pts[k + i + 1] = NewlineRun(1)
        <5>1. i + 1 \in 1..(n - k) /\ k + (i + 1) = k + i + 1 /\ i + 1 = Len(b)
          BY <1>2, <4>1, <4>4
        <5>2. b[i + 1] = pts[k + i + 1]
          BY <1>2, <5>1
        <5>. QED BY <4>4, <5>1, <5>2
      <4>. QED BY <4>2, <4>3, <4>4
    <3>. QED BY <3>1 DEF AnnotationRest
  <2>. QED BY <1>1, <2>1, ConvertLeadingAnnotation DEF l
<1>. QED BY <1>5, <1>6, <1>7 DEF t, l, a, b, n

(* Nothing but runs of newlines.                                            *)
RunFun == [p \in Nat \X SourceItems |-> p[1] + p[2].n]
Runs(items) == FoldLeft(LAMBDA n, pt : n + pt.n, 0, items)

LEMMA RunsFold ==
    ASSUME NEW items \in Seq(SourceItems)
    PROVE  Folded(Runs(items), Nat, 0, RunFun, items)
<1>. DEFINE Rec(h) == h = [t \in SUBSET DOMAIN items |->
                             IF t = {} THEN 0 ELSE h[t \ {Max(t)}] + items[Max(t)].n]
            n == Len(items)
<1>0. DOMAIN items = 1..n /\ n \in Nat /\ \A k \in 1..n : items[k] \in SourceItems
  OBVIOUS
<1>1. RunFun \in [Nat \X SourceItems -> Nat] /\ 0 \in Nat
  <2>1. \A x \in SourceItems : x.n \in Nat
    BY ItemTypes
  <2>2. \A p \in Nat \X SourceItems : p[1] + p[2].n \in Nat
    BY <2>1
  <2>. QED BY <2>2 DEF RunFun
<1>2. PICK h \in [SUBSET (1..n) -> Nat] : IsIteration(h, n, 0, RunFun, items)
  BY <1>1, IterationExists
<1>3. \A t \in SUBSET (1..n) : t # {} => Max(t) \in 1..n
  BY <1>0, MaxOfPart
<1>4. Rec(h)
  <2>1. ASSUME NEW t \in SUBSET (1..n)
        PROVE  h[t] = IF t = {} THEN 0 ELSE h[t \ {Max(t)}] + items[Max(t)].n
    <3>1. CASE t = {}
      BY <1>2, <3>1 DEF IsIteration
    <3>2. CASE t # {}
      <4>1. h[t \ {Max(t)}] \in Nat /\ items[Max(t)] \in SourceItems
        BY <1>0, <1>3, <3>2
      <4>2. h[t] = RunFun[<<h[t \ {Max(t)}], items[Max(t)]>>]
        BY <1>2, <3>2 DEF IsIteration
      <4>. QED BY <3>2, <4>1, <4>2 DEF RunFun
    <3>. QED BY <3>1, <3>2
  <2>. QED BY <1>0, <2>1
<1>. DEFINE g == CHOOSE f : Rec(f)
<1>5. Rec(g)
  <2>. HIDE DEF Rec
  <2>. QED BY <1>4
<1>6. Runs(items) = g[1..n]
  <2>1. Runs(items) = (CHOOSE f : Rec(f))[DOMAIN items]
    BY DEF Runs, FoldLeft, MapThenFoldSet
  <2>. QED BY <1>0, <2>1
<1>. HIDE DEF g
<1>7. StepsWhereTyped(g, n, Nat, 0, RunFun, items)
  <2>1. \A t \in SUBSET (1..n) : g[t] = IF t = {} THEN 0 ELSE g[t \ {Max(t)}] + items[Max(t)].n
    BY <1>0, <1>5
  <2>. HIDE DEF Rec
  <2>2. g[{}] = 0
    BY <2>1
  <2>3. ASSUME NEW t \in SUBSET (1..n), t # {}, g[t \ {Max(t)}] \in Nat
        PROVE  g[t] = RunFun[<<g[t \ {Max(t)}], items[Max(t)]>>]
    <3>1. items[Max(t)] \in SourceItems
      BY <1>0, <1>3, <2>3
    <3>2. g[t] = g[t \ {Max(t)}] + items[Max(t)].n
      BY <2>1, <2>3
    <3>. QED BY <2>3, <3>1, <3>2 DEF RunFun
  <2>. QED BY <2>2, <2>3 DEF StepsWhereTyped
<1>8. Folded(g[1..n], Nat, 0, RunFun, items)
  <2>. HIDE DEF Rec
  <2>. QED BY <1>1, <1>7, IterationFolds
<1>. QED BY <1>6, <1>8

LEMMA RunsTold ==
    ASSUME NEW items \in Seq(SourceItems), OnlySpace(items)
    PROVE  Runs(items) \in Nat /\ Told(Untold, items) = [seen |-> <<>>, feeds |-> Runs(items)]
<1>. DEFINE S == {s \in Seq(SourceItems) : OnlySpace(s) =>
                    Runs(s) \in Nat /\ Told(Untold, s) = [seen |-> <<>>, feeds |-> Runs(s)]}
<1>1. <<>> \in S
  <2>1. <<>> \in Seq(SourceItems) /\ Told(Untold, <<>>) = Untold
    BY EmptySeq, WordsTold, ToldEmpty
  <2>2. Runs(<<>>) = 0
    BY <2>1, RunsFold, FoldedEmpty
  <2>. QED BY <2>1, <2>2 DEF Untold
<1>2. ASSUME NEW s \in Seq(SourceItems), NEW x \in SourceItems, s \in S PROVE Append(s, x) \in S
  <2>0. OnlySpace(s) => Runs(s) \in Nat /\ Told(Untold, s) = [seen |-> <<>>, feeds |-> Runs(s)]
    BY <1>2
  <2>. HIDE DEF S
  <2>1. Append(s, x) \in Seq(SourceItems) /\ DOMAIN s = 1..Len(s) /\ DOMAIN Append(s, x) = 1..(Len(s) + 1)
        /\ Len(s) \in Nat /\ Append(s, x)[Len(s) + 1] = x /\ \A i \in 1..Len(s) : Append(s, x)[i] = s[i]
    BY AppendProperties
  <2>2. ASSUME OnlySpace(Append(s, x))
        PROVE  /\ Runs(Append(s, x)) \in Nat
               /\ Told(Untold, Append(s, x)) = [seen |-> <<>>, feeds |-> Runs(Append(s, x))]
    <3>1. OnlySpace(s) /\ x.tag = "Newlines"
      <4>1. Len(s) + 1 \in 1..(Len(s) + 1) /\ \A i \in 1..Len(s) : i \in 1..(Len(s) + 1)
        BY <2>1
      <4>. QED BY <2>1, <2>2, <4>1 DEF OnlySpace
    <3>2. Runs(Append(s, x)) = Runs(s) + x.n /\ x.n \in Nat
      <4>1. /\ Folded(Runs(s), Nat, 0, RunFun, s)
            /\ Folded(Runs(Append(s, x)), Nat, 0, RunFun, Append(s, x))
        BY <2>1, RunsFold
      <4>2. Runs(Append(s, x)) = RunFun[<<Runs(s), x>>] /\ Runs(s) \in Nat
        BY <4>1, FoldedAppend
      <4>3. x.n \in Nat
        BY ItemTypes
      <4>. QED BY <4>2, <4>3 DEF RunFun
    <3>3. s \in Seq(AllItems) /\ x \in AllItems /\ Untold \in WordStates
      BY ItemTypes, WordsTold, EmptySeq
    <3>. DEFINE st == Told(Untold, s)
    <3>4. st \in WordStates /\ Told(Untold, Append(s, x)) = WordStep(st, x)
      BY <3>3, ToldAppend
    <3>5. st = [seen |-> <<>>, feeds |-> Runs(s)] /\ Runs(s) \in Nat
      BY <2>0, <3>1
    <3>. HIDE DEF st
    <3>6. WordStep(st, x) = [seen |-> st.seen, feeds |-> st.feeds + x.n]
      BY <3>1, <3>3, <3>4, WordStepType
    <3>. QED BY <3>2, <3>4, <3>5, <3>6
  <2>. QED BY <2>1, <2>2 DEF S
<1>. HIDE DEF S
<1>3. \A s \in Seq(SourceItems) : s \in S
  BY <1>1, <1>2, SeqInd
<1>. QED BY <1>3 DEF S

LEMMA FastKeeps ==
    ASSUME NEW pts \in Seq(SourceItems), OnlySpace(pts)
    PROVE  /\ FastTrivia(pts) \in Results
           /\ Written(FastTrivia(pts).trailing) \o Words(FastTrivia(pts).leading) = Words(pts)
           /\ AnnotationLast(FastTrivia(pts).leading)
<1>. DEFINE n == Runs(pts)
            e == <<>>
            b == BlankLine(n)
<1>1. n \in Nat /\ Told(Untold, pts) = [seen |-> e, feeds |-> n]
  BY RunsTold
<1>2. FastTrivia(pts) = [trailing |-> e, leading |-> b]
  BY DEF FastTrivia, Result, Runs
<1>3. e \in Texts /\ e \in Seq(Pieces) /\ Written(e) = e /\ Told(Untold, e) = Untold
  BY EmptyTypes, EmptySeq, WrittenEmpty, WordsTold, ToldEmpty
<1>4. b \in Seq(Pieces) /\ NoAnnotation(b)
  BY <1>1, BlankLineType, BlankLineAnnotation
<1>5. Words(b) = Words(pts)
  <2>. HIDE DEF n
  <2>1. e \o b = b
    BY <1>4, ConcatEmptySeq
  <2>2. Untold \in WordStates /\ pts \in Seq(AllItems) /\ b \in Seq(AllItems)
    BY <1>4, WordsTold, EmptySeq, ItemTypes
  <2>3. Told(Untold, e \o b) = [seen |-> Told(Untold, e).seen, feeds |-> Told(Untold, e).feeds + (IF n > 1 THEN 2 ELSE 0)]
    <3>. HIDE DEF e
    <3>. QED BY <1>1, <1>3, <2>2, ToldBlank
  <2>. HIDE DEF b
  <2>4. Told(Untold, b) = [seen |-> e, feeds |-> IF n > 1 THEN 2 ELSE 0]
    BY <1>3, <2>1, <2>3 DEF Untold
  <2>5. Words(b) = Paragraphs(e, IF n > 1 THEN 2 ELSE 0) /\ Words(pts) = Paragraphs(e, n)
    <3>. HIDE DEF e
    <3>. QED BY <1>1, <2>2, <2>4, WordsTold DEF Closed
  <2>. QED BY <1>1, <2>5 DEF Paragraphs
<1>. HIDE DEF b, n
<1>6. Words(pts) \in Seq(Nat)
  <2>1. pts \in Seq(AllItems)
    BY ItemTypes
  <2>2. Told(Untold, pts).seen \in Texts /\ Told(Untold, pts).feeds \in Nat
    BY <2>1, WordsTold DEF WordStates
  <2>. QED BY <2>1, <2>2, WordsTold, ParagraphsType DEF Closed, Texts
<1>7. e \o Words(pts) = Words(pts)
  BY <1>6, ConcatEmptySeq
<1>. HIDE DEF e
<1>8. FastTrivia(pts) \in Results
  BY <1>2, <1>3, <1>4 DEF Results
<1>. QED BY <1>2, <1>3, <1>4, <1>5, <1>7, <1>8 DEF NoAnnotation, AnnotationLast

(* Whichever path the lexer takes: no word and no blank line is lost or     *)
(* moved by the split, and an annotation is the last of the leading trivia. *)
LEMMA LexemeKeeps ==
    ASSUME NEW pts \in Seq(SourceItems), NEW multiline \in BOOLEAN, NEW column \in Nat
    PROVE  LET r == Lexeme(pts, multiline, column)
           IN  /\ r \in Results
               /\ Written(r.trailing) \o Words(r.leading) = Words(pts)
               /\ AnnotationRest(pts) => AnnotationLast(r.leading)
<1>. DEFINE r == Lexeme(pts, multiline, column)
            k == SplitPos(pts)
            a == SubSeq(pts, 1, k)
            b == SubSeq(pts, k + 1, Len(pts))
<1>1. CASE OnlySpace(pts)
  <2>1. r = FastTrivia(pts)
    BY <1>1 DEF Lexeme
  <2>. QED BY <1>1, <2>1, FastKeeps
<1>2. CASE ~OnlySpace(pts) /\ FormsBlock(a, b, multiline, column)
  <2>. DEFINE l == ConvertLeading(pts)
              e == <<>>
  <2>1. r = Result(e, l)
    BY <1>2 DEF Lexeme, ConvertTrivia
  <2>2. e \in Texts /\ Written(e) = e
    BY EmptyTypes, WrittenEmpty
  <2>3. l \in Seq(Pieces) /\ Words(l) = Words(pts) /\ (AnnotationRest(pts) => AnnotationLast(l))
    BY ConvertLeadingKeeps, ConvertLeadingAnnotation
  <2>4. Words(pts) \in Seq(Nat)
    <3>1. pts \in Seq(AllItems)
      BY ItemTypes
    <3>2. Told(Untold, pts).seen \in Texts /\ Told(Untold, pts).feeds \in Nat
      BY <3>1, WordsTold DEF WordStates
    <3>. QED BY <3>1, <3>2, WordsTold, ParagraphsType DEF Closed, Texts
  <2>5. e \o Words(pts) = Words(pts)
    BY <2>4, ConcatEmptySeq
  <2>. HIDE DEF e, l, r
  <2>6. r = [trailing |-> e, leading |-> l]
    BY <2>1 DEF Result
  <2>7. r \in Results
    BY <2>2, <2>3, <2>6 DEF Results
  <2>. QED BY <2>2, <2>3, <2>5, <2>6, <2>7 DEF r
<1>3. CASE ~OnlySpace(pts) /\ ~FormsBlock(a, b, multiline, column)
  <2>. DEFINE t == ConvertTrailing(a)
              l == ConvertLeading(b)
  <2>1. r = Result(t, l)
    BY <1>3 DEF Lexeme, ConvertTrivia
  <2>2. k \in 0..Len(pts) /\ \A i \in 1..k : IsTrailing(pts[i])
    BY SplitPosType
  <2>3. Result(t, l) \in Results /\ Written(t) \o Words(l) = Words(pts) /\ (AnnotationRest(pts) => AnnotationLast(l))
    <3>. HIDE DEF k
    <3>. QED BY <2>2, SplitKeeps
  <2>. HIDE DEF t, l, r
  <2>4. r.trailing = t /\ r.leading = l
    BY <2>1 DEF Result
  <2>. QED BY <2>1, <2>3, <2>4 DEF r
<1>. QED BY <1>1, <1>2, <1>3

-----------------------------------------------------------------------------
(* What is printed and read again.                                          *)

CommentTags == SourceTags \ {"Newlines"}
Comments    == {x \in Items(CommentTags) : Formed(x)}
Widths      == {Hardspace, Hardline, Emptyline}
Gaps        == {Gap(s) : s \in Widths}
Elems       == Comments \cup Gaps

LEMMA ElemCases ==
    /\ Comments \subseteq SourceItems /\ Comments \subseteq Elems
    /\ \A x \in Comments : x.tag \notin {"Spacing", "Newlines", "EmptyLine"}
    /\ \A s \in Widths : Gap(s) \in Elems /\ Gap(s).tag = "Spacing" /\ Gap(s).s = s /\ s \in Nat
    /\ \A e \in Elems : \/ e \in Comments /\ e.tag # "Spacing"
                        \/ \E s \in Widths : e = Gap(s) /\ e.tag = "Spacing" /\ e.s = s
<1>1. \A x \in Comments : x.tag \in CommentTags /\ x.tag \notin {"Spacing", "Newlines", "EmptyLine"}
  BY DEF Comments, Items, CommentTags, SourceTags
<1>2. Comments \subseteq SourceItems
  BY DEF Comments, SourceItems, Items, CommentTags
<1>3. \A s \in Widths : Gap(s).tag = "Spacing" /\ Gap(s).s = s /\ s \in Nat
  BY DEF Gap, Widths, Hardspace, Hardline, Emptyline
<1>4. \A s \in Widths : Gap(s) \in Elems
  BY DEF Elems, Gaps
<1>5. ASSUME NEW e \in Elems
      PROVE  (e \in Comments /\ e.tag # "Spacing") \/ \E s \in Widths : e = Gap(s) /\ e.tag = "Spacing" /\ e.s = s
  <2>1. CASE e \in Comments
    BY <1>1, <2>1
  <2>2. CASE e \in Gaps
    <3>1. PICK s \in Widths : e = Gap(s)
      BY <2>2 DEF Gaps
    <3>. QED BY <1>3, <3>1
  <2>. QED BY <2>1, <2>2 DEF Elems
<1>. HIDE DEF Comments, Gaps, Widths
<1>. QED BY <1>1, <1>2, <1>3, <1>4, <1>5 DEF Elems

(* The spacings between comments: the larger one counts.                    *)
LEMMA WidthsMerge ==
    /\ \A a, b \in Widths : Merge(a, b) = (IF a >= b THEN a ELSE b) /\ Merge(a, b) \in Widths
    /\ LineFeeds(0) = 0 /\ LineFeeds(Hardspace) = 0 /\ LineFeeds(Hardline) = 1 /\ LineFeeds(Emptyline) = 2
<1>1. \A a, b \in Widths : Merge(a, b) = (IF a >= b THEN a ELSE b)
  BY SMT DEF Widths, Merge, MergeOrdered, IsNewlines, Count, Newlines,
             Softbreak, Break, Hardspace, Softspace, Space, Hardline, Emptyline
<1>2. LineFeeds(0) = 0 /\ LineFeeds(Hardspace) = 0 /\ LineFeeds(Hardline) = 1 /\ LineFeeds(Emptyline) = 2
  BY SMT DEF LineFeeds, IsNewlines, Hardspace, Hardline, Emptyline, Break, Space
<1>. QED BY <1>1, <1>2

(* An element that is read again, at a column.                              *)
Run(s) == IF LineFeeds(s) = 0 THEN <<>> ELSE <<NewlineRun(LineFeeds(s))>>

ReadAgain(x, col) ==
    CASE x.tag = "LineComment"  -> LineComment(x.text, col)
      [] x.tag = "BlockComment" -> BlockComment(x.doc, Printed(col, x.lines), col)
      [] OTHER -> x

LEMMA RunType ==
    ASSUME NEW s \in Widths \cup {0}
    PROVE  Run(s) \in Seq(SourceItems) /\ LineFeeds(s) \in Nat
<1>1. LineFeeds(s) \in Nat
  BY WidthsMerge DEF Widths
<1>2. NewlineRun(LineFeeds(s)) \in SourceItems
  BY <1>1, SpecialTypes
<1>3. <<>> \in Seq(SourceItems) /\ <<NewlineRun(LineFeeds(s))>> \in Seq(SourceItems)
  BY <1>2, EmptySeq
<1>. QED BY <1>1, <1>3 DEF Run

LEMMA ReadAgainKeeps ==
    ASSUME NEW x \in Comments, NEW col \in Nat
    PROVE  LET y == ReadAgain(x, col)
           IN  y \in SourceItems /\ y.tag = x.tag /\ WordsOf(y) = WordsOf(x)
<1>0. x \in SourceItems /\ x.text \in Texts /\ x.lines \in LineList /\ x.doc \in BOOLEAN
  BY ElemCases, ItemTypes
<1>1. CASE x.tag = "LineComment"
  <2>1. ReadAgain(x, col) = LineComment(x.text, col)
    BY <1>1 DEF ReadAgain
  <2>2. LineComment(x.text, col) \in SourceItems /\ WordsOf(LineComment(x.text, col)) = Written(x.text)
        /\ LineComment(x.text, col).tag = "LineComment"
    BY <1>0, SpecialTypes, CommentWords DEF LineComment, Item
  <2>3. x.lines = <<>>
    BY <1>1 DEF Comments, Formed
  <2>4. WordsOf(x) = Written(x.text) \o Written(LineTexts(x.lines))
    BY WordsOfType DEF Comments
  <2>5. Written(x.text) \in Seq(Shown)
    BY <1>0, WrittenType
  <2>6. Written(x.text) \o <<>> = Written(x.text)
    BY <2>5, ConcatEmptySeq
  <2>. QED BY <1>1, <2>1, <2>2, <2>3, <2>4, <2>6, LineTextsEmpty, WrittenEmpty
<1>2. CASE x.tag = "BlockComment"
  <2>. DEFINE lines == Printed(col, x.lines)
  <2>1. lines \in LineList /\ LineTexts(lines) = LineTexts(x.lines)
    BY <1>0, PrintedKeeps
  <2>2. ReadAgain(x, col) = BlockComment(x.doc, lines, col)
    BY <1>2 DEF ReadAgain
  <2>. HIDE DEF lines
  <2>3. BlockComment(x.doc, lines, col) \in SourceItems /\ BlockComment(x.doc, lines, col).tag = "BlockComment"
        /\ WordsOf(BlockComment(x.doc, lines, col)) = Written(LineTexts(lines))
    BY <1>0, <2>1, SpecialTypes, CommentWords DEF BlockComment, Item
  <2>4. WordsOf(x) = Written(LineTexts(x.lines))
    BY <1>0, <1>2, BlockWords
  <2>. QED BY <1>2, <2>1, <2>2, <2>3, <2>4
<1>3. CASE x.tag \notin {"LineComment", "BlockComment"}
  BY <1>0, <1>3 DEF ReadAgain
<1>. QED BY <1>1, <1>2, <1>3

ColumnsTyped == CommentColumn \in Nat /\ NextColumn \in Nat

(* The column of an element, from the one in front of it, and its reading.  *)
ColumnAt(elems, i) ==
    IF i > 1 /\ elems[i - 1].tag = "Spacing" /\ LineFeeds(elems[i - 1].s) > 0 THEN NextColumn ELSE CommentColumn
RelexAt(elems, i) ==
    IF elems[i].tag = "Spacing" THEN Run(elems[i].s) ELSE <<ReadAgain(elems[i], ColumnAt(elems, i))>>

LEMMA RelexAtType ==
    ASSUME ColumnsTyped, NEW elems \in Seq(Elems), NEW i \in 1..Len(elems)
    PROVE  /\ RelexAt(elems, i) \in Seq(SourceItems)
           /\ \A s \in Widths : elems[i] = Gap(s) => RelexAt(elems, i) = Run(s)
           /\ elems[i] \in Comments => \E y \in SourceItems :
                /\ RelexAt(elems, i) = <<y>> /\ y.tag = elems[i].tag /\ WordsOf(y) = WordsOf(elems[i])
<1>0. elems[i] \in Elems
  OBVIOUS
<1>1. ASSUME NEW s \in Widths, elems[i] = Gap(s)
      PROVE  RelexAt(elems, i) = Run(s) /\ Run(s) \in Seq(SourceItems)
  BY <1>1, ElemCases, RunType DEF RelexAt
<1>2. ASSUME elems[i] \in Comments
      PROVE  \E y \in SourceItems :
                /\ RelexAt(elems, i) = <<y>> /\ y.tag = elems[i].tag /\ WordsOf(y) = WordsOf(elems[i])
  <2>1. ColumnAt(elems, i) \in Nat
    BY DEF ColumnsTyped, ColumnAt
  <2>. DEFINE y == ReadAgain(elems[i], ColumnAt(elems, i))
  <2>2. y \in SourceItems /\ y.tag = elems[i].tag /\ WordsOf(y) = WordsOf(elems[i])
    BY <1>2, <2>1, ReadAgainKeeps
  <2>3. RelexAt(elems, i) = <<y>>
    BY <1>2, ElemCases DEF RelexAt
  <2>. HIDE DEF y
  <2>. QED BY <2>2, <2>3
<1>3. CASE elems[i] \in Comments
  <2>1. PICK y \in SourceItems : RelexAt(elems, i) = <<y>>
    BY <1>2, <1>3
  <2>2. <<y>> \in Seq(SourceItems)
    OBVIOUS
  <2>. QED BY <1>1, <1>2, <2>1, <2>2
<1>4. CASE \E s \in Widths : elems[i] = Gap(s)
  BY <1>1, <1>2, <1>4
<1>. QED BY <1>0, <1>3, <1>4, ElemCases

LEMMA RelexedAt ==
    ASSUME NEW elems
    PROVE  Relexed(elems) = FlattenSeq([i \in DOMAIN elems |-> RelexAt(elems, i)])
<1>1. ASSUME NEW i \in DOMAIN elems
      PROVE  RelexAt(elems, i)
               = IF elems[i].tag = "Spacing"
                 THEN IF LineFeeds(elems[i].s) = 0 THEN <<>> ELSE <<NewlineRun(LineFeeds(elems[i].s))>>
                 ELSE LET col == IF i > 1 /\ elems[i - 1].tag = "Spacing" /\ LineFeeds(elems[i - 1].s) > 0
                                 THEN NextColumn ELSE CommentColumn
                      IN  CASE elems[i].tag = "LineComment"  -> <<LineComment(elems[i].text, col)>>
                            [] elems[i].tag = "BlockComment" ->
                                  <<BlockComment(elems[i].doc, Printed(col, elems[i].lines), col)>>
                            [] OTHER -> <<elems[i]>>
  BY DEF RelexAt, Run, ReadAgain, ColumnAt
<1>. QED BY <1>1 DEF Relexed

LEMMA RelexedAppend ==
    ASSUME ColumnsTyped, NEW elems \in Seq(Elems), NEW e \in Elems
    PROVE  /\ Relexed(elems) \in Seq(SourceItems)
           /\ Relexed(Append(elems, e)) = Relexed(elems) \o RelexAt(Append(elems, e), Len(elems) + 1)
<1>. DEFINE n == Len(elems)
            more == Append(elems, e)
            old == [i \in 1..n |-> RelexAt(elems, i)]
            new == [i \in 1..(n + 1) |-> RelexAt(more, i)]
<1>1. n \in Nat /\ DOMAIN elems = 1..n /\ more \in Seq(Elems) /\ Len(more) = n + 1 /\ DOMAIN more = 1..(n + 1)
      /\ \A i \in 1..n : more[i] = elems[i]
  BY AppendProperties
<1>. HIDE DEF more, n
<1>2. old \in [1..n -> Seq(SourceItems)]
  <2>1. \A i \in 1..n : RelexAt(elems, i) \in Seq(SourceItems)
    BY RelexAtType DEF n
  <2>. QED BY <2>1
<1>3. new \in [1..(n + 1) -> Seq(SourceItems)]
  <2>1. \A i \in 1..(n + 1) : RelexAt(more, i) \in Seq(SourceItems)
    BY <1>1, RelexAtType
  <2>. QED BY <2>1
<1>4. \A i \in 1..n : new[i] = old[i]
  <2>1. ASSUME NEW i \in 1..n PROVE new[i] = old[i]
    <3>1. more[i] = elems[i] /\ (i > 1 => more[i - 1] = elems[i - 1]) /\ i \in 1..(n + 1)
      BY <1>1
    <3>2. RelexAt(more, i) = RelexAt(elems, i)
      BY <3>1 DEF RelexAt, ColumnAt
    <3>. QED BY <3>1, <3>2
  <2>. QED BY <2>1
<1>5. new[n + 1] = RelexAt(more, n + 1)
  BY <1>1
<1>6. Relexed(elems) = FlattenSeq(old) /\ Relexed(more) = FlattenSeq(new)
  BY <1>1, RelexedAt
<1>. HIDE DEF old, new
<1>7. FlattenSeq(old) \in Seq(SourceItems) /\ FlattenSeq(new) = FlattenSeq(old) \o new[n + 1]
  BY <1>1, <1>2, <1>3, <1>4, FlattenGrown
<1>. QED BY <1>5, <1>6, <1>7 DEF more, n

LEMMA RelexedEmpty == Relexed(<<>>) = <<>>
<1>1. [i \in DOMAIN <<>> |-> RelexAt(<<>>, i)] = <<>>
  OBVIOUS
<1>. QED BY <1>1, FlattenEmpty, RelexedAt

(* Merging, element by element.                                             *)
MergeFun == [p \in Seq(Elems) \X Elems |-> MergeStep(p[1], p[2])]

LEMMA MergeStepType ==
    ASSUME NEW acc \in Seq(Elems), NEW e \in Elems
    PROVE  MergeStep(acc, e) \in Seq(Elems)
<1>1. CASE e.tag = "Spacing" /\ acc # <<>> /\ Last(acc).tag = "Spacing"
  <2>1. Front(acc) \in Seq(Elems) /\ Last(acc) \in Elems
    BY <1>1, FrontLast
  <2>2. PICK a \in Widths : Last(acc).s = a
    BY <1>1, <2>1, ElemCases
  <2>3. PICK b \in Widths : e.s = b
    BY <1>1, ElemCases
  <2>4. Gap(Merge(Last(acc).s, e.s)) \in Elems
    BY <2>2, <2>3, WidthsMerge, ElemCases
  <2>5. MergeStep(acc, e) = Append(Front(acc), Gap(Merge(Last(acc).s, e.s)))
    BY <1>1 DEF MergeStep
  <2>. DEFINE f == Front(acc)
              g == Gap(Merge(Last(acc).s, e.s))
  <2>. HIDE DEF f, g
  <2>. QED BY <2>1, <2>4, <2>5 DEF f, g
<1>2. CASE ~(e.tag = "Spacing" /\ acc # <<>> /\ Last(acc).tag = "Spacing")
  BY <1>2 DEF MergeStep
<1>. QED BY <1>1, <1>2

LEMMA MergedFolds ==
    ASSUME NEW items \in Seq(Elems)
    PROVE  Folded(Merged(items), Seq(Elems), <<>>, MergeFun, items)
<1>. DEFINE A == Seq(Elems)
            none == <<>>
            Rec(h) == h = [t \in SUBSET DOMAIN items |->
                             IF t = {} THEN none ELSE MergeStep(h[t \ {Max(t)}], items[Max(t)])]
            n == Len(items)
<1>0. DOMAIN items = 1..n /\ n \in Nat /\ \A k \in 1..n : items[k] \in Elems
  OBVIOUS
<1>1. MergeFun \in [A \X Elems -> A] /\ none \in A
  BY MergeStepType, EmptySeq DEF MergeFun
<1>1a. \A a \in A, x \in Elems : MergeFun[<<a, x>>] = MergeStep(a, x)
  BY DEF MergeFun
<1>. HIDE DEF A, none
<1>2. PICK h \in [SUBSET (1..n) -> A] : IsIteration(h, n, none, MergeFun, items)
  BY <1>1, IterationExists
<1>3. \A t \in SUBSET (1..n) : t # {} => Max(t) \in 1..n
  BY <1>0, MaxOfPart
<1>4. Rec(h)
  <2>1. ASSUME NEW t \in SUBSET (1..n)
        PROVE  h[t] = IF t = {} THEN none ELSE MergeStep(h[t \ {Max(t)}], items[Max(t)])
    <3>1. CASE t = {}
      BY <1>2, <3>1 DEF IsIteration
    <3>2. CASE t # {}
      <4>1. h[t \ {Max(t)}] \in A /\ items[Max(t)] \in Elems
        BY <1>0, <1>3, <3>2
      <4>2. h[t] = MergeFun[<<h[t \ {Max(t)}], items[Max(t)]>>]
        BY <1>2, <3>2 DEF IsIteration
      <4>. QED BY <1>1a, <3>2, <4>1, <4>2
    <3>. QED BY <3>1, <3>2
  <2>. QED BY <1>0, <2>1
<1>. DEFINE g == CHOOSE f : Rec(f)
<1>5. Rec(g)
  <2>. HIDE DEF Rec
  <2>. QED BY <1>4
<1>6. Merged(items) = g[1..n]
  <2>1. Merged(items) = (CHOOSE f : Rec(f))[DOMAIN items]
    BY DEF Merged, FoldLeft, MapThenFoldSet, none
  <2>. QED BY <1>0, <2>1
<1>. HIDE DEF g
<1>7. StepsWhereTyped(g, n, A, none, MergeFun, items)
  <2>1. \A t \in SUBSET (1..n) : g[t] = IF t = {} THEN none ELSE MergeStep(g[t \ {Max(t)}], items[Max(t)])
    BY <1>0, <1>5
  <2>. HIDE DEF Rec
  <2>2. g[{}] = none
    BY <2>1
  <2>3. ASSUME NEW t \in SUBSET (1..n), t # {}, g[t \ {Max(t)}] \in A
        PROVE  g[t] = MergeFun[<<g[t \ {Max(t)}], items[Max(t)]>>]
    <3>1. items[Max(t)] \in Elems
      BY <1>0, <1>3, <2>3
    <3>2. g[t] = MergeStep(g[t \ {Max(t)}], items[Max(t)])
      BY <2>1, <2>3
    <3>. QED BY <1>1a, <2>3, <3>1, <3>2
  <2>. QED BY <2>2, <2>3 DEF StepsWhereTyped
<1>8. Folded(g[1..n], A, none, MergeFun, items)
  <2>. HIDE DEF Rec
  <2>. QED BY <1>1, <1>7, IterationFolds
<1>. QED BY <1>6, <1>8 DEF A, none

LEMMA MergedAppend ==
    ASSUME NEW elems \in Seq(Elems), NEW e \in Elems
    PROVE  Merged(elems) \in Seq(Elems) /\ Merged(Append(elems, e)) = MergeStep(Merged(elems), e)
<1>. DEFINE A == Seq(Elems)
            none == <<>>
<1>0. \A a \in A, x \in Elems : MergeFun[<<a, x>>] = MergeStep(a, x)
  BY DEF MergeFun
<1>1. Append(elems, e) \in Seq(Elems)
  OBVIOUS
<1>2. /\ Folded(Merged(elems), A, none, MergeFun, elems)
      /\ Folded(Merged(Append(elems, e)), A, none, MergeFun, Append(elems, e))
  BY <1>1, MergedFolds
<1>. HIDE DEF A, none
<1>3. Merged(Append(elems, e)) = MergeFun[<<Merged(elems), e>>] /\ Merged(elems) \in A
  BY <1>2, FoldedAppend
<1>. QED BY <1>0, <1>3 DEF A

LEMMA MergedEmpty == Merged(<<>>) = <<>>
<1>1. <<>> \in Seq(Elems)
  BY EmptySeq
<1>. QED BY <1>1, MergedFolds, FoldedEmpty

(* What is laid out so far reads as R, with a spacing of width s behind it,  *)
(* or 0 for none: it may still be merged with the next one.                 *)
Renders(M, R, s) ==
    /\ M \in Seq(Elems) /\ R \in Seq(SourceItems)
    /\ \/ s = 0 /\ (M = <<>> \/ Last(M).tag # "Spacing") /\ R = Relexed(M)
       \/ s \in Widths /\ M # <<>> /\ Last(M) = Gap(s) /\ R = Relexed(Front(M))

LEMMA RendersRelexed ==
    ASSUME ColumnsTyped, NEW M, NEW R, NEW s, Renders(M, R, s)
    PROVE  Relexed(M) = R \o Run(s)
<1>1. CASE s = 0 /\ R = Relexed(M)
  <2>1. Run(s) = <<>>
    BY <1>1, WidthsMerge DEF Run
  <2>2. R \o <<>> = R
    BY ConcatEmptySeq DEF Renders
  <2>. QED BY <1>1, <2>1, <2>2
<1>2. CASE s \in Widths /\ M # <<>> /\ Last(M) = Gap(s) /\ R = Relexed(Front(M))
  <2>. DEFINE f == Front(M)
              e == Last(M)
  <2>1. f \in Seq(Elems) /\ e \in Elems /\ M = Append(f, e) /\ Len(M) = Len(f) + 1 /\ Len(f) \in Nat
        /\ M[Len(f) + 1] = e /\ Len(f) + 1 \in 1..Len(M)
    <3>0. M \in Seq(Elems) /\ M # <<>>
      BY <1>2 DEF Renders
    <3>1. f \in Seq(Elems) /\ e \in Elems /\ M = Append(f, e)
      BY <3>0, FrontLast
    <3>. HIDE DEF f, e
    <3>. QED BY <3>1, AppendProperties
  <2>. HIDE DEF f, e
  <2>2. Relexed(M) = Relexed(f) \o RelexAt(M, Len(f) + 1)
    BY <2>1, RelexedAppend
  <2>3. RelexAt(M, Len(f) + 1) = Run(s)
    BY <1>2, <2>1, RelexAtType DEF Renders, e
  <2>. QED BY <1>2, <2>2, <2>3 DEF f
<1>. QED BY <1>1, <1>2 DEF Renders

LEMMA RendersGap ==
    ASSUME NEW M, NEW R, NEW s, Renders(M, R, s), NEW w \in Widths
    PROVE  Renders(MergeStep(M, Gap(w)), R, IF s >= w THEN s ELSE w)
<1>0. M \in Seq(Elems) /\ R \in Seq(SourceItems) /\ Gap(w) \in Elems /\ Gap(w).tag = "Spacing" /\ Gap(w).s = w
  BY ElemCases DEF Renders
<1>1. CASE s = 0 /\ (M = <<>> \/ Last(M).tag # "Spacing") /\ R = Relexed(M)
  <2>1. MergeStep(M, Gap(w)) = Append(M, Gap(w))
    BY <1>1 DEF MergeStep
  <2>2. Append(M, Gap(w)) \in Seq(Elems) /\ Append(M, Gap(w)) # <<>>
        /\ Front(Append(M, Gap(w))) = M /\ Last(Append(M, Gap(w))) = Gap(w)
    BY <1>0, FrontAppend
  <2>3. (IF s >= w THEN s ELSE w) = w
    BY <1>1 DEF Widths, Hardspace, Hardline, Emptyline
  <2>. QED BY <1>0, <1>1, <2>1, <2>2, <2>3 DEF Renders
<1>2. CASE s \in Widths /\ M # <<>> /\ Last(M) = Gap(s) /\ R = Relexed(Front(M))
  <2>. DEFINE v == IF s >= w THEN s ELSE w
              f == Front(M)
  <2>1. v \in Widths /\ Merge(s, w) = v
    BY <1>2, WidthsMerge
  <2>2. MergeStep(M, Gap(w)) = Append(f, Gap(v))
    <3>1. Gap(s).tag = "Spacing" /\ Gap(s).s = s
      BY <1>2, ElemCases
    <3>. HIDE DEF v
    <3>. QED BY <1>0, <1>2, <2>1, <3>1 DEF MergeStep
  <2>3. f \in Seq(Elems)
    BY <1>0, <1>2, FrontLast
  <2>. HIDE DEF v, f
  <2>4. Gap(v) \in Elems
    BY <2>1, ElemCases
  <2>5. Append(f, Gap(v)) \in Seq(Elems) /\ Append(f, Gap(v)) # <<>>
        /\ Front(Append(f, Gap(v))) = f /\ Last(Append(f, Gap(v))) = Gap(v)
    BY <2>3, <2>4, FrontAppend
  <2>6. Renders(MergeStep(M, Gap(w)), R, v)
    BY <1>0, <1>2, <2>1, <2>2, <2>5 DEF Renders, f
  <2>. QED BY <2>6 DEF v
<1>. QED BY <1>1, <1>2 DEF Renders

LEMMA RendersComment ==
    ASSUME ColumnsTyped, NEW M, NEW R, NEW s, Renders(M, R, s), NEW x \in Comments
    PROVE  \E y \in SourceItems :
              /\ y.tag = x.tag /\ WordsOf(y) = WordsOf(x)
              /\ Renders(MergeStep(M, x), (R \o Run(s)) \o <<y>>, 0)
<1>0. M \in Seq(Elems) /\ R \in Seq(SourceItems) /\ x \in Elems /\ x.tag # "Spacing"
  BY ElemCases DEF Renders
<1>. DEFINE more == Append(M, x)
            n == Len(M)
<1>1. MergeStep(M, x) = more
  BY <1>0 DEF MergeStep
<1>2. more \in Seq(Elems) /\ Last(more) = x /\ n \in Nat /\ Len(more) = n + 1 /\ more[n + 1] = x /\ n + 1 \in 1..Len(more)
  BY <1>0, FrontAppend
<1>3. Relexed(M) \in Seq(SourceItems) /\ Relexed(more) = Relexed(M) \o RelexAt(more, n + 1)
  BY <1>0, RelexedAppend
<1>. HIDE DEF more, n
<1>4. PICK y \in SourceItems : RelexAt(more, n + 1) = <<y>> /\ y.tag = x.tag /\ WordsOf(y) = WordsOf(x)
  BY <1>2, RelexAtType
<1>5. Relexed(M) = R \o Run(s)
  BY RendersRelexed
<1>6. Relexed(more) = (R \o Run(s)) \o <<y>> /\ (R \o Run(s)) \o <<y>> \in Seq(SourceItems)
  <2>. DEFINE q == R \o Run(s)
  <2>1. q \in Seq(SourceItems) /\ Relexed(more) = q \o <<y>>
    BY <1>3, <1>4, <1>5
  <2>. HIDE DEF q
  <2>2. q \o <<y>> \in Seq(SourceItems)
    BY <2>1, OneMore
  <2>. QED BY <2>1, <2>2 DEF q
<1>7. Renders(more, (R \o Run(s)) \o <<y>>, 0)
  BY <1>0, <1>2, <1>6 DEF Renders
<1>. QED BY <1>1, <1>4, <1>7

-----------------------------------------------------------------------------
(* What may follow what, in a text that goes on with a spacing of width s,   *)
(* and in one that is finished.                                             *)
EndsLine(x) == x.tag \in {"LineComment", "Directive"}
Broken(s)   == s \in {Hardline, Emptyline}

Legal(R) == \A i \in 1..Len(R) :
    /\ EndsLine(R[i]) => i < Len(R) /\ R[i + 1].tag = "Newlines"
    /\ R[i].tag = "Directive" => i > 1 /\ R[i - 1].tag = "Newlines"
LegalBut(R, s) == \A i \in 1..Len(R) :
    /\ EndsLine(R[i]) => IF i < Len(R) THEN R[i + 1].tag = "Newlines" ELSE Broken(s)
    /\ R[i].tag = "Directive" => i > 1 /\ R[i - 1].tag = "Newlines"

LEMMA RunCases ==
    ASSUME NEW s \in Widths \cup {0}
    PROVE  \/ Broken(s) /\ Run(s) = <<NewlineRun(LineFeeds(s))>> /\ LineFeeds(s) \in Nat \ {0}
           \/ ~Broken(s) /\ Run(s) = <<>> /\ LineFeeds(s) = 0
  BY WidthsMerge, SMT DEF Run, Broken, Widths, Hardspace, Hardline, Emptyline

LEMMA NewlineRunIs ==
    ASSUME NEW n \in Nat
    PROVE  /\ NewlineRun(n) \in SourceItems /\ NewlineRun(n).tag = "Newlines" /\ NewlineRun(n).n = n
           /\ ~EndsLine(NewlineRun(n))
<1>1. NewlineRun(n).tag = "Newlines" /\ NewlineRun(n).n = n
  BY DEF NewlineRun, Item
<1>. QED BY <1>1, SpecialTypes DEF EndsLine

LEMMA LegalRun ==
    ASSUME NEW R \in Seq(SourceItems), NEW s \in Widths \cup {0}, LegalBut(R, s)
    PROVE  /\ R \o Run(s) \in Seq(SourceItems) /\ Legal(R \o Run(s))
           /\ Broken(s) => R \o Run(s) # <<>> /\ Last(R \o Run(s)).tag = "Newlines"
           /\ NoAnnotation(R) => NoAnnotation(R \o Run(s))
<1>0. Len(R) \in Nat
  OBVIOUS
<1>1. CASE Broken(s) /\ Run(s) = <<NewlineRun(LineFeeds(s))>> /\ LineFeeds(s) \in Nat \ {0}
  <2>. DEFINE x == NewlineRun(LineFeeds(s))
              q == Append(R, x)
  <2>1. x \in SourceItems /\ x.tag = "Newlines" /\ ~EndsLine(x)
    BY <1>1, NewlineRunIs
  <2>2. R \o Run(s) = q
    <3>. HIDE DEF q
    <3>1. R \o <<x>> = Append(R, x)
      BY <2>1, OneMore
    <3>. QED BY <1>1, <3>1 DEF q
  <2>. HIDE DEF x
  <2>3. q \in Seq(SourceItems) /\ Len(q) = Len(R) + 1 /\ q[Len(R) + 1] = x /\ q # <<>> /\ Last(q) = x
        /\ \A i \in 1..Len(R) : q[i] = R[i]
    BY <2>1, FrontAppend
  <2>. HIDE DEF q
  <2>4. ASSUME NEW i \in 1..Len(q)
        PROVE  /\ EndsLine(q[i]) => i < Len(q) /\ q[i + 1].tag = "Newlines"
               /\ q[i].tag = "Directive" => i > 1 /\ q[i - 1].tag = "Newlines"
               /\ NoAnnotation(R) => q[i].tag # "LanguageAnnotation"
    <3>1. CASE i = Len(R) + 1
      BY <2>1, <2>3, <3>1
    <3>2. CASE i # Len(R) + 1
      <4>1. i \in 1..Len(R) /\ q[i] = R[i] /\ i < Len(q)
        BY <1>0, <2>3, <3>2
      <4>2. i < Len(R) => q[i + 1] = R[i + 1]
        BY <1>0, <2>3, <4>1
      <4>3. ~(i < Len(R)) => q[i + 1] = x
        BY <1>0, <2>3, <4>1
      <4>4. i > 1 => q[i - 1] = R[i - 1]
        BY <1>0, <2>3, <4>1
      <4>5. EndsLine(R[i]) => q[i + 1].tag = "Newlines"
        BY <2>1, <4>1, <4>2, <4>3 DEF LegalBut
      <4>6. R[i].tag = "Directive" => i > 1 /\ q[i - 1].tag = "Newlines"
        BY <4>1, <4>4 DEF LegalBut
      <4>. QED BY <4>1, <4>5, <4>6 DEF NoAnnotation
    <3>. QED BY <3>1, <3>2
  <2>5. Legal(q) /\ (NoAnnotation(R) => NoAnnotation(q))
    BY <2>4 DEF Legal, NoAnnotation
  <2>. QED BY <2>1, <2>2, <2>3, <2>5
<1>2. CASE ~Broken(s) /\ Run(s) = <<>>
  <2>1. R \o Run(s) = R
    BY <1>2, ConcatEmptySeq
  <2>2. Legal(R)
    BY <1>0, <1>2 DEF Legal, LegalBut
  <2>. QED BY <1>2, <2>1, <2>2
<1>. QED BY <1>1, <1>2, RunCases

LEMMA LegalMore ==
    ASSUME NEW Q \in Seq(SourceItems), Legal(Q), NEW y \in SourceItems, NEW w,
           EndsLine(y) => Broken(w),
           y.tag = "Directive" => Q # <<>> /\ Last(Q).tag = "Newlines"
    PROVE  Q \o <<y>> \in Seq(SourceItems) /\ LegalBut(Q \o <<y>>, w)
<1>. DEFINE q == Append(Q, y)
<1>0. Len(Q) \in Nat /\ Q \o <<y>> = q
  BY OneMore
<1>1. q \in Seq(SourceItems) /\ Len(q) = Len(Q) + 1 /\ q[Len(Q) + 1] = y /\ \A i \in 1..Len(Q) : q[i] = Q[i]
  BY FrontAppend
<1>. HIDE DEF q
<1>2. ASSUME NEW i \in 1..Len(q)
      PROVE  /\ EndsLine(q[i]) => IF i < Len(q) THEN q[i + 1].tag = "Newlines" ELSE Broken(w)
             /\ q[i].tag = "Directive" => i > 1 /\ q[i - 1].tag = "Newlines"
  <2>1. CASE i = Len(Q) + 1
    <3>1. q[i] = y /\ ~(i < Len(q))
      BY <1>0, <1>1, <2>1
    <3>2. y.tag = "Directive" => i > 1 /\ q[i - 1].tag = "Newlines"
      <4>1. ASSUME y.tag = "Directive" PROVE i > 1 /\ q[i - 1].tag = "Newlines"
        <5>1. Len(Q) >= 1 /\ Q[Len(Q)].tag = "Newlines"
          BY <1>0, <4>1, EmptySeq DEF Last
        <5>2. Len(Q) \in 1..Len(Q) /\ i - 1 = Len(Q) /\ i > 1
          BY <1>0, <2>1, <5>1
        <5>. QED BY <1>1, <5>1, <5>2
      <4>. QED BY <4>1
    <3>. QED BY <3>1, <3>2
  <2>2. CASE i # Len(Q) + 1
    <3>1. i \in 1..Len(Q) /\ q[i] = Q[i] /\ i < Len(q)
      BY <1>0, <1>1, <2>2
    <3>2. i < Len(Q) => q[i + 1] = Q[i + 1]
      BY <1>0, <1>1, <3>1
    <3>3. i > 1 => q[i - 1] = Q[i - 1]
      BY <1>0, <1>1, <3>1
    <3>. QED BY <3>1, <3>2, <3>3 DEF Legal
  <2>. QED BY <2>1, <2>2
<1>3. LegalBut(q, w)
  BY <1>2 DEF LegalBut
<1>. QED BY <1>0, <1>1, <1>3

(* The text of the elements so far says the same as st, read on from the     *)
(* beginning, and is legal.                                                 *)
Shows(E, st, R, s) ==
    /\ E \in Seq(Elems) /\ st \in WordStates /\ s \in Widths \cup {0}
    /\ Renders(Merged(E), R, s) /\ LegalBut(R, s)
    /\ Told(Untold, R) = [seen |-> st.seen, feeds |-> 0]
    /\ LineFeeds(s) > 1 <=> st.feeds > 1

LEMMA ShowsNothing == Shows(<<>>, Untold, <<>>, 0)
<1>. DEFINE e == <<>>
<1>1. e \in Seq(Elems) /\ e \in Seq(SourceItems) /\ Len(e) = 0
  BY EmptySeq
<1>2. Merged(e) = e /\ Relexed(e) = e /\ Told(Untold, e) = Untold /\ Untold \in WordStates
  BY MergedEmpty, RelexedEmpty, WordsTold, EmptySeq, ToldEmpty
<1>3. Untold = [seen |-> Untold.seen, feeds |-> 0] /\ Untold.feeds = 0
  BY DEF Untold
<1>4. LegalBut(e, 0)
  BY <1>1 DEF LegalBut
<1>. HIDE DEF e
<1>5. Renders(Merged(e), e, 0)
  BY <1>1, <1>2 DEF Renders, e
<1>6. Shows(e, Untold, e, 0)
  BY <1>1, <1>2, <1>3, <1>4, <1>5, WidthsMerge DEF Shows
<1>. QED BY <1>6 DEF e

LEMMA ShowsGap ==
    ASSUME NEW E, NEW st, NEW R, NEW s, Shows(E, st, R, s), NEW w \in {Hardspace, Hardline}
    PROVE  Shows(Append(E, Gap(w)), st, R, IF s >= w THEN s ELSE w)
<1>. DEFINE v == IF s >= w THEN s ELSE w
<1>1. w \in Widths /\ Gap(w) \in Elems /\ E \in Seq(Elems) /\ s \in Widths \cup {0}
  BY ElemCases DEF Shows, Widths
<1>2. Append(E, Gap(w)) \in Seq(Elems) /\ Merged(Append(E, Gap(w))) = MergeStep(Merged(E), Gap(w))
  BY <1>1, MergedAppend
<1>3. Renders(MergeStep(Merged(E), Gap(w)), R, v)
  BY <1>1, RendersGap DEF Shows
<1>4. v \in Widths \cup {0} /\ (Broken(s) => Broken(v)) /\ (LineFeeds(v) > 1 <=> LineFeeds(s) > 1)
  BY <1>1, WidthsMerge, SMT DEF Widths, Broken, Hardspace, Hardline, Emptyline
<1>. HIDE DEF v
<1>5. LegalBut(R, v)
  BY <1>4 DEF Shows, LegalBut
<1>6. Shows(Append(E, Gap(w)), st, R, v)
  BY <1>2, <1>3, <1>4, <1>5 DEF Shows
<1>. QED BY <1>6 DEF v

LEMMA ShowsEmpty ==
    ASSUME NEW E, NEW st, NEW R, NEW s, Shows(E, st, R, s)
    PROVE  Shows(Append(E, Gap(Emptyline)), WordStep(st, EmptyLine), R, Emptyline)
<1>1. Emptyline \in Widths /\ Gap(Emptyline) \in Elems /\ E \in Seq(Elems) /\ s \in Widths \cup {0}
  BY ElemCases DEF Shows, Widths
<1>2. Append(E, Gap(Emptyline)) \in Seq(Elems) /\ Merged(Append(E, Gap(Emptyline))) = MergeStep(Merged(E), Gap(Emptyline))
  BY <1>1, MergedAppend
<1>3. (IF s >= Emptyline THEN s ELSE Emptyline) = Emptyline
  BY <1>1, SMT DEF Widths, Hardspace, Hardline, Emptyline
<1>4. Renders(MergeStep(Merged(E), Gap(Emptyline)), R, IF s >= Emptyline THEN s ELSE Emptyline)
  BY <1>1, RendersGap DEF Shows
<1>5. LegalBut(R, Emptyline)
  BY DEF Shows, LegalBut, Broken
<1>6. EmptyLine \in AllItems /\ EmptyLine.tag = "EmptyLine" /\ st \in WordStates
  BY ItemTypes, SpecialTypes DEF EmptyLine, Item, Shows
<1>7. WordStep(st, EmptyLine) = [seen |-> st.seen, feeds |-> st.feeds + 2] /\ WordStep(st, EmptyLine) \in WordStates
  BY <1>6, WordStepType
<1>8. st.feeds + 2 > 1
  BY <1>6 DEF WordStates
<1>9. LineFeeds(Emptyline) > 1
  BY WidthsMerge
<1>. QED BY <1>1, <1>2, <1>3, <1>4, <1>5, <1>7, <1>8, <1>9 DEF Shows

(* Line feeds behind what was read. *)
LEMMA ToldRun ==
    ASSUME NEW R \in Seq(SourceItems), NEW s \in Widths \cup {0}, NEW seen,
           Told(Untold, R) = [seen |-> seen, feeds |-> 0]
    PROVE  /\ Told(Untold, R \o Run(s)) = [seen |-> seen, feeds |-> LineFeeds(s)]
           /\ Told(Untold, R \o Run(s)) \in WordStates
<1>. DEFINE Q == R \o Run(s)
<1>0. Untold \in WordStates /\ R \in Seq(AllItems) /\ Told(Untold, R) \in WordStates
  BY WordsTold, EmptySeq, ItemTypes
<1>1. CASE Run(s) = <<NewlineRun(LineFeeds(s))>> /\ LineFeeds(s) \in Nat
  <2>. DEFINE n == LineFeeds(s)
              z == NewlineRun(n)
              t == Told(Untold, R)
  <2>1. z \in SourceItems /\ z \in AllItems /\ z.tag = "Newlines" /\ z.n = n
    BY <1>1, NewlineRunIs, ItemTypes
  <2>2. n \in Nat /\ Run(s) = <<z>>
    BY <1>1
  <2>. HIDE DEF n, z
  <2>3. Q = Append(R, z)
    BY <2>1, <2>2, OneMore
  <2>4. Told(Untold, Append(R, z)) = WordStep(t, z)
    BY <1>0, <2>1, ToldAppend
  <2>5. WordStep(t, z) \in WordStates /\ WordStep(t, z) = [seen |-> t.seen, feeds |-> t.feeds + z.n]
    BY <1>0, <2>1, WordStepType
  <2>6. t.seen = seen /\ t.feeds = 0
    OBVIOUS
  <2>. HIDE DEF t
  <2>7. WordStep(t, z) = [seen |-> seen, feeds |-> n]
    BY <2>1, <2>2, <2>5, <2>6
  <2>. QED BY <2>3, <2>4, <2>5, <2>7 DEF n
<1>2. CASE Run(s) = <<>> /\ LineFeeds(s) = 0
  <2>1. Q = R
    BY <1>2, ConcatEmptySeq
  <2>. QED BY <1>0, <1>2, <2>1
<1>. QED BY <1>1, <1>2, RunCases

(* A comment and the spacing behind it.                                     *)
LEMMA ShowsComment ==
    ASSUME ColumnsTyped, NEW E, NEW st, NEW R, NEW s, Shows(E, st, R, s),
           NEW x \in Comments, NEW w \in {Hardspace, Hardline},
           EndsLine(x) => w = Hardline, x.tag = "Directive" => Broken(s)
    PROVE  \E y \in SourceItems :
              /\ y.tag = x.tag
              /\ Shows(Append(Append(E, x), Gap(w)), WordStep(st, x), (R \o Run(s)) \o <<y>>, w)
<1>0. /\ E \in Seq(Elems) /\ st \in WordStates /\ s \in Widths \cup {0} /\ Renders(Merged(E), R, s)
      /\ LegalBut(R, s) /\ Told(Untold, R) = [seen |-> st.seen, feeds |-> 0] /\ R \in Seq(SourceItems)
      /\ (LineFeeds(s) > 1 <=> st.feeds > 1)
  BY DEF Shows, Renders
<1>1. PICK y \in SourceItems : /\ y.tag = x.tag /\ WordsOf(y) = WordsOf(x)
                               /\ Renders(MergeStep(Merged(E), x), (R \o Run(s)) \o <<y>>, 0)
  BY <1>0, RendersComment
<1>. DEFINE Q == R \o Run(s)
            more == Append(E, x)
            R2 == Q \o <<y>>
            st2 == WordStep(st, x)
<1>2. x \in Elems /\ x \in AllItems /\ x.tag \notin {"Newlines", "EmptyLine"} /\ w \in Widths /\ Gap(w) \in Elems
  BY ElemCases, ItemTypes DEF Widths
<1>3. more \in Seq(Elems) /\ Merged(more) = MergeStep(Merged(E), x)
  BY <1>0, <1>2, MergedAppend
<1>4. Q \in Seq(SourceItems) /\ Legal(Q) /\ (Broken(s) => Q # <<>> /\ Last(Q).tag = "Newlines")
  BY <1>0, LegalRun
<1>. HIDE DEF Q, more
<1>5. R2 \in Seq(SourceItems) /\ LegalBut(R2, w)
  <2>1. EndsLine(y) => Broken(w)
    BY <1>1 DEF EndsLine, Broken
  <2>2. y.tag = "Directive" => Q # <<>> /\ Last(Q).tag = "Newlines"
    BY <1>1, <1>4
  <2>. QED BY <1>4, <2>1, <2>2, LegalMore
<1>6. Renders(Merged(more), R2, 0)
  BY <1>1, <1>3 DEF Q
<1>7. Append(more, Gap(w)) \in Seq(Elems) /\ Merged(Append(more, Gap(w))) = MergeStep(Merged(more), Gap(w))
  BY <1>2, <1>3, MergedAppend
<1>8. Renders(Merged(Append(more, Gap(w))), R2, w)
  <2>1. Renders(MergeStep(Merged(more), Gap(w)), R2, IF 0 >= w THEN 0 ELSE w)
    <3>. HIDE DEF R2
    <3>. QED BY <1>2, <1>6, RendersGap
  <2>2. (IF 0 >= w THEN 0 ELSE w) = w
    BY <1>2, SMT DEF Widths, Hardspace, Hardline, Emptyline
  <2>. QED BY <1>7, <2>1, <2>2
<1>9. Told(Untold, Q) = [seen |-> st.seen, feeds |-> LineFeeds(s)]
      /\ Told(Untold, Q) \in WordStates /\ Untold \in WordStates
  BY <1>0, ToldRun, WordsTold, EmptySeq DEF Q
<1>10. Told(Untold, R2) = [seen |-> st2.seen, feeds |-> 0] /\ st2 \in WordStates /\ ~(st2.feeds > 1)
  <2>1. y \in AllItems /\ Q \in Seq(AllItems)
    BY <1>1, <1>4, ItemTypes
  <2>2. R2 = Append(Q, y)
    BY <1>4, OneMore
  <2>3. Told(Untold, Append(Q, y)) = WordStep(Told(Untold, Q), y)
    BY <1>9, <2>1, ToldAppend
  <2>. DEFINE t == Told(Untold, Q)
  <2>4. WordStep(t, y) = [seen |-> Paragraphs(t.seen, t.feeds) \o WordsOf(y), feeds |-> 0]
    BY <1>1, <1>2, <1>9, <2>1, WordStepType
  <2>5. st2 = [seen |-> Paragraphs(st.seen, st.feeds) \o WordsOf(x), feeds |-> 0] /\ st2 \in WordStates
    BY <1>0, <1>2, WordStepType
  <2>6. Paragraphs(t.seen, t.feeds) = Paragraphs(st.seen, st.feeds)
    <3>1. t.seen = st.seen /\ t.feeds = LineFeeds(s)
      BY <1>9
    <3>. HIDE DEF t
    <3>. QED BY <1>0, <3>1 DEF Paragraphs
  <2>. HIDE DEF t, R2, st2
  <2>. QED BY <1>1, <2>2, <2>3, <2>4, <2>5, <2>6 DEF t
<1>11. ~(LineFeeds(w) > 1)
  BY WidthsMerge
<1>. HIDE DEF R2, st2
<1>12. Shows(Append(more, Gap(w)), st2, R2, w)
  BY <1>2, <1>5, <1>7, <1>8, <1>10, <1>11 DEF Shows
<1>. QED BY <1>1, <1>12 DEF R2, st2, Q, more

(* The elements of pieces. *)
EmitMap == [p \in Pieces |-> EmitPiece(p)]
Emitted(pieces) == FlattenSeq([i \in DOMAIN pieces |-> EmitPiece(pieces[i])])

LEMMA PieceCases ==
    ASSUME NEW p \in Pieces
    PROVE  \/ p = EmptyLine /\ EmitPiece(p) = <<Gap(Emptyline)>>
           \/ /\ p \in Comments /\ p.tag = "LanguageAnnotation" /\ EmitPiece(p) = <<p, Gap(Hardspace)>>
           \/ /\ p \in Comments /\ p.tag # "LanguageAnnotation" /\ EmitPiece(p) = <<p, Gap(Hardline)>>
<1>1. CASE p.tag = "EmptyLine"
  <2>1. p = EmptyLine
    BY <1>1 DEF Pieces
  <2>2. EmitPiece(p) = <<Gap(Emptyline)>>
    BY <1>1, <2>1 DEF EmitPiece
  <2>. QED BY <2>1, <2>2
<1>2. CASE p.tag # "EmptyLine"
  <2>1. p \in Comments
    BY <1>2 DEF Pieces, Comments, Items, AllTags, CommentTags
  <2>2. p # EmptyLine
    BY <1>2 DEF EmptyLine, Item
  <2>3. CASE p.tag = "LanguageAnnotation"
    BY <2>1, <2>2, <2>3 DEF EmitPiece
  <2>4. CASE p.tag # "LanguageAnnotation"
    BY <2>1, <2>2, <2>4 DEF EmitPiece
  <2>. QED BY <2>3, <2>4
<1>. QED BY <1>1, <1>2

LEMMA EmittedMapped ==
    /\ MapsInto(EmitMap, Pieces, Elems)
    /\ \A pieces \in Seq(Pieces) : Emitted(pieces) = Mapped(EmitMap, pieces)
<1>1. ASSUME NEW p \in Pieces PROVE EmitPiece(p) \in Seq(Elems)
  <2>1. Gap(Emptyline) \in Elems /\ Gap(Hardspace) \in Elems /\ Gap(Hardline) \in Elems /\ Comments \subseteq Elems
    BY ElemCases DEF Widths
  <2>2. \A a \in Elems : <<a>> \in Seq(Elems)
    OBVIOUS
  <2>3. \A a \in Elems, b \in Elems : <<a, b>> \in Seq(Elems)
    OBVIOUS
  <2>4. CASE EmitPiece(p) = <<Gap(Emptyline)>>
    BY <2>1, <2>2, <2>4
  <2>5. CASE p \in Comments /\ EmitPiece(p) = <<p, Gap(Hardspace)>>
    <3>1. p \in Elems
      BY <2>1, <2>5
    <3>. QED BY <2>1, <2>3, <2>5, <3>1
  <2>6. CASE p \in Comments /\ EmitPiece(p) = <<p, Gap(Hardline)>>
    <3>1. p \in Elems
      BY <2>1, <2>6
    <3>. QED BY <2>1, <2>3, <2>6, <3>1
  <2>. QED BY <2>4, <2>5, <2>6, PieceCases
<1>2. MapsInto(EmitMap, Pieces, Elems)
  BY <1>1 DEF MapsInto, EmitMap
<1>3. ASSUME NEW pieces \in Seq(Pieces) PROVE Emitted(pieces) = Mapped(EmitMap, pieces)
  <2>1. \A i \in DOMAIN pieces : pieces[i] \in Pieces
    OBVIOUS
  <2>2. [i \in DOMAIN pieces |-> EmitPiece(pieces[i])] = [i \in DOMAIN pieces |-> EmitMap[pieces[i]]]
    BY <2>1 DEF EmitMap
  <2>. QED BY <2>2 DEF Emitted, Mapped
<1>. QED BY <1>2, <1>3

LEMMA EmittedAppend ==
    ASSUME NEW pieces \in Seq(Pieces), NEW p \in Pieces
    PROVE  /\ Emitted(pieces) \in Seq(Elems) /\ EmitPiece(p) \in Seq(Elems)
           /\ Emitted(Append(pieces, p)) = Emitted(pieces) \o EmitPiece(p)
<1>1. Append(pieces, p) \in Seq(Pieces)
  OBVIOUS
<1>2. /\ Mapped(EmitMap, pieces) \in Seq(Elems) /\ EmitMap[p] \in Seq(Elems)
      /\ Mapped(EmitMap, Append(pieces, p)) = Mapped(EmitMap, pieces) \o EmitMap[p]
  BY EmittedMapped, MappedAppend
<1>3. EmitMap[p] = EmitPiece(p)
  BY DEF EmitMap
<1>. QED BY <1>1, <1>2, <1>3, EmittedMapped

(* Laid out to a line of its own, without an annotation yet. *)
LaidOut(E, st) == \E R, s : Shows(E, st, R, s) /\ Broken(s) /\ NoAnnotation(R)
(* Laid out to the end: behind an annotation is at most one line feed. *)
Ended(E, st)   == \E R, s : /\ Shows(E, st, R, s)
                            /\ \/ NoAnnotation(R)
                               \/ AnnotationLast(R) /\ s \in {Hardspace, Hardline}

LEMMA PieceMore ==
    ASSUME ColumnsTyped, NEW E, NEW st, LaidOut(E, st), NEW p \in Pieces
    PROVE  /\ p.tag # "LanguageAnnotation" => LaidOut(E \o EmitPiece(p), WordStep(st, p))
           /\ Ended(E \o EmitPiece(p), WordStep(st, p))
<1>1. PICK R, s : Shows(E, st, R, s) /\ Broken(s) /\ NoAnnotation(R)
  BY DEF LaidOut
<1>2. E \in Seq(Elems) /\ R \in Seq(SourceItems) /\ s \in Widths \cup {0} /\ LegalBut(R, s)
  BY <1>1 DEF Shows, Renders
<1>3. CASE p = EmptyLine /\ EmitPiece(p) = <<Gap(Emptyline)>>
  <2>1. E \o EmitPiece(p) = Append(E, Gap(Emptyline))
    <3>1. Gap(Emptyline) \in Elems
      BY ElemCases DEF Widths
    <3>. QED BY <1>2, <1>3, <3>1, OneMore
  <2>2. Shows(Append(E, Gap(Emptyline)), WordStep(st, EmptyLine), R, Emptyline)
    BY <1>1, ShowsEmpty
  <2>3. Broken(Emptyline)
    BY DEF Broken
  <2>4. Shows(E \o EmitPiece(p), WordStep(st, p), R, Emptyline)
    BY <1>3, <2>1, <2>2
  <2>5. LaidOut(E \o EmitPiece(p), WordStep(st, p))
    BY <1>1, <2>3, <2>4 DEF LaidOut
  <2>6. Ended(E \o EmitPiece(p), WordStep(st, p))
    BY <1>1, <2>4 DEF Ended
  <2>. QED BY <2>5, <2>6
<1>4. ASSUME p \in Comments, NEW w \in {Hardspace, Hardline}, EmitPiece(p) = <<p, Gap(w)>>,
             w = Hardspace <=> p.tag = "LanguageAnnotation"
      PROVE  /\ p.tag # "LanguageAnnotation" => LaidOut(E \o EmitPiece(p), WordStep(st, p))
             /\ Ended(E \o EmitPiece(p), WordStep(st, p))
  <2>1. E \o EmitPiece(p) = Append(Append(E, p), Gap(w))
    <3>1. p \in Elems /\ Gap(w) \in Elems
      BY <1>4, ElemCases DEF Widths
    <3>2. E \o <<p, Gap(w)>> = Append(Append(E, p), Gap(w))
      BY <1>2, <3>1, TwoMore
    <3>. QED BY <1>4, <3>2
  <2>2. EndsLine(p) => w = Hardline
    BY <1>4 DEF EndsLine
  <2>. DEFINE Q == R \o Run(s)
  <2>2a. p.tag = "Directive" => Broken(s)
    BY <1>1
  <2>3. PICK y \in SourceItems : y.tag = p.tag /\ Shows(Append(Append(E, p), Gap(w)), WordStep(st, p), Q \o <<y>>, w)
    <3>1. \E y \in SourceItems :
             y.tag = p.tag /\ Shows(Append(Append(E, p), Gap(w)), WordStep(st, p), (R \o Run(s)) \o <<y>>, w)
      <4>. HIDE DEF Q
      <4>1. Shows(E, st, R, s) /\ p \in Comments /\ w \in {Hardspace, Hardline}
        BY <1>1, <1>4
      <4>. QED BY <2>2, <2>2a, <4>1, ShowsComment
    <3>. QED BY <3>1
  <2>4. Q \in Seq(SourceItems) /\ NoAnnotation(Q)
    BY <1>1, <1>2, LegalRun
  <2>5. <<y>> \in Seq(SourceItems) /\ Len(<<y>>) = 1 /\ <<y>>[1] = y
    BY <2>3, OneMore, <2>4
  <2>6. AnnotationLast(<<y>>) /\ (p.tag # "LanguageAnnotation" => NoAnnotation(<<y>>))
    BY <2>3, <2>5 DEF AnnotationLast, NoAnnotation
  <2>. HIDE DEF Q
  <2>7. AnnotationLast(Q \o <<y>>) /\ (p.tag # "LanguageAnnotation" => NoAnnotation(Q \o <<y>>))
    BY <2>4, <2>5, <2>6, NoAnnotationConcat
  <2>8. p.tag # "LanguageAnnotation" => Broken(w)
    BY <1>4 DEF Broken
  <2>. QED BY <2>1, <2>3, <2>7, <2>8 DEF LaidOut, Ended
<1>5. Hardspace # Hardline
  BY DEF Hardspace, Hardline
<1>. QED BY <1>3, <1>4, <1>5, PieceCases

LEMMA PiecesMore ==
    ASSUME ColumnsTyped, NEW E, NEW st, LaidOut(E, st), NEW pieces \in Seq(Pieces), NoAnnotation(pieces)
    PROVE  LaidOut(E \o Emitted(pieces), Told(st, pieces))
<1>. DEFINE S == {t \in Seq(Pieces) : NoAnnotation(t) => LaidOut(E \o Emitted(t), Told(st, t))}
<1>0. E \in Seq(Elems) /\ st \in WordStates
  BY DEF LaidOut, Shows
<1>1. <<>> \in S
  <2>. DEFINE e == <<>>
  <2>1. e \in Seq(Pieces) /\ Emitted(e) = e /\ Told(st, e) = st
    BY <1>0, EmptySeq, EmittedMapped, MappedEmpty, ToldEmpty
  <2>2. E \o e = E
    BY <1>0, ConcatEmptySeq
  <2>. HIDE DEF e
  <2>3. e \in S
    BY <2>1, <2>2
  <2>. QED BY <2>3 DEF e
<1>2. ASSUME NEW t \in Seq(Pieces), NEW p \in Pieces, t \in S PROVE Append(t, p) \in S
  <2>0. NoAnnotation(t) => LaidOut(E \o Emitted(t), Told(st, t))
    BY <1>2
  <2>. HIDE DEF S
  <2>1. Append(t, p) \in Seq(Pieces) /\ Len(Append(t, p)) = Len(t) + 1 /\ Len(t) \in Nat
        /\ Append(t, p)[Len(t) + 1] = p /\ \A i \in 1..Len(t) : Append(t, p)[i] = t[i]
    BY AppendProperties
  <2>2. ASSUME NoAnnotation(Append(t, p)) PROVE LaidOut(E \o Emitted(Append(t, p)), Told(st, Append(t, p)))
    <3>1. NoAnnotation(t) /\ p.tag # "LanguageAnnotation"
      <4>1. Len(t) + 1 \in 1..Len(Append(t, p)) /\ \A i \in 1..Len(t) : i \in 1..Len(Append(t, p))
        BY <2>1
      <4>. QED BY <2>1, <2>2, <4>1 DEF NoAnnotation
    <3>. DEFINE m == Emitted(t)
                c == EmitPiece(p)
    <3>2. m \in Seq(Elems) /\ c \in Seq(Elems) /\ Emitted(Append(t, p)) = m \o c
      BY EmittedAppend
    <3>3. LaidOut(E \o m, Told(st, t))
      BY <2>0, <3>1
    <3>4. LaidOut((E \o m) \o c, WordStep(Told(st, t), p))
      <4>. HIDE DEF m
      <4>. QED BY <3>1, <3>3, PieceMore
    <3>5. Told(st, Append(t, p)) = WordStep(Told(st, t), p)
      <4>1. t \in Seq(AllItems) /\ p \in AllItems
        BY ItemTypes
      <4>. QED BY <1>0, <4>1, ToldAppend
    <3>. HIDE DEF m, c
    <3>6. Associates(E, m, c)
      BY <1>0, <3>2, Associative
    <3>. QED BY <3>2, <3>4, <3>5, <3>6 DEF Associates
  <2>. QED BY <2>1, <2>2 DEF S
<1>. HIDE DEF S
<1>3. \A t \in Seq(Pieces) : t \in S
  BY <1>1, <1>2, SeqInd
<1>. QED BY <1>3 DEF S

LEMMA LaidOutEnds == ASSUME NEW E, NEW st, LaidOut(E, st) PROVE Ended(E, st)
<1>1. PICK R, s : Shows(E, st, R, s) /\ NoAnnotation(R)
  BY DEF LaidOut
<1>. QED BY <1>1 DEF Ended

(* Pieces behind a line feed, the last of them perhaps an annotation.       *)
LEMMA AllPiecesMore ==
    ASSUME ColumnsTyped, NEW E, NEW st, LaidOut(E, st), NEW pieces \in Seq(Pieces), AnnotationLast(pieces)
    PROVE  Ended(E \o Emitted(pieces), Told(st, pieces))
<1>1. CASE NoAnnotation(pieces)
  BY <1>1, PiecesMore, LaidOutEnds
<1>2. CASE ~NoAnnotation(pieces)
  <2>0. pieces # <<>>
    BY <1>2, EmptySeq DEF NoAnnotation
  <2>. DEFINE q == Front(pieces)
              p == Last(pieces)
              m == Emitted(q)
              c == EmitPiece(p)
  <2>1. q \in Seq(Pieces) /\ p \in Pieces /\ pieces = Append(q, p) /\ Len(q) = Len(pieces) - 1
        /\ \A i \in 1..Len(q) : q[i] = pieces[i]
    BY <2>0, FrontLast
  <2>2. NoAnnotation(q)
    <3>1. ASSUME NEW i \in 1..Len(q) PROVE q[i].tag # "LanguageAnnotation"
      <4>1. i \in 1..Len(pieces) /\ i # Len(pieces) /\ q[i] = pieces[i]
        BY <2>1, <3>1
      <4>. QED BY <4>1 DEF AnnotationLast
    <3>. QED BY <3>1 DEF NoAnnotation
  <2>. HIDE DEF q, p
  <2>3. LaidOut(E \o m, Told(st, q))
    BY <2>1, <2>2, PiecesMore
  <2>4. Ended((E \o m) \o c, WordStep(Told(st, q), p))
    <3>. HIDE DEF m
    <3>. QED BY <2>1, <2>3, PieceMore
  <2>5. m \in Seq(Elems) /\ c \in Seq(Elems) /\ Emitted(pieces) = m \o c
    BY <2>1, EmittedAppend
  <2>6. Told(st, pieces) = WordStep(Told(st, q), p) /\ E \in Seq(Elems)
    <3>1. q \in Seq(AllItems) /\ p \in AllItems
      BY <2>1, ItemTypes
    <3>2. E \in Seq(Elems) /\ st \in WordStates
      BY DEF LaidOut, Shows
    <3>. QED BY <2>1, <3>1, <3>2, ToldAppend
  <2>. HIDE DEF m, c
  <2>7. Associates(E, m, c)
    BY <2>5, <2>6, Associative
  <2>. QED BY <2>4, <2>5, <2>6, <2>7 DEF Associates
<1>. QED BY <1>1, <1>2

(* A finished text is trivia that a source can have. *)
LEMMA SourcedIs ==
    ASSUME NEW pts \in Seq(SourceItems)
    PROVE  Sourced(pts) <=> Legal(pts) /\ AnnotationRest(pts)
<1>. DEFINE n == Len(pts)
            x == NewlineRun(1)
            rest(i) == SubSeq(pts, i + 1, n)
<1>0. n \in Nat /\ DOMAIN pts = 1..n
  OBVIOUS
<1>1. ASSUME NEW i \in 1..n
      PROVE  rest(i) \in {<<>>, <<x>>} <=> i = n \/ (i + 1 = n /\ pts[i + 1] = x)
  <2>. DEFINE b == rest(i)
  <2>1. b \in Seq(SourceItems) /\ Len(b) = n - i /\ \A j \in 1..(n - i) : b[j] = pts[i + j]
    BY SplitTypes
  <2>2. x \in SourceItems
    BY NewlineRunIs
  <2>. HIDE DEF b, x, n
  <2>3. <<x>> \in Seq(SourceItems) /\ Len(<<x>>) = 1 /\ <<x>>[1] = x
    BY <2>1, <2>2, OneMore
  <2>4. b = <<>> <=> i = n
    BY <1>0, <2>1, EmptySeq
  <2>5. ASSUME b = <<x>> PROVE i + 1 = n /\ pts[i + 1] = x
    <3>1. n - i = 1 /\ b[1] = x
      BY <2>1, <2>3, <2>5
    <3>. QED BY <1>0, <2>1, <3>1
  <2>6. ASSUME i + 1 = n, pts[i + 1] = x PROVE b = <<x>>
    <3>1. n - i = 1
      BY <1>0, <2>6
    <3>2. Len(b) = 1 /\ b[1] = x
      BY <2>1, <2>6, <3>1
    <3>3. \A j \in 1..1 : b[j] = <<x>>[j]
      BY <2>3, <3>2
    <3>. QED BY <2>1, <2>3, <3>2, <3>3, SeqEqual
  <2>. QED BY <2>4, <2>5, <2>6 DEF b
<1>. HIDE DEF n, rest, x
<1>2. Sourced(pts) <=> \A i \in 1..n :
        /\ EndsLine(pts[i]) => i < n /\ pts[i + 1].tag = "Newlines"
        /\ pts[i].tag = "Directive" => i > 1 /\ pts[i - 1].tag = "Newlines"
        /\ pts[i].tag = "LanguageAnnotation" => rest(i) \in {<<>>, <<x>>}
  BY <1>0 DEF Sourced, EndsLine, n, rest, x
<1>. QED BY <1>1, <1>2 DEF Legal, AnnotationRest, n, x

LEMMA EndedReads ==
    ASSUME ColumnsTyped, NEW E, NEW st, Ended(E, st)
    PROVE  LET again == Relexed(Merged(E))
           IN  again \in Seq(SourceItems) /\ Sourced(again) /\ Words(again) = Closed(st)
<1>1. PICK R, s : Shows(E, st, R, s) /\ (NoAnnotation(R) \/ (AnnotationLast(R) /\ s \in {Hardspace, Hardline}))
  BY DEF Ended
<1>2. /\ R \in Seq(SourceItems) /\ s \in Widths \cup {0} /\ LegalBut(R, s) /\ Renders(Merged(E), R, s)
      /\ Told(Untold, R) = [seen |-> st.seen, feeds |-> 0] /\ (LineFeeds(s) > 1 <=> st.feeds > 1)
  BY <1>1 DEF Shows, Renders
<1>. DEFINE again == R \o Run(s)
<1>3. Relexed(Merged(E)) = again
  BY <1>2, RendersRelexed
<1>4. again \in Seq(SourceItems) /\ Legal(again) /\ (NoAnnotation(R) => NoAnnotation(again))
  BY <1>2, LegalRun
<1>5. Words(again) = Closed(st)
  <2>1. Told(Untold, again) = [seen |-> st.seen, feeds |-> LineFeeds(s)]
    BY <1>2, ToldRun
  <2>2. again \in Seq(AllItems)
    BY <1>4, ItemTypes
  <2>. HIDE DEF again
  <2>3. Words(again) = Closed(Told(Untold, again))
    BY <2>2, WordsTold
  <2>4. Closed(Told(Untold, again)) = Paragraphs(st.seen, LineFeeds(s))
    BY <2>1 DEF Closed
  <2>. QED BY <1>2, <2>3, <2>4 DEF Closed, Paragraphs
<1>6. AnnotationRest(again)
  <2>1. CASE NoAnnotation(R)
    BY <1>4, <2>1 DEF NoAnnotation, AnnotationRest
  <2>2. CASE AnnotationLast(R) /\ s = Hardspace
    <3>1. Run(s) = <<>>
      BY <2>2, WidthsMerge DEF Run
    <3>2. again = R
      BY <1>2, <3>1, ConcatEmptySeq
    <3>. HIDE DEF again
    <3>. QED BY <2>2, <3>2 DEF AnnotationLast, AnnotationRest
  <2>3. CASE AnnotationLast(R) /\ s = Hardline
    <3>. DEFINE x == NewlineRun(1)
    <3>1. Run(s) = <<x>> /\ x \in SourceItems /\ x.tag = "Newlines"
      BY <2>3, WidthsMerge, NewlineRunIs DEF Run
    <3>. HIDE DEF x
    <3>2. again = Append(R, x) /\ Len(again) = Len(R) + 1 /\ again[Len(R) + 1] = x /\ Len(R) \in Nat
          /\ \A i \in 1..Len(R) : again[i] = R[i]
      <4>1. R \o <<x>> = Append(R, x)
        BY <1>2, <3>1, OneMore
      <4>2. Len(Append(R, x)) = Len(R) + 1 /\ Append(R, x)[Len(R) + 1] = x /\ Len(R) \in Nat
            /\ \A i \in 1..Len(R) : Append(R, x)[i] = R[i]
        BY <1>2, <3>1, FrontAppend
      <4>. QED BY <3>1, <4>1, <4>2
    <3>. HIDE DEF again
    <3>3. ASSUME NEW i \in 1..Len(again), again[i].tag = "LanguageAnnotation"
          PROVE  i + 1 = Len(again) /\ again[i + 1] = x
      <4>1. i # Len(R) + 1
        BY <3>1, <3>2, <3>3
      <4>2. i \in 1..Len(R) /\ again[i] = R[i]
        BY <3>2, <4>1
      <4>3. i = Len(R)
        BY <2>3, <3>3, <4>2 DEF AnnotationLast
      <4>. QED BY <3>2, <4>3
    <3>. QED BY <3>3 DEF AnnotationRest, x
  <2>. QED BY <1>1, <2>1, <2>2, <2>3
<1>7. Sourced(again)
  <2>. HIDE DEF again
  <2>. QED BY <1>4, <1>6, SourcedIs
<1>. QED BY <1>3, <1>4, <1>5, <1>7

(* The trailing comment comes first. *)
LEMMA TrailingShows ==
    ASSUME ColumnsTyped, NEW text \in Texts
    PROVE  \E R, s : /\ Shows(EmitTrailing(text), Behind(Written(text), Untold), R, s) /\ NoAnnotation(R)
<1>. DEFINE W == Written(text)
            e == <<>>
<1>0. W \in Seq(Shown) /\ Untold \in WordStates /\ Written(<<>>) = <<>>
  BY WrittenType, WordsTold, EmptySeq, WrittenEmpty
<1>1. Behind(W, Untold) = [seen |-> W, feeds |-> 0]
  <2>1. W \o <<>> = W
    BY <1>0, ConcatEmptySeq
  <2>. QED BY <2>1 DEF Behind, Untold
<1>2. NoAnnotation(e) /\ e \in Seq(SourceItems) /\ e \in Seq(Elems)
  BY EmptySeq DEF NoAnnotation
<1>3. CASE text = <<>>
  <2>1. EmitTrailing(text) = e /\ Behind(W, Untold) = Untold
    BY <1>0, <1>1, <1>3 DEF EmitTrailing, Untold
  <2>. QED BY <1>2, <2>1, ShowsNothing
<1>4. CASE text # <<>>
  <2>. DEFINE x == LineComment(text, 0)
              g == Append(e, Gap(Hardspace))
  <2>1. x \in Comments /\ x.tag = "LineComment" /\ WordsOf(x) = W /\ x \in AllItems
    <3>1. 0 \in Nat
      OBVIOUS
    <3>2. x \in SourceItems /\ WordsOf(x) = W /\ x.tag = "LineComment"
      BY <3>1, SpecialTypes, CommentWords DEF LineComment, Item
    <3>. HIDE DEF x
    <3>3. x \in Comments
      BY <3>2 DEF SourceItems, Comments, Items, CommentTags
    <3>. QED BY <3>2, <3>3, ItemTypes
  <2>. HIDE DEF x
  <2>2. Hardspace \in {Hardspace, Hardline} /\ Hardline \in {Hardspace, Hardline} /\ ~(0 >= Hardspace)
    BY SMT DEF Hardspace, Hardline
  <2>3. Shows(e, Untold, e, 0)
    BY ShowsNothing
  <2>. HIDE DEF e
  <2>4. Shows(g, Untold, e, Hardspace)
    <3>1. Shows(g, Untold, e, IF 0 >= Hardspace THEN 0 ELSE Hardspace)
      BY <2>2, <2>3, ShowsGap
    <3>. QED BY <2>2, <3>1
  <2>5. EndsLine(x) => Hardline = Hardline
    OBVIOUS
  <2>. HIDE DEF g
  <2>. DEFINE Q == e \o Run(Hardspace)
  <2>6. PICK y \in SourceItems : /\ y.tag = x.tag
                                 /\ Shows(Append(Append(g, x), Gap(Hardline)), WordStep(Untold, x), Q \o <<y>>, Hardline)
    <3>1. x.tag # "Directive"
      BY <2>1
    <3>. HIDE DEF Q
    <3>2. \E y \in SourceItems :
             /\ y.tag = x.tag
             /\ Shows(Append(Append(g, x), Gap(Hardline)), WordStep(Untold, x), (e \o Run(Hardspace)) \o <<y>>, Hardline)
      BY <2>1, <2>2, <2>4, <3>1, ShowsComment
    <3>. QED BY <3>2 DEF Q
  <2>7. Q = e
    <3>1. Run(Hardspace) = <<>>
      BY WidthsMerge DEF Run
    <3>2. e \o <<>> = e
      BY <1>2, ConcatEmptySeq
    <3>. QED BY <3>1, <3>2
  <2>. HIDE DEF Q
  <2>8. e \o <<y>> \in Seq(SourceItems) /\ NoAnnotation(e \o <<y>>)
    <3>1. <<y>> \in Seq(SourceItems) /\ Len(<<y>>) = 1 /\ <<y>>[1] = y
      BY <1>2, OneMore
    <3>2. NoAnnotation(<<y>>)
      BY <2>1, <2>6, <3>1 DEF NoAnnotation
    <3>. QED BY <1>2, <3>1, <3>2, NoAnnotationConcat, ConcatProperties
  <2>9. EmitTrailing(text) = Append(Append(g, x), Gap(Hardline))
    <3>1. EmitTrailing(text) = <<Gap(Hardspace), x, Gap(Hardline)>>
      BY <1>4 DEF EmitTrailing, x
    <3>. QED BY <3>1 DEF g, e
  <2>10. WordStep(Untold, x) = Behind(W, Untold)
    <3>1. WordStep(Untold, x) = [seen |-> Paragraphs(Untold.seen, Untold.feeds) \o W, feeds |-> 0]
      BY <1>0, <2>1, WordStepType
    <3>2. Paragraphs(Untold.seen, Untold.feeds) = <<>>
      BY DEF Untold, Paragraphs
    <3>3. <<>> \o W = W
      BY <1>0, ConcatEmptySeq
    <3>. QED BY <1>1, <3>1, <3>2, <3>3
  <2>. QED BY <2>6, <2>7, <2>8, <2>9, <2>10
<1>. QED BY <1>3, <1>4


(* The leading trivia: nothing, a lone annotation on the same line, or       *)
(* pieces on lines of their own.                                            *)
LEMMA LeadingEnds ==
    ASSUME ColumnsTyped, NEW E, NEW st, NEW R, NEW s, Shows(E, st, R, s), NoAnnotation(R),
           NEW pieces \in Seq(Pieces), AnnotationLast(pieces)
    PROVE  /\ E \in Seq(Elems) /\ EmitLeading(pieces) \in Seq(Elems)
           /\ Ended(E \o EmitLeading(pieces), Told(st, pieces))
<1>0. E \in Seq(Elems) /\ st \in WordStates /\ R \in Seq(SourceItems) /\ s \in Widths \cup {0} /\ LegalBut(R, s)
  BY DEF Shows, Renders
<1>1. CASE pieces = <<>>
  <2>. DEFINE e == <<>>
  <2>1. EmitLeading(pieces) = e /\ pieces = e /\ e \in Seq(Elems)
    BY <1>1, EmptySeq DEF EmitLeading
  <2>2. E \o e = E /\ Told(st, e) = st
    BY <1>0, ConcatEmptySeq, ToldEmpty
  <2>. HIDE DEF e
  <2>3. Ended(E, st)
    BY DEF Ended
  <2>. QED BY <1>0, <2>1, <2>2, <2>3
<1>2. CASE pieces # <<>> /\ Len(pieces) = 1 /\ pieces[1].tag = "LanguageAnnotation"
  <2>. DEFINE p == pieces[1]
              e == <<>>
              c == EmitPiece(p)
  <2>1. p \in Pieces /\ p.tag = "LanguageAnnotation" /\ EmitLeading(pieces) = c
    <3>1. 1 \in 1..Len(pieces)
      BY <1>2
    <3>. QED BY <1>2, <3>1, ElementOfSeq DEF EmitLeading
  <2>2. pieces = Append(e, p) /\ e \in Seq(Pieces)
    BY <1>2
  <2>. HIDE DEF p
  <2>3. p # EmptyLine
    BY <2>1 DEF EmptyLine, Item
  <2>4. p \in Comments /\ c = <<p, Gap(Hardspace)>>
    BY <2>1, <2>3, PieceCases
  <2>. HIDE DEF c
  <2>5. c \in Seq(Elems) /\ E \o c = Append(Append(E, p), Gap(Hardspace))
    <3>1. p \in Elems /\ Gap(Hardspace) \in Elems
      BY <2>4, ElemCases DEF Widths
    <3>2. <<p, Gap(Hardspace)>> \in Seq(Elems)
      BY <3>1
    <3>. DEFINE g == Gap(Hardspace)
    <3>3. g \in Elems
      BY <3>1
    <3>. HIDE DEF g
    <3>4. E \o <<p, g>> = Append(Append(E, p), g)
      BY <1>0, <3>1, <3>3, TwoMore
    <3>. QED BY <2>4, <3>2, <3>4 DEF g
  <2>6. Told(st, pieces) = WordStep(st, p)
    <3>1. e \in Seq(AllItems) /\ p \in AllItems
      BY <2>1, <2>2, ItemTypes
    <3>2. Told(st, e) = st
      BY <1>0, ToldEmpty
    <3>. HIDE DEF e
    <3>3. Told(st, Append(e, p)) = WordStep(Told(st, e), p)
      BY <1>0, <3>1, ToldAppend
    <3>. QED BY <2>2, <3>2, <3>3
  <2>. DEFINE Q == R \o Run(s)
  <2>7. PICK y \in SourceItems : /\ y.tag = p.tag
                                 /\ Shows(Append(Append(E, p), Gap(Hardspace)), WordStep(st, p), Q \o <<y>>, Hardspace)
    <3>1. Hardspace \in {Hardspace, Hardline} /\ ~EndsLine(p) /\ p.tag # "Directive"
      BY <2>1 DEF EndsLine
    <3>. HIDE DEF Q
    <3>2. \E y \in SourceItems :
             /\ y.tag = p.tag
             /\ Shows(Append(Append(E, p), Gap(Hardspace)), WordStep(st, p), (R \o Run(s)) \o <<y>>, Hardspace)
      BY <2>4, <3>1, ShowsComment
    <3>. QED BY <3>2 DEF Q
  <2>8. Q \in Seq(SourceItems) /\ NoAnnotation(Q)
    BY <1>0, LegalRun
  <2>. HIDE DEF Q
  <2>9. <<y>> \in Seq(SourceItems) /\ Len(<<y>>) = 1
    BY <2>8, OneMore
  <2>10. AnnotationLast(<<y>>)
    BY <2>9 DEF AnnotationLast
  <2>11. AnnotationLast(Q \o <<y>>)
    BY <2>8, <2>9, <2>10, NoAnnotationConcat
  <2>12. Ended(E \o c, WordStep(st, p))
    BY <2>5, <2>7, <2>11 DEF Ended
  <2>. QED BY <1>0, <2>1, <2>5, <2>6, <2>12
<1>3. CASE pieces # <<>> /\ ~(Len(pieces) = 1 /\ pieces[1].tag = "LanguageAnnotation")
  <2>. DEFINE g == Gap(Hardline)
              m == Emitted(pieces)
              v == IF s >= Hardline THEN s ELSE Hardline
  <2>1. EmitLeading(pieces) = <<g>> \o m
    BY <1>3 DEF EmitLeading, Emitted
  <2>2. m \in Seq(Elems) /\ g \in Elems
    BY EmittedMapped, MappedType, ElemCases DEF Widths
  <2>3. Shows(Append(E, g), st, R, v)
    <3>1. Hardline \in {Hardspace, Hardline}
      OBVIOUS
    <3>. QED BY <3>1, ShowsGap
  <2>4. Broken(v)
    BY <1>0, SMT DEF Widths, Broken, Hardspace, Hardline, Emptyline
  <2>. HIDE DEF g, m, v
  <2>5. LaidOut(Append(E, g), st)
    BY <2>3, <2>4 DEF LaidOut
  <2>6. Ended(Append(E, g) \o m, Told(st, pieces))
    BY <2>5, AllPiecesMore DEF m
  <2>7. E \o <<g>> = Append(E, g) /\ <<g>> \in Seq(Elems)
    BY <1>0, <2>2, OneMore
  <2>. DEFINE o == <<g>>
  <2>8. o \in Seq(Elems) /\ E \o o = Append(E, g) /\ EmitLeading(pieces) = o \o m
    BY <2>1, <2>7
  <2>. HIDE DEF o
  <2>9. Associates(E, o, m) /\ o \o m \in Seq(Elems)
    BY <1>0, <2>2, <2>8, Associative, ConcatProperties
  <2>. QED BY <1>0, <2>6, <2>8, <2>9 DEF Associates
<1>. QED BY <1>1, <1>2, <1>3

(* The spacing in front of the next token comes last. *)
LEMMA EndedGap ==
    ASSUME NEW E, NEW st, Ended(E, st), NEW w \in {Hardspace, Hardline}
    PROVE  Ended(Append(E, Gap(w)), st)
<1>1. PICK R, s : Shows(E, st, R, s) /\ (NoAnnotation(R) \/ (AnnotationLast(R) /\ s \in {Hardspace, Hardline}))
  BY DEF Ended
<1>. DEFINE v == IF s >= w THEN s ELSE w
<1>2. Shows(Append(E, Gap(w)), st, R, v)
  BY <1>1, ShowsGap
<1>3. s \in {Hardspace, Hardline} => v \in {Hardspace, Hardline}
  BY SMT DEF Hardspace, Hardline
<1>. HIDE DEF v
<1>. QED BY <1>1, <1>2, <1>3 DEF Ended

(* Trivia that is printed and read again: legal, and it says the same.      *)
LEMMA PrintedAgain ==
    ASSUME ColumnsTyped, NEW r \in Results, AnnotationLast(r.leading), NEW w \in {Hardspace, Hardline}
    PROVE  LET again == Relexed(Merged(EmitTrailing(r.trailing) \o EmitLeading(r.leading) \o <<Gap(w)>>))
           IN  /\ again \in Seq(SourceItems) /\ Sourced(again)
               /\ Words(again) = Written(r.trailing) \o Words(r.leading)
<1>. DEFINE E == EmitTrailing(r.trailing)
            L == EmitLeading(r.leading)
            W == Written(r.trailing)
            st == Behind(W, Untold)
            g == Gap(w)
<1>1. r.trailing \in Texts /\ r.leading \in Seq(Pieces)
  BY DEF Results
<1>2. PICK R, s : Shows(E, st, R, s) /\ NoAnnotation(R)
  BY <1>1, TrailingShows
<1>3. E \in Seq(Elems) /\ L \in Seq(Elems) /\ Ended(E \o L, Told(st, r.leading))
  <2>. HIDE DEF E, st
  <2>. QED BY <1>1, <1>2, LeadingEnds
<1>4. g \in Elems
  BY ElemCases DEF Widths
<1>5. W \in Seq(Shown) /\ Untold \in WordStates /\ r.leading \in Seq(AllItems)
  BY <1>1, WrittenType, WordsTold, ItemTypes
<1>. HIDE DEF E, L, W
<1>6. Ended(Append(E \o L, g), Told(st, r.leading))
  BY <1>3, EndedGap
<1>. HIDE DEF g
<1>7. E \o L \o <<g>> = Append(E \o L, g)
  <2>1. E \o L \in Seq(Elems)
    BY <1>3, ConcatProperties
  <2>. DEFINE t == E \o L
  <2>. HIDE DEF t
  <2>2. t \o <<g>> = Append(t, g)
    BY <1>4, <2>1, OneMore DEF t
  <2>. QED BY <2>2 DEF t
<1>8. Closed(Told(st, r.leading)) = W \o Words(r.leading)
  BY <1>5, ToldBehind, WordsTold
<1>. HIDE DEF st
<1>9. LET again == Relexed(Merged(E \o L \o <<g>>))
      IN  again \in Seq(SourceItems) /\ Sourced(again) /\ Words(again) = W \o Words(r.leading)
  BY <1>6, <1>7, <1>8, EndedReads
<1>. QED BY <1>9 DEF E, L, W, g

-----------------------------------------------------------------------------
(* The inductive invariant.  What is between the tokens is trivia that a    *)
(* source can have, and says what the source said; what the lexer made of   *)
(* it says the same, and its annotation is in front of the string.          *)
Typed ==
    /\ source \in Seq(SourceItems) /\ raw \in Seq(SourceItems)
    /\ printed \in Seq(Seq(SourceItems))
    /\ end \in Ends /\ indent \in Nat /\ deeper \in BOOLEAN /\ gap \in {Hardspace, Hardline}
    /\ next \in Nat /\ pass \in Nat /\ result \in Results

SplitWell == AnnotationLast(result.leading)

RawSays == Words(raw) = Words(source)

ResultSays == pass > 0 => Written(result.trailing) \o Words(result.leading) = Words(source)

IInv == Typed /\ PrintedIsLegal /\ SplitWell /\ RawSays /\ ResultSays


LEMMA LayoutColumns == ASSUME Typed PROVE ColumnsTyped
<1>1. end.kind \in {"token", "string", "indented"} /\ end.width \in Nat
  BY DEF Typed, Ends
<1>2. \A c : Shift(c) \in Nat
  BY DEF Shift
<1>3. CommentColumn \in Nat
  <2>1. Shift(end.width + 1) \in Nat
    BY <1>2
  <2>. QED BY <1>1, <2>1 DEF CommentColumn, Typed
<1>4. NextColumn \in Nat
  BY TriviaAssumption DEF NextColumn, Typed
<1>. QED BY <1>3, <1>4 DEF ColumnsTyped

LEMMA SourcesTyped ==
    ASSUME NEW s \in Sources, NEW pts \in s.items
    PROVE  pts \in Seq(SourceItems)
<1>1. pts \in Seq(Items(SourceTags)) /\ \A i \in DOMAIN pts : Formed(pts[i])
  BY SourcesAssumption
<1>. DEFINE n == Len(pts)
<1>2. n \in Nat /\ DOMAIN pts = 1..n /\ pts \in [1..n -> Items(SourceTags)]
  BY <1>1
<1>. HIDE DEF n
<1>3. \A i \in 1..n : pts[i] \in SourceItems
  BY <1>1, <1>2 DEF SourceItems
<1>4. pts \in [1..n -> SourceItems]
  BY <1>2, <1>3
<1>. QED BY <1>2, <1>4

LEMMA InitIInv == Init => IInv
<1>. SUFFICES ASSUME Init PROVE IInv
  OBVIOUS
<1>1. PICK s \in Sources : \E l \in s.layouts :
        /\ source \in s.items /\ Sourced(source) /\ raw = source
        /\ end = l.end /\ indent = l.indent /\ deeper = l.deeper /\ gap = l.gap /\ next = l.next
        /\ pass = 0 /\ result = Result(<<>>, <<>>) /\ printed = <<>>
  BY DEF Init
<1>2. source \in Seq(SourceItems) /\ raw = source /\ Sourced(raw) /\ pass = 0
  BY <1>1, SourcesTyped
<1>3. end \in Ends /\ indent \in Nat /\ deeper \in BOOLEAN /\ gap \in {Hardspace, Hardline} /\ next \in Nat
  BY <1>1, SourcesAssumption
<1>4. printed \in Seq(Seq(SourceItems))
  BY <1>1, EmptySeq
<1>5. result \in Results /\ AnnotationLast(result.leading)
  <2>1. <<>> \in Texts /\ <<>> \in Seq(Pieces)
    BY EmptySeq DEF Texts
  <2>2. result = [trailing |-> <<>>, leading |-> <<>>]
    BY <1>1 DEF Result
  <2>. DEFINE e == <<>>
  <2>3. AnnotationLast(e)
    BY EmptySeq DEF AnnotationLast
  <2>. QED BY <2>1, <2>2, <2>3 DEF Results
<1>6. Typed
  BY <1>2, <1>3, <1>4, <1>5 DEF Typed
<1>. QED BY <1>2, <1>5, <1>6 DEF IInv, PrintedIsLegal, SplitWell, RawSays, ResultSays

LEMMA ReadIInv == IInv /\ Read => IInv'
<1>. SUFFICES ASSUME IInv, Read PROVE IInv'
  OBVIOUS
<1>. DEFINE norm == RawTrivia(raw)
<1>1. raw \in Seq(SourceItems) /\ Sourced(raw) /\ Words(raw) = Words(source)
  BY DEF IInv, Typed, PrintedIsLegal, RawSays
<1>2. /\ norm \in Seq(SourceItems) /\ Len(norm) = Len(raw) /\ Words(norm) = Words(source)
      /\ \A i \in 1..Len(raw) : /\ norm[i].tag = raw[i].tag
                                /\ raw[i].tag # "BlockComment" => norm[i] = raw[i]
  BY <1>1, RawTriviaKeeps
<1>3. AnnotationRest(raw)
  BY <1>1, SourcedIs
<1>. HIDE DEF norm
<1>4. AnnotationRest(norm)
  <2>0. Len(raw) \in Nat
    BY <1>1
  <2>1. ASSUME NEW i \in 1..Len(norm), norm[i].tag = "LanguageAnnotation"
        PROVE  i = Len(norm) \/ (i + 1 = Len(norm) /\ norm[i + 1] = NewlineRun(1))
    <3>1. i \in 1..Len(raw) /\ raw[i].tag = "LanguageAnnotation"
      BY <1>2, <2>1
    <3>2. i = Len(raw) \/ (i + 1 = Len(raw) /\ raw[i + 1] = NewlineRun(1))
      BY <1>3, <3>1 DEF AnnotationRest
    <3>3. CASE i = Len(raw)
      BY <1>2, <3>3
    <3>4. CASE i + 1 = Len(raw) /\ raw[i + 1] = NewlineRun(1)
      <4>1. i + 1 \in 1..Len(raw) /\ raw[i + 1].tag = "Newlines"
        BY <2>0, <3>1, <3>4, NewlineRunIs
      <4>2. norm[i + 1] = raw[i + 1]
        BY <1>2, <4>1
      <4>. QED BY <1>2, <3>4, <4>2
    <3>. QED BY <3>2, <3>3, <3>4
  <2>. QED BY <2>1 DEF AnnotationRest
<1>5. PrevMultiline \in BOOLEAN /\ next \in Nat
  BY DEF PrevMultiline, IInv, Typed
<1>6. /\ result' = Lexeme(norm, PrevMultiline, next) /\ pass' = pass + 1
      /\ raw' = raw /\ next' = next /\ printed' = printed /\ layout' = layout
  BY DEF Read, norm
<1>7. /\ result' \in Results /\ AnnotationLast(result'.leading)
      /\ Written(result'.trailing) \o Words(result'.leading) = Words(source)
  BY <1>2, <1>4, <1>5, <1>6, LexemeKeeps
<1>8. /\ source' = source /\ end' = end /\ indent' = indent /\ deeper' = deeper /\ gap' = gap
      /\ pass' \in Nat
  BY <1>6 DEF layout, IInv, Typed
<1>9. Typed'
  BY <1>6, <1>7, <1>8 DEF IInv, Typed
<1>10. PrintedIsLegal' /\ RawSays'
  BY <1>1, <1>6, <1>8 DEF PrintedIsLegal, RawSays
<1>11. SplitWell' /\ ResultSays'
  BY <1>7, <1>8 DEF SplitWell, ResultSays
<1>. QED BY <1>9, <1>10, <1>11 DEF IInv

LEMMA PrintIInv == IInv /\ PrintTrivia => IInv'
<1>. SUFFICES ASSUME IInv, PrintTrivia PROVE IInv'
  OBVIOUS
<1>1. ColumnsTyped
  BY LayoutColumns DEF IInv
<1>2. /\ result \in Results /\ AnnotationLast(result.leading) /\ gap \in {Hardspace, Hardline}
      /\ pass \in Nat
  BY DEF IInv, Typed, SplitWell
<1>3. Written(result.trailing) \o Words(result.leading) = Words(source)
  <2>1. pass > 0
    BY <1>2 DEF PrintTrivia
  <2>. QED BY <2>1 DEF IInv, ResultSays
<1>4. /\ raw' = Relexed(Merged(EmitTrailing(result.trailing) \o EmitLeading(result.leading) \o <<Gap(gap)>>))
      /\ printed' = IF printed = <<>> THEN <<raw'>> ELSE printed
      /\ next' = NextColumn /\ pass' = pass + 1 /\ layout' = layout /\ result' = result
  BY DEF PrintTrivia
<1>5. raw' \in Seq(SourceItems) /\ Sourced(raw') /\ Words(raw') = Words(source)
  BY <1>1, <1>2, <1>3, <1>4, PrintedAgain
<1>6. /\ source' = source /\ end' = end /\ indent' = indent /\ deeper' = deeper /\ gap' = gap
      /\ pass' \in Nat /\ next' \in Nat
  BY <1>1, <1>2, <1>4 DEF layout, ColumnsTyped
<1>7. printed' \in Seq(Seq(SourceItems))
  <2>1. <<raw'>> \in Seq(Seq(SourceItems))
    BY <1>5
  <2>. QED BY <1>4, <2>1 DEF IInv, Typed
<1>8. Typed'
  BY <1>2, <1>4, <1>5, <1>6, <1>7 DEF IInv, Typed
<1>9. PrintedIsLegal' /\ RawSays'
  BY <1>5, <1>6 DEF PrintedIsLegal, RawSays
<1>10. SplitWell' /\ ResultSays'
  BY <1>2, <1>3, <1>4, <1>6 DEF SplitWell, ResultSays
<1>. QED BY <1>8, <1>9, <1>10 DEF IInv

LEMMA StepIInv == IInv /\ [Next]_vars => IInv'
<1>. SUFFICES ASSUME IInv, [Next]_vars PROVE IInv'
  OBVIOUS
<1>1. CASE Read
  BY <1>1, ReadIInv
<1>2. CASE PrintTrivia
  BY <1>2, PrintIInv
<1>3. CASE UNCHANGED vars
  BY <1>3 DEF IInv, Typed, PrintedIsLegal, SplitWell, RawSays, ResultSays, vars, layout
<1>. QED BY <1>1, <1>2, <1>3 DEF Next

(* Whatever stands between two tokens, however they are laid out and        *)
(* however often it is read and printed: the states have their types, and   *)
(* the text between the tokens, what the lexer made of it and what the      *)
(* source said belong together (IInv).                                      *)
THEOREM TriviaHolds == Spec => []IInv
<1>. QED BY InitIInv, StepIInv, PTL DEF Spec

(* No word of a comment and no blank line is lost, doubled or moved past    *)
(* another one by `from_raw`, `convert_leading`, `convert_trailing`,        *)
(* `split_trivia`, the fast path of the lexer, the emitters, the merging of *)
(* spacings or by reading again what was printed.                           *)
THEOREM WordsAreKept == Spec => []WordsKept
<1>1. IInv => WordsKept
  BY DEF IInv, RawSays, ResultSays, WordsKept
<1>. QED BY <1>1, TriviaHolds, PTL

(* Printed trivia is trivia that a source can have: no comment swallows     *)
(* what follows it, an annotation stays in front of its string, and a       *)
(* directive has a line of its own.                                         *)
THEOREM PrintedStaysLegal == Spec => []PrintedIsLegal
<1>1. IInv => PrintedIsLegal
  BY DEF IInv
<1>. QED BY <1>1, TriviaHolds, PTL
=============================================================================

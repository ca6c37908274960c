------------------------------ MODULE Renderer ------------------------------
(***************************************************************************)
(* The greedy layout engine (src/doc/render/layout.rs).  The code recurses *)
(* over the document; here the recursion is a stack of frames.  A "doc"    *)
(* frame is a call of render_doc: the elements still to render and the     *)
(* lookahead behind them.  A "trial" frame is a render_group that tries    *)
(* its Priority children, from the last to the first: it keeps the         *)
(* checkpoint and sits under the frame that renders the Priority child.    *)
(*                                                                         *)
(* The walks over a document that recurse are parameters, so that what the *)
(* engine does with its state can be proved; Walks.tla gives them.         *)
(***************************************************************************)
EXTENDS Measure

CONSTANTS Docs,          \* documents to lay out, as the formatter built them
          TargetWidth,   \* target line width
          IndentWidth    \* columns per indentation level

(* The walks, besides LeavesOf of Measure. *)
CONSTANTS FixedUp(_),           \* FixupDoc of Fixup
          LevelsOf(_),          \* Levels of Fixup
          LineFits(_, _, _),    \* FirstLineFits of Walks
          IndentAhead(_),       \* NextIndent of Walks
          SpacingDropped(_),    \* DropLeadingSpacing of Walks
          TrialsOf(_)           \* Candidates of Walks

ASSUME RendererAssumption == TargetWidth \in Nat /\ IndentWidth \in Nat

VARIABLES doc,       \* the normalised document
          actions,   \* what to do at each directive marker, in document order
          out, col, indents, didx, suppress,   \* struct Renderer
          stack,     \* frames of the recursion, the innermost last
          result,    \* the formatted text, a sequence holding it once it exists
          steps      \* history: the steps taken

rvars == <<out, col, indents, didx, suppress>>
vars  == <<doc, actions, out, col, indents, didx, suppress, stack, result, steps>>

Entry(i, n) == [indent |-> i, nest |-> n]
Spaces(n)   == [i \in 1..n |-> Blank]
Region(k)   == -10 - k     \* the verbatim source of the region opened at marker k

Markers(d) == Len(SelectSeq(LeavesOf(d), LAMBDA e : IsText(e) /\ e.kind = "Directive"))

(* The lists take_directive_regions returns for n markers: regions follow   *)
(* one another, and only the last may stay open.                            *)
Alternate(acts) ==
    LET live == SelectSeq(acts, LAMBDA a : a # "Inert")
    IN \A i \in DOMAIN live : live[i] = IF i % 2 = 1 THEN "Begin" ELSE "End"

ActionLists(n) == {acts \in [1..n -> {"Begin", "End", "Inert"}] : Alternate(acts)}

-----------------------------------------------------------------------------
(* The indentation stack.                                                   *)

LineNest == IF indents = <<>> THEN 0 ELSE Last(indents).nest

(* Mutant of Popped: one deeper entry is popped, not all of them. *)
PoppedOnce(n) ==
    IF indents # <<>> /\ n < LineNest THEN Front(indents) ELSE indents

(* The stack with the entries deeper than n popped off. *)
Popped(n) ==
    LET keep == {k \in DOMAIN indents : indents[k].nest <= n}
    IN IF keep = {} THEN <<>>
       ELSE SubSeq(indents, 1, CHOOSE k \in keep : \A j \in keep : j <= k)

(* Settled for a text of nesting n, `step` deeper if a level is entered. *)
Settle(n, step) ==
    LET low == Popped(n) IN
    IF low = <<>> \/ Last(low).nest = n THEN low
    ELSE Append(low, Entry(Last(low).indent + step, n))

IndentOf(s) == IF s = <<>> THEN 0 ELSE Last(s).indent

-----------------------------------------------------------------------------
(* try_render_group: lay `grp` out on one line in front of `la`.            *)

WillIncrease(la, nest) == IF IndentAhead(la)[1] > nest THEN IndentWidth ELSE 0

TryAtLineStart(grp, la) ==
    LET ni   == IndentAhead(grp)
        nest == LineNest + (IF ni[1] > LineNest THEN IndentWidth ELSE 0)
        line == Fits(WillIncrease(la, nest), TargetWidth - FirstLineWidth(la), grp)
        low  == Settle(ni[1], IndentWidth)
    IN [ok |-> line.ok, out |-> out \o Spaces(IndentOf(low) + ni[2]) \o line.out,
        col |-> line.width, indents |-> low]

(* Mutant of TryInLine: the line goes on behind the group unnoticed. *)
TryShortSighted(grp, la) ==
    LET line == Fits(WillIncrease(la, LineNest) - col, TargetWidth - col, grp)
    IN [ok |-> line.ok, out |-> out \o line.out, col |-> col + line.width, indents |-> indents]

TryInLine(grp, la) ==
    LET line == Fits(WillIncrease(la, LineNest) - col,
                     TargetWidth - col - FirstLineWidth(la), grp)
    IN [ok |-> line.ok, out |-> out \o line.out, col |-> col + line.width, indents |-> indents]

Try(grp, la) ==
    CASE grp = <<>> -> [ok |-> TRUE, out |-> out, col |-> col, indents |-> indents]
      [] grp # <<>> /\ col = 0 -> TryAtLineStart(SpacingDropped(grp), la)
      [] OTHER -> TryInLine(grp, la)

Adopt(t) == out' = t.out /\ col' = t.col /\ indents' = t.indents /\ UNCHANGED <<didx, suppress>>

-----------------------------------------------------------------------------
(* Priority children.                                                       *)

(* unexpand_spacing: the compact layout of a document's own spacings. *)
Unexpand(d) ==
    LET unexpanded(e) ==
            CASE IsSpacing(e) /\ e.sp \in {Break, Softbreak} -> <<>>
              [] IsSpacing(e) /\ e.sp \in {Space, Softspace} -> <<Sp(Hardspace)>>
              [] OTHER -> <<e>>
    IN FlattenSeq([i \in DOMAIN d |-> unexpanded(d[i])])

-----------------------------------------------------------------------------
DocFrame(todo, la) == [k |-> "doc", todo |-> todo, la |-> la]
TrialFrame(body, la, cands) ==
    [k |-> "trial", body |-> body, la |-> la, cands |-> cands, post |-> FALSE,
     cp |-> [len |-> Len(out), col |-> col, indents |-> indents,
             didx |-> didx, suppress |-> suppress]]

Top      == Last(stack)
OnElem   == stack # <<>> /\ Top.k = "doc" /\ Top.todo # <<>>
Elem     == Head(Top.todo)
Ahead    == Tail(Top.todo) \o Top.la
Consumed == Append(Front(stack), [Top EXCEPT !.todo = Tail(@)])

(* Every step counts. *)
Tick == steps' = steps + 1

Init ==
    /\ \E d \in Docs :
         /\ doc = FixedUp(d)
         /\ actions \in ActionLists(Markers(d))
    /\ out = <<>> /\ col = 0 /\ indents = <<Entry(0, 0)>>
    /\ didx = 0 /\ suppress = FALSE
    /\ stack = <<DocFrame(<<Group("Regular", doc)>>, <<>>)>>
    /\ result = <<>> /\ steps = 0

(* render_text *)
WriteText(e) ==
    LET low == Settle(e.nest, IF col = 0 THEN IndentWidth ELSE 0) IN
    /\ indents' = low
    /\ out' = out \o (IF col = 0 THEN Spaces(IndentOf(low) + e.off) ELSE <<>>) \o e.txt
    /\ col' = col + TextWidth(e)

(* Mutant of ShiftsComment: no comment is moved. *)
ShiftsNever(e, la) == FALSE

(* A trailing comment right behind a two column opener is moved one column  *)
(* to the right, so that the next pass attaches it to the same opener.      *)
ShiftsComment(e, la) ==
    e.kind = "TrailingComment" /\ col = 2 /\ IndentAhead(la)[1] > LineNest

RenderText ==
    /\ OnElem /\ IsText(Elem) /\ Elem.kind # "Directive" /\ ~suppress
    /\ IF ShiftsComment(Elem, Ahead)
       THEN /\ out' = out \o <<Blank>> \o Elem.txt
            /\ col' = col + 1 + TextWidth(Elem)
            /\ UNCHANGED indents
       ELSE WriteText(Elem)
    /\ stack' = Consumed
    /\ Tick
    /\ UNCHANGED <<doc, actions, didx, suppress, result>>

(* A soft break is taken when the first line behind it would not fit.  The  *)
(* unsigned `target_width - col` wraps beyond the target and is read back   *)
(* as a signed number in a build without overflow checks.                   *)
Flows(s, la) ==
    LET left == TargetWidth - col IN
    IF s = Softbreak THEN LineFits(left, TargetWidth, la)
    ELSE LineFits(IF left > 1 THEN left - 1 ELSE 0, TargetWidth, la)

RenderSpacing ==
    /\ OnElem /\ IsSpacing(Elem) /\ ~suppress
    /\ LET s == Elem.sp
           flat == \/ s = Hardspace
                   \/ s \in {Softbreak, Softspace} /\ Flows(s, Ahead)
           feeds == IF s \in {Softbreak, Softspace} THEN 1 ELSE LineFeeds(s)
           gap   == CASE s = Softbreak -> <<>>
                      [] s = Hardspace -> <<Blank>>
                      [] OTHER         -> <<SoftGap>>
       IN CASE col = 0           -> UNCHANGED <<out, col>>
            [] col # 0 /\ flat   -> out' = out \o gap /\ col' = col + Len(gap)
            [] col # 0 /\ ~flat  -> /\ out' = out \o [i \in 1..feeds |-> Feed]
                                    /\ col' = 0
    /\ stack' = Consumed
    /\ Tick
    /\ UNCHANGED <<doc, actions, indents, didx, suppress, result>>

(* Output is dropped inside a disabled region, groups are still entered. *)
SkipSuppressed ==
    /\ OnElem /\ suppress
    /\ IsSpacing(Elem) \/ (IsText(Elem) /\ Elem.kind # "Directive")
    /\ stack' = Consumed
    /\ Tick
    /\ UNCHANGED <<doc, actions, rvars, result>>

(* render_directive *)
RenderDirective ==
    /\ OnElem /\ IsText(Elem) /\ Elem.kind = "Directive"
    /\ LET act == IF didx + 1 \in DOMAIN actions THEN actions[didx + 1] ELSE "Inert" IN
       CASE act = "Begin" ->
              /\ out' = out \o (IF col # 0 THEN <<Feed>> ELSE <<>>) \o <<Region(didx + 1)>>
              /\ col' = 1 /\ suppress' = TRUE
              /\ UNCHANGED indents
         [] act = "End" -> suppress' = FALSE /\ UNCHANGED <<out, col, indents>>
         [] act = "Inert" /\ suppress -> UNCHANGED <<out, col, indents, suppress>>
         [] act = "Inert" /\ ~suppress -> WriteText(Elem) /\ UNCHANGED suppress
    /\ didx' = didx + 1
    /\ stack' = Consumed
    /\ Tick
    /\ UNCHANGED <<doc, actions, result>>

(* render_group, suppressed: only recurse for the markers. *)
EnterSuppressed ==
    /\ OnElem /\ IsGroup(Elem) /\ suppress
    /\ stack' = Append(Consumed, DocFrame(Elem.body, Ahead))
    /\ Tick
    /\ UNCHANGED <<doc, actions, rvars, result>>

RenderCompact ==
    /\ OnElem /\ IsGroup(Elem) /\ ~suppress
    /\ LET t == Try(Elem.body, Ahead) IN t.ok /\ Adopt(t)
    /\ stack' = Consumed
    /\ Tick
    /\ UNCHANGED <<doc, actions, result>>

HasTrials(e) == e.kind # "Transparent" /\ TrialsOf(e.body) # <<>>

RenderExpanded ==
    /\ OnElem /\ IsGroup(Elem) /\ ~suppress
    /\ ~HasTrials(Elem) /\ ~Try(Elem.body, Ahead).ok
    /\ stack' = Append(Consumed, DocFrame(Elem.body, Ahead))
    /\ Tick
    /\ UNCHANGED <<doc, actions, rvars, result>>

StartTrials ==
    /\ OnElem /\ IsGroup(Elem) /\ ~suppress
    /\ HasTrials(Elem) /\ ~Try(Elem.body, Ahead).ok
    /\ stack' = Append(Consumed, TrialFrame(Elem.body, Ahead, TrialsOf(Elem.body)))
    /\ Tick
    /\ UNCHANGED <<doc, actions, rvars, result>>

-----------------------------------------------------------------------------
OnTrial == stack # <<>> /\ Top.k = "trial"

(* Mutants of Restore: one field each that is not rolled back. *)
RestoreKeepingOut(cp) ==
    out' = out /\ col' = cp.col /\ indents' = cp.indents
    /\ didx' = cp.didx /\ suppress' = cp.suppress
RestoreKeepingCursor(cp) ==
    out' = SubSeq(out, 1, cp.len) /\ col' = cp.col /\ indents' = cp.indents
    /\ didx' = didx /\ suppress' = cp.suppress

(* Renderer::restore *)
Restore(cp) ==
    /\ out' = SubSeq(out, 1, cp.len)
    /\ col' = cp.col
    /\ indents' = cp.indents
    /\ didx' = cp.didx
    /\ suppress' = cp.suppress

(* Mutant of NextCandidate: the failed child is tried again. *)
SameCandidate == Append(Front(stack), [Top EXCEPT !.post = FALSE])

NextCandidate == Append(Front(stack), [Top EXCEPT !.cands = Tail(@), !.post = FALSE])

(* The part before the next Priority child fits: render that child expanded. *)
TrialBegins ==
    /\ OnTrial /\ ~Top.post /\ Top.cands # <<>>
    /\ LET c == Head(Top.cands)
           t == Try(c.pre, c.prio \o c.post \o Top.la)
       IN /\ t.ok /\ Adopt(t)
          /\ stack' = Append(Append(Front(stack), [Top EXCEPT !.post = TRUE]),
                             DocFrame(c.prio, Unexpand(c.post) \o Top.la))
    /\ Tick
    /\ UNCHANGED <<doc, actions, result>>

TrialRejected ==
    /\ OnTrial /\ ~Top.post /\ Top.cands # <<>>
    /\ ~Try(Head(Top.cands).pre, Head(Top.cands).prio \o Head(Top.cands).post \o Top.la).ok
    /\ Restore(Top.cp)
    /\ stack' = NextCandidate
    /\ Tick
    /\ UNCHANGED <<doc, actions, result>>

(* Mutant of TrialSucceeds: the compact layout is tried before it is known  *)
(* whether output is dropped.                                               *)
TrialSucceedsAloud ==
    /\ OnTrial /\ Top.post
    /\ LET c == Head(Top.cands)
           t == Try(c.post, Top.la)
       IN \/ t.ok /\ Adopt(t) /\ stack' = Front(stack)
          \/ /\ ~t.ok /\ suppress
             /\ stack' = Append(Front(stack), DocFrame(c.post, Top.la))
             /\ UNCHANGED rvars
    /\ Tick
    /\ UNCHANGED <<doc, actions, result>>

(* The part behind the child: compact, or dropped piece by piece when the   *)
(* child left a disabled region open.                                       *)
TrialSucceeds ==
    /\ OnTrial /\ Top.post
    /\ LET c == Head(Top.cands) IN
       \/ /\ suppress
          /\ stack' = Append(Front(stack), DocFrame(c.post, Top.la))
          /\ UNCHANGED rvars
       \/ /\ ~suppress
          /\ LET t == Try(c.post, Top.la) IN t.ok /\ Adopt(t)
          /\ stack' = Front(stack)
    /\ Tick
    /\ UNCHANGED <<doc, actions, result>>

TrialFails ==
    /\ OnTrial /\ Top.post /\ ~suppress
    /\ ~Try(Head(Top.cands).post, Top.la).ok
    /\ Restore(Top.cp)
    /\ stack' = NextCandidate
    /\ Tick
    /\ UNCHANGED <<doc, actions, result>>

(* Every candidate failed: expand the whole group. *)
GiveUpTrials ==
    /\ OnTrial /\ ~Top.post /\ Top.cands = <<>>
    /\ stack' = Append(Front(stack), DocFrame(Top.body, Top.la))
    /\ Tick
    /\ UNCHANGED <<doc, actions, rvars, result>>

Return ==
    /\ stack # <<>> /\ Top.k = "doc" /\ Top.todo = <<>>
    /\ stack' = Front(stack)
    /\ Tick
    /\ UNCHANGED <<doc, actions, rvars, result>>

(* layout_greedy trims the output and ends it with one line feed. *)
IsWhite(c) == c \in {Feed, Blank, SoftGap}
Trimmed(s) ==
    LET ink == {i \in DOMAIN s : ~IsWhite(s[i])}
    IN IF ink = {} THEN <<>>
       ELSE SubSeq(s, CHOOSE i \in ink : \A j \in ink : i <= j,
                      CHOOSE i \in ink : \A j \in ink : i >= j)

Done == result # <<>>

Finish ==
    /\ stack = <<>> /\ ~Done
    /\ result' = <<Append(Trimmed(out), Feed)>>
    /\ Tick
    /\ UNCHANGED <<doc, actions, rvars, stack>>

(* The program has printed its result. *)
Terminated == Done /\ UNCHANGED vars

Next ==
    \/ RenderText \/ RenderSpacing \/ SkipSuppressed \/ RenderDirective
    \/ EnterSuppressed \/ RenderCompact \/ RenderExpanded \/ StartTrials
    \/ TrialBegins \/ TrialRejected \/ TrialSucceeds \/ TrialFails \/ GiveUpTrials
    \/ Return \/ Finish \/ Terminated

Spec == Init /\ [][Next]_vars

-----------------------------------------------------------------------------
(* The checkpoints of the trials under way, the outermost first. *)
Checkpoints(frames) ==
    FlattenSeq([i \in DOMAIN frames |-> IF frames[i].k = "trial" THEN <<frames[i].cp>> ELSE <<>>])

(* The state a checkpoint stands for, when `cells` have been written. *)
Snapshot(cells, cp) ==
    [out |-> SubSeq(cells, 1, cp.len), col |-> cp.col, indents |-> cp.indents,
     didx |-> cp.didx, suppress |-> cp.suppress]

SavedIn(cells, cps) == [i \in DOMAIN cps |-> Snapshot(cells, cps[i])]

State == INSTANCE RenderState WITH Cells <- Int, saved <- SavedIn(out, Checkpoints(stack))

(* The Renderer implements the promises of RenderState: a checkpoint that   *)
(* keeps only the length of the output restores the whole state.            *)
KeepsPromises == State!Spec

-----------------------------------------------------------------------------
(* What the document demands to see: the letters of its texts in order, a   *)
(* region where a live marker opens one, nothing of what the region covers. *)
(* Trailing texts are written only on some layouts and left out here.       *)
DemandStep(acts, st, e) ==
    LET act == IF st.k + 1 \in DOMAIN acts THEN acts[st.k + 1] ELSE "Inert"
        marker == IsText(e) /\ e.kind = "Directive"
    IN CASE marker /\ act = "Begin" ->
              [k |-> st.k + 1, live |-> FALSE, cells |-> Append(st.cells, Region(st.k + 1))]
         [] marker /\ act = "End" -> [st EXCEPT !.k = @ + 1, !.live = TRUE]
         [] OTHER ->
              [st EXCEPT !.k = @ + (IF marker THEN 1 ELSE 0),
                         !.cells = IF IsText(e) /\ st.live /\ e.kind # "Trailing"
                                   THEN @ \o e.txt ELSE @]

(* Reading on from `st` through a sequence of leaves. *)
Read(acts, st, leaves) ==
    LET before[i \in 1..(Len(leaves) + 1)] ==
            IF i = 1 THEN st ELSE DemandStep(acts, before[i - 1], leaves[i - 1])
    IN before[Len(leaves) + 1]

AtFirst  == [k |-> 0, live |-> TRUE, cells |-> <<>>]
Demanded == Read(actions, AtFirst, LeavesOf(doc)).cells

TrailingLetters(d) ==
    UNION {ToSet(e.txt) : e \in {x \in ToSet(LeavesOf(d)) : IsText(x) /\ x.kind = "Trailing"}}

(* The cells of an output that show what was demanded. *)
Ink(optional, cells) ==
    FlattenSeq([i \in DOMAIN cells |->
                  IF IsWhite(cells[i]) \/ cells[i] \in optional THEN <<>> ELSE <<cells[i]>>])

(* Whatever was tried, measured and rolled back, each text and each region  *)
(* comes out exactly once and in order, and each marker takes its own       *)
(* action: trials that rendered a marker do not shift the ones behind it.   *)
DemandedExactlyOnce == Done => Ink(TrailingLetters(doc), result[1]) = Demanded

(* The regions that are open once n markers have been met, as the lists     *)
(* that take_directive_regions returns have it.                             *)
OpenRegions(n) ==
    {k \in 1..n : /\ k \in DOMAIN actions /\ actions[k] = "Begin"
                  /\ \A j \in (k + 1)..n : j \in DOMAIN actions => actions[j] # "End"}

(* Output is dropped exactly while a region is open, and the verbatim text  *)
(* of that region stays the end of the output until it closes: neither a    *)
(* group behind the marker, nor a trial whose Priority child has left the   *)
(* region open, nor a rollback puts anything behind it or forgets it.       *)
SilentInRegion ==
    /\ suppress <=> OpenRegions(didx) # {}
    /\ suppress => out # <<>> /\ Last(out) \in {Region(k) : k \in OpenRegions(didx)}

-----------------------------------------------------------------------------
(* The steps a document takes at most, given those of its elements: a group *)
(* with Priority children renders each of them once per trial and then, all *)
(* trials lost, once more.                                                  *)
Total(f, s)     == FoldLeft(LAMBDA acc, x : acc + f[x], 0, s)
StepsOf(cost, d)       == 1 + Total(cost, d)
StepsOfTrial(cost, c)  == 2 + StepsOf(cost, c.prio) + StepsOf(cost, c.post)
StepsOfTrials(cost, s) == Total([c \in ToSet(s) |-> StepsOfTrial(cost, c)], s)

StepsOfElement(cost, e) ==
    IF ~IsGroup(e) THEN 1
    ELSE 1 + StepsOf(cost, e.body)
           + (IF HasTrials(e) THEN 1 + StepsOfTrials(cost, TrialsOf(e.body)) ELSE 0)

ElementsOf(d) == UNION {ToSet(body) : body \in LevelsOf(<<Group("Regular", d)>>)}

StepsBound ==
    LET cost[e \in ElementsOf(doc)] == StepsOfElement(cost, e)
    IN 2 + cost[Group("Regular", doc)]

(* Formatting ends: trials nested in trials roll back and render the same   *)
(* group again, but never more often than this; and the renderer does not   *)
(* stop without a result (no deadlock).                                     *)
TrialsEnd == steps <= StepsBound

Texts(P(_)) == {e \in ToSet(LeavesOf(doc)) : IsText(e) /\ P(e)}
LettersOf(P(_)) == UNION {ToSet(e.txt) : e \in Texts(P)}
Regular  == LettersOf(LAMBDA e : e.kind = "Regular")

-----------------------------------------------------------------------------
(* The lines of the result: the cells between two line feeds.               *)
Breaks == {0} \cup {i \in DOMAIN result[1] : result[1][i] = Feed}
LineFrom(b) == SubSeq(result[1], b + 1, (CHOOSE e \in Breaks : /\ e > b
                                            /\ \A x \in Breaks : x > b => e <= x) - 1)
ResultLines == [b \in {x \in Breaks : x < Len(result[1])} |-> LineFrom(b)]

Lead(line) == CHOOSE n \in 0..Len(line) :
    (\A i \in 1..n : line[i] = Blank) /\ (n < Len(line) => line[n + 1] # Blank)

(* The columns of a line up to its last regular letter, comments and the    *)
(* indentation left out, as the budgets of the engine count them.           *)
Counted(line) ==
    LET ends == {i \in DOMAIN line : line[i] \in Regular}
    IN IF ends = {} THEN 0
       ELSE Cardinality({i \in DOMAIN line :
               /\ i > Lead(line) /\ \E j \in ends : i <= j
               /\ line[i] \in Regular \cup {Blank, SoftGap}})

(* A soft spacing is laid out flat only where the line then fits: a line    *)
(* with one in it is never wider than the target.  The probes look at the   *)
(* text behind a group, across the Priority children still to come.         *)
FlatLinesFit ==
    Done => \A b \in DOMAIN ResultLines :
        SoftGap \in ToSet(ResultLines[b]) => Counted(ResultLines[b]) <= TargetWidth

(* The text a cell belongs to, and the cells between two texts. *)
TextOf(c) == CHOOSE e \in Texts(LAMBDA x : TRUE) : c \in ToSet(e.txt)
At(c)     == CHOOSE i \in DOMAIN result[1] : result[1][i] = c

(* The texts next to each other and the merged spacing between them. *)
TextGaps ==
    LET leaves == LeavesOf(doc)
        texts  == {i \in DOMAIN leaves : IsText(leaves[i])}
        next   == {p \in texts \X texts : p[1] < p[2] /\ \A k \in texts : ~(p[1] < k /\ k < p[2])}
        gap(i, j) == FoldLeft(LAMBDA acc, e : Join(acc, e.sp), NoSpacing, SubSeq(leaves, i + 1, j - 1))
    IN {[left |-> leaves[p[1]], sp |-> gap(p[1], p[2]), right |-> leaves[p[2]]] : p \in next}

(* A forced line break is written as it is, in every layout of the groups   *)
(* around it: never laid flat, dropped or doubled by a soft break beside it.*)
HardBreaksExact ==
    Done => \A g \in TextGaps :
        (/\ g.sp # NoSpacing /\ BreaksAlways(g.sp)
         /\ {Last(g.left.txt), g.right.txt[1]} \subseteq ToSet(result[1]))
        => LET i == At(Last(g.left.txt))
               j == At(g.right.txt[1])
           IN Cardinality({k \in i..j : result[1][k] = Feed}) = LineFeeds(g.sp)

(* The text a line starts with. *)
Starts(line) == Lead(line) < Len(line) /\ line[Lead(line) + 1] > 0
Starter(line) == TextOf(line[Lead(line) + 1])
Indented(line) == Lead(line) - Starter(line).off

(* Lines follow the nesting of the texts they start with, whatever was      *)
(* popped, pushed and restored in between: an outermost line is not         *)
(* indented, and a line no shallower than the one before it is not          *)
(* indented less.                                                           *)
IndentationFollowsNesting ==
    Done => \A a, b \in DOMAIN ResultLines :
        LET up   == ResultLines[a]
            down == ResultLines[b]
        IN /\ Starts(up) /\ Starter(up).nest = 0 => Indented(up) = 0
           /\ (/\ a < b /\ \A x \in Breaks : ~(a < x /\ x < b)
               /\ Starts(up) /\ Starts(down)
               /\ Starter(up).nest <= Starter(down).nest)
              => Indented(up) <= Indented(down)

(* "formatting itself never fails": the unsigned width left on the line,    *)
(* `target_width - col`, is there to subtract when a soft break asks for it. *)
WidthLeftAtSoftbreak ==
    OnElem /\ ~suppress /\ IsSpacing(Elem) /\ Elem.sp = Softbreak => col <= TargetWidth

-----------------------------------------------------------------------------
(* What the proofs need to know of the documents and of the walks over      *)
(* them; `E` is a set of elements and `D` a set of documents made of them.  *)

(* A set of elements the renderer can be given: counters are unsigned, a    *)
(* group holds elements of the set again, and fixup left no Nest behind.    *)
Elements(E) ==
    /\ Sp(Hardspace) \in E
    /\ \A e \in E :
         \/ /\ IsText(e) /\ e.kind \in TextKinds /\ e.txt \in Seq(Int)
            /\ e.nest \in Nat /\ e.off \in Nat
         \/ IsSpacing(e) /\ e.sp \in Spacings
         \/ IsGroup(e) /\ e.body \in Seq(E)

(* Letters are positive, and those of Trailing texts are theirs alone. *)
Lettered(E, optional) ==
    \A e \in E : IsText(e) => \A i \in DOMAIN e.txt :
        e.txt[i] > 0 /\ (e.txt[i] \in optional <=> e.kind = "Trailing")

(* The walks return what their signatures say. *)
WalksTyped(E, D) == \A d \in D :
    /\ LeavesOf(d) \in Seq({e \in E : ~IsGroup(e)})
    /\ IndentAhead(d)[1] \in Nat /\ IndentAhead(d)[2] \in Nat
    /\ SpacingDropped(d) \in Seq(E)
    /\ TrialsOf(d) \in Seq([pre : Seq(E), prio : Seq(E), post : Seq(E)])

(* Groups nest finitely: what is in a group, and in the pieces of a trial of *)
(* it, is less deep than the group.                                         *)
Nests(G, depth, most) ==
    /\ most \in Nat /\ depth \in [G -> 1..most]
    /\ \A e \in G : IsGroup(e) =>
          \A d \in {e.body} \cup UNION {{c.prio, c.post} : c \in ToSet(TrialsOf(e.body))} :
              \A i \in DOMAIN d : d[i] \in G /\ depth[d[i]] < depth[e]

(* The walks keep the texts: leaves come in reading order, only leading     *)
(* spacings are dropped, and a candidate cuts the body in three.            *)
WalksKeepTexts(D) ==
    /\ LeavesOf(<<>>) = <<>>
    /\ \A d \in D :
         /\ d # <<>> => LeavesOf(d) = (IF IsGroup(Head(d)) THEN LeavesOf(Head(d).body) ELSE <<Head(d)>>)
                                      \o LeavesOf(Tail(d))
         /\ \E n \in 0..Len(LeavesOf(d)) :
              /\ \A i \in 1..n : IsSpacing(LeavesOf(d)[i])
              /\ LeavesOf(SpacingDropped(d)) = SubSeq(LeavesOf(d), n + 1, Len(LeavesOf(d)))
         /\ \A i \in DOMAIN TrialsOf(d) :
              LET c == TrialsOf(d)[i]
              IN LeavesOf(c.pre) \o LeavesOf(c.prio) \o LeavesOf(c.post) = LeavesOf(d)
=============================================================================

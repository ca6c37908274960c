------------------------------- MODULE Walks --------------------------------
(***************************************************************************)
(* What the layout engine asks of a document before it lays it out         *)
(* (src/doc/render/fits.rs, layout.rs): the walks over documents that      *)
(* recurse into groups.                                                    *)
(***************************************************************************)
EXTENDS Fixup

Probe == INSTANCE Measure WITH LeavesOf <- Leaves

(* first_line_fits: does the first line of `chain` end within `target`      *)
(* columns when a group is laid out flat if it fits and opened otherwise?   *)
RECURSIVE FirstLine(_, _, _, _, _)
FirstLine(target, max, budget, pending, rest) ==
    LET done   == rest = <<>>
        b      == IF pending = Hardspace THEN budget - 1 ELSE budget
        e      == Head(rest)
        flat   == Probe!Fits(0, b - Probe!FirstLineWidth(Tail(rest)), e.body)
    IN CASE budget < 0 -> FALSE
         [] budget >= 0 /\ ~done /\ IsSpacing(e) ->
              FirstLine(target, max, budget, Probe!Join(pending, e.sp), Tail(rest))
         [] budget >= 0 /\ (done \/ ~IsSpacing(e)) /\ pending \notin {Probe!NoSpacing, Hardspace} ->
              max - budget <= target
         [] budget >= 0 /\ (done \/ ~IsSpacing(e)) /\ pending \in {Probe!NoSpacing, Hardspace} ->
              CASE b < 0 -> FALSE
                [] b >= 0 /\ done -> max - b <= target
                [] b >= 0 /\ ~done /\ IsText(e) ->
                     FirstLine(target, max,
                               IF e.kind = "Regular" THEN b - TextWidth(e) ELSE b,
                               Probe!NoSpacing, Tail(rest))
                [] b >= 0 /\ ~done /\ IsGroup(e) ->
                     IF flat.ok
                     THEN FirstLine(target, max, b - flat.width, Probe!NoSpacing, Tail(rest))
                     ELSE FirstLine(target, max, b, Probe!NoSpacing, e.body \o Tail(rest))

FirstLineFits(target, max, chain) == FirstLine(target, max, max, Probe!NoSpacing, chain)

(* next_indent: nesting and offset of the first text or of the first group. *)
RECURSIVE NextIndent(_)
NextIndent(chain) ==
    LET hits == {i \in DOMAIN chain : IsText(chain[i]) \/ IsGroup(chain[i])} IN
    IF hits = {} THEN <<0, 0>>
    ELSE LET e == chain[CHOOSE i \in hits : \A j \in hits : i <= j] IN
         IF IsText(e) THEN <<e.nest, e.off>> ELSE NextIndent(e.body)

RECURSIVE DropLeadingSpacing(_)
DropLeadingSpacing(grp) ==
    CASE StartsWithSpacing(grp) -> Tail(grp)
      [] grp # <<>> /\ IsGroup(Head(grp)) /\ StartsWithSpacing(Head(grp).body) ->
           DropLeadingSpacing(<<Group(Head(grp).kind, Tail(Head(grp).body))>> \o Tail(grp))
      [] OTHER -> grp

(* has_priority_groups and the segments of priority_groups: the body cut    *)
(* at its Priority children, those of Transparent groups included.          *)
RECURSIVE Segments(_)
Segments(body) ==
    IF body = <<>> THEN <<>>
    ELSE LET e == Head(body) IN
         CASE IsGroup(e) /\ e.kind = "Priority" ->
                <<[prio |-> TRUE, seg |-> e.body]>> \o Segments(Tail(body))
           [] IsGroup(e) /\ e.kind = "Transparent" -> Segments(e.body) \o Segments(Tail(body))
           [] OTHER -> <<[prio |-> FALSE, seg |-> <<e>>]>> \o Segments(Tail(body))

Join3(segs) == Flat([i \in DOMAIN segs |-> segs[i].seg])
PriorityIndices(segs) == SelectSeq([i \in DOMAIN segs |-> i], LAMBDA i : segs[i].prio)

(* (pre, prio, post) of every Priority child, the last child first. *)
Candidates(body) ==
    LET segs == Segments(body)
        at   == Reverse(PriorityIndices(segs))
    IN [c \in DOMAIN at |-> [pre  |-> Join3(SubSeq(segs, 1, at[c] - 1)),
                             prio |-> segs[at[c]].seg,
                             post |-> Join3(SubSeq(segs, at[c] + 1, Len(segs)))]]
=============================================================================

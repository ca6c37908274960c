------------------------------- MODULE Fixup -------------------------------
(***************************************************************************)
(* `Doc::fixup` (src/doc/render/fixup.rs): normalise a freshly built       *)
(* document before layout.  The read/write compaction of `fixup_mut` is    *)
(* kept as an accumulator: `w` is the written prefix, `r` what is still to *)
(* read, (n, o) the running Nest deltas and `vhs` the virtual Hardspace    *)
(* that stands in front of the document in its parent.                     *)
(***************************************************************************)
EXTENDS Doc

RECURSIVE Leaves(_)
(* The elements of `doc` in reading order with the groups opened up, which *)
(* is how `fits_impl` and `first_line_width` walk a document.              *)
Leaves(doc) ==
    Flat([i \in DOMAIN doc |->
            IF IsGroup(doc[i]) THEN Leaves(doc[i].body) ELSE <<doc[i]>>])

RECURSIVE GroupBodies(_)
(* Every group body of `doc`, at any depth. *)
GroupBodies(doc) ==
    UNION { {doc[i].body} \cup GroupBodies(doc[i].body) :
              i \in {j \in DOMAIN doc : IsGroup(doc[j])} }

(* All element sequences of the document tree: itself and its bodies. *)
Levels(doc) == {doc} \cup GroupBodies(doc)

HardSpacingElem(e) == IsSpacing(e) /\ IsHardSpacing(e.sp)

RECURSIVE IsComment(_)
IsComment(e) ==
    \/ IsText(e) /\ e.kind \in {"Comment", "TrailingComment", "Directive"}
    \/ IsGroup(e) /\ \A i \in DOMAIN e.body :
                        IsComment(e.body[i]) \/ HardSpacingElem(e.body[i])

(* Group ann [Group ann xs] is Group ann xs. *)
SimplifyGroup(kind, body) ==
    IF Len(body) = 1 /\ IsGroup(body[1]) /\ body[1].kind = kind
    THEN body[1].body
    ELSE body

(* `lift_bounds`: how many leading elements, and from where on the trailing *)
(* elements, leave the group (both as lengths of a prefix of the body).     *)
(* Mutant of Stays: comments stay in the group. *)
StaysWithComments(body) == {i \in DOMAIN body : ~HardSpacingElem(body[i])}

Stays(body)   == {i \in DOMAIN body : ~HardSpacingElem(body[i]) /\ ~IsComment(body[i])}
PreEnd(body)  == IF Stays(body) = {} THEN Len(body)
                 ELSE (CHOOSE i \in Stays(body) : \A j \in Stays(body) : i <= j) - 1
Solid(body)   == {i \in DOMAIN body : ~HardSpacingElem(body[i])}
PostStart(body) ==
    LET lastSolid == IF Solid(body) = {} THEN 0
                     ELSE CHOOSE i \in Solid(body) : \A j \in Solid(body) : i >= j
    IN IF lastSolid >= PreEnd(body) THEN lastSolid ELSE PreEnd(body)

Pre(body)  == SubSeq(body, 1, PreEnd(body))
Core(body) == SubSeq(body, PreEnd(body) + 1, PostStart(body))
Post(body) == SubSeq(body, PostStart(body) + 1, Len(body))

(* The pieces of a dissolved group go back to the read side.  Their texts    *)
(* carry their indentation already, so markers cancel the running deltas.   *)
LiftedUncancelled(pre, post, n, o) == pre \o post    \* mutant of Lifted
Lifted(pre, post, n, o) == <<Nest(-n, -o)>> \o pre \o post \o <<Nest(n, o)>>

(* A lifted prefix meets the spacing written last. *)
Joins(w, pre) == EndsWithSpacing(w) /\ StartsWithSpacing(pre)

RECURSIVE FixupFrom(_, _, _, _, _)

(* Mutant of FixSpacing: the spacing read last replaces the one before it. *)
FixSpacingReplace(w, r, n, o, vhs) ==
    CASE StartsWithSpacing(Tail(r)) -> FixupFrom(w, Tail(r), n, o, vhs)
      [] ~StartsWithSpacing(Tail(r)) /\ EndsWithSpacing(w) ->
           FixupFrom(Append(Front(w), Head(r)), Tail(r), n, o, vhs)
      [] OTHER -> FixupFrom(Append(w, Head(r)), Tail(r), n, o, vhs)

(* Elem::Spacing: fold into the next slot, or into the last written one. *)
FixSpacing(w, r, n, o, vhs) ==
    LET pulls == w = <<>> /\ vhs
        a     == IF pulls THEN Merge(Hardspace, Head(r).sp) ELSE Head(r).sp
        rest  == Tail(r)
    IN CASE StartsWithSpacing(rest) ->
              FixupFrom(w, <<Sp(Merge(a, Head(rest).sp))>> \o Tail(rest), n, o, vhs /\ ~pulls)
         [] ~StartsWithSpacing(rest) /\ EndsWithSpacing(w) ->
              FixupFrom(Append(Front(w), Sp(Merge(Last(w).sp, a))), rest, n, o, vhs /\ ~pulls)
         [] OTHER ->
              FixupFrom(Append(w, Sp(a)), rest, n, o, vhs /\ ~pulls)

(* Elem::Text: concatenate to a written text of the same kind, which keeps *)
(* its own indentation, or bake the running deltas into the text.          *)
FixText(w, r, n, o, vhs) ==
    LET e == Head(r)
    IN IF w # <<>> /\ IsText(Last(w)) /\ Last(w).kind = e.kind
       THEN FixupFrom(Append(Front(w), [Last(w) EXCEPT !.txt = @ \o e.txt]),
                      Tail(r), n, o, vhs)
       ELSE FixupFrom(Append(w, [e EXCEPT !.nest = @ + n, !.off = @ + o]),
                      Tail(r), n, o, vhs)

(* Elem::Group: fix the body first, letting it pull in a Hardspace that    *)
(* stands right before it, then keep, dissolve or lift out of the group.   *)
FixGroup(w, r, n, o, vhs) ==
    LET kind == Head(r).kind
        rest == Tail(r)
        pull == IF w # <<>> THEN Last(w) = Sp(Hardspace) ELSE vhs
        sub  == FixupFrom(<<>>, Head(r).body, n, o, pull)
        absorbed == pull /\ ~sub.vhs
        body == sub.doc
        w1   == IF absorbed /\ w # <<>> THEN Front(w) ELSE w
        v1   == IF absorbed /\ w = <<>> THEN FALSE ELSE vhs
        pre  == Pre(body)
        joins == Joins(w1, pre)
        w2   == IF joins THEN Append(Front(w1), Sp(Merge(Last(w1).sp, Head(pre).sp))) ELSE w1
        pre2 == IF joins THEN Tail(pre) ELSE pre
    IN CASE body # <<>> /\ Core(body) = body ->
              FixupFrom(Append(w1, Group(kind, SimplifyGroup(kind, body))), rest, n, o, v1)
         [] Core(body) = <<>> ->
              FixupFrom(w1, Lifted(pre, Post(body), n, o) \o rest, n, o, v1)
         [] OTHER ->
              FixupFrom(w2 \o Append(pre2, Group(kind, SimplifyGroup(kind, Core(body)))),
                        Post(body) \o rest, n, o, v1)

FixupFrom(w, r, n, o, vhs) ==
    CASE r = <<>>           -> [doc |-> w, vhs |-> vhs]
      [] r # <<>> /\ IsNest(Head(r))    ->
           FixupFrom(w, Tail(r), n + Head(r).dn, o + Head(r).doff, vhs)
      [] r # <<>> /\ IsSpacing(Head(r)) -> FixSpacing(w, r, n, o, vhs)
      [] r # <<>> /\ IsText(Head(r))    -> FixText(w, r, n, o, vhs)
      [] r # <<>> /\ IsGroup(Head(r))   -> FixGroup(w, r, n, o, vhs)

FixupDoc(doc) == FixupFrom(<<>>, doc, 0, 0, FALSE).doc
=============================================================================

----------------------------- MODULE MCRenderer -----------------------------
EXTENDS Renderer, Walks

(* The letters of a document numbered in reading order. *)
RECURSIVE Numbered(_, _)
Numbered(d, n) ==
    IF d = <<>> THEN <<>>
    ELSE LET e == Head(d) IN
         CASE IsText(e)  -> <<[e EXCEPT !.txt = [i \in DOMAIN e.txt |-> n + i]]>>
                            \o Numbered(Tail(d), n + Len(e.txt))
           [] IsGroup(e) -> <<Group(e.kind, Numbered(e.body, n))>>
                            \o Numbered(Tail(d), n + FoldLeft(LAMBDA a, x : a + Len(x.txt), 0,
                                                     SelectSeq(Leaves(e.body), IsText)))
           [] OTHER -> <<e>> \o Numbered(Tail(d), n)

W(n)    == Text(0, 0, "Regular", [i \in 1..n |-> 1])
Comment == <<Sp(Hardline), Text(0, 0, "Comment", <<1, 1>>), Sp(Hardline)>>
Tail1   == <<Sp(Hardspace), Text(0, 0, "TrailingComment", <<1, 1>>), Sp(Hardline)>>
Comma   == <<Text(0, 0, "Trailing", <<1>>)>>
Marker  == <<Text(0, 0, "Directive", <<1>>), Sp(Hardline)>>
In(d)   == <<Nest(1, 0)>> \o d \o <<Nest(-1, 0)>>

Soft == {Space, Break, Softspace, Softbreak}
AnyGap == Soft \cup {Hardspace, Hardline}

(* Texts and gaps in a group, behind and in front of others. *)
Plain == { <<W(a), Sp(g1), Group(k, <<W(b), Sp(g2), W(c)>>), Sp(g3), W(1)>> :
             a \in {1, 3}, b \in {1, 2}, c \in {1, 3}, k \in {"Regular", "Transparent"},
             g1 \in Soft, g2 \in AnyGap, g3 \in {Space, Hardspace, Hardline} }

(* A bracketed body: "[" nest(line body line) "]" behind a head. *)
Bracket(k, g, body) == Group(k, <<W(1), Nest(1, 0), Sp(g)>> \o body \o <<Sp(g), Nest(-1, 0), W(1)>>)
Bodies == { <<W(a), Sp(g), W(b)>> : a \in {1, 2}, b \in {1, 4}, g \in {Space, Softspace, Hardline} }
          \cup { Comment \o <<W(1)>>, <<W(1)>> \o Tail1, <<W(1)>> \o Comma }

(* Priority children, alone and in pairs, and inside a Transparent group. *)
Prioritised ==
    { <<Group("Regular", <<W(a), Sp(g), Bracket("Priority", h, body), Sp(g), W(1)>>)>> :
        a \in {1, 3}, g \in {Space, Hardspace}, h \in {Space, Break}, body \in Bodies }
    \cup
    { <<W(1), Sp(Hardline),
        Group("Regular", <<W(1), Sp(Space), Bracket("Priority", h, x), Sp(Space),
                           Group("Transparent", <<Sp(g), Bracket("Priority", Break, y)>>)>>)>> :
        h \in {Space, Break}, g \in {Space, Hardspace}, x \in Bodies, y \in Bodies }

(* Directives around, before and inside a Priority child. *)
Marked ==
    { <<Group("Regular", <<W(1), Sp(Space)>> \o p
              \o <<Bracket("Priority", Space, q \o <<W(1), Sp(Space), W(2), Sp(Hardline)>> \o r),
                   Sp(Space), W(3)>>)>> \o s \o <<W(1)>> :
        p \in {<<>>, <<Sp(Hardline)>> \o Marker}, q \in {<<>>, Marker},
        r \in {<<>>, Marker}, s \in {<<>>, <<Sp(Hardline)>> \o Marker} }

(* A group three levels deep that starts a line with a soft spacing. *)
Deep ==
    { In(<<Sp(Hardline), W(1)>> \o In(<<Sp(Hardline), W(1)>> \o In(<<Sp(Hardline),
        Group("Regular", <<Sp(g), W(1), Sp(Space), Bracket("Priority", Space, body), Sp(Space), W(3)>>)>>)))
      \o <<Sp(Hardline), W(1), Sp(Hardline), W(1)>> :
        g \in {Break, Space}, body \in Bodies }

(* `(e).a`: the parenthesised base, then a soft break, then the selector. *)
MCSelections ==
    { Numbered(<<Group("Regular", <<W(1), Group("Regular", <<W(n)>>), W(1)>>),
                 Sp(Softbreak), W(2)>>, 0) : n \in 1..5 }

MCDocs == {Numbered(d, 0) : d \in Deep \cup Plain \cup Prioritised \cup Marked}

(* What the proofs take from the documents and from the walks over them: `E` *)
(* holds the elements of a document, `D` the documents the engine makes of   *)
(* them.                                                                     *)
Parts(d) ==
    LET levels == UNION {Levels(x) : x \in {<<Group("Regular", d)>>, DropLeadingSpacing(d)}}
        cuts   == UNION {ToSet(Candidates(b)) : b \in levels}
        bodies == levels \cup UNION {{c.pre, c.prio, c.post} : c \in cuts}
    IN bodies \cup {DropLeadingSpacing(b) : b \in bodies}
       \cup UNION {{SubSeq(b, i, Len(b)) : i \in 1..(Len(b) + 1)} : b \in bodies}

Larger(m, n) == IF m >= n THEN m ELSE n

RECURSIVE Depth(_)
Depth(e) == IF IsGroup(e) THEN 1 + FoldLeft(LAMBDA acc, x : Larger(acc, Depth(x)), 1, e.body) ELSE 1

ASSUME WalksAssumption ==
    \A d \in {FixupDoc(x) : x \in MCDocs} :
        LET D == Parts(d)
            E == UNION {ToSet(b) : b \in D \cup {DropLeadingSpacing(b) : b \in D}} \cup {Sp(Hardspace)}
        IN /\ Elements(E) /\ Lettered(E, TrailingLetters(d))
           /\ WalksTyped(E, D) /\ WalksKeepTexts(D)
           /\ Nests(ElementsOf(d), [e \in ElementsOf(d) |-> Depth(e)], Depth(Group("Regular", d)))
           /\ ElementsOf(d) \subseteq E /\ Group("Regular", d) \in ElementsOf(d)
=============================================================================

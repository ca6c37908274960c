------------------------------ MODULE MCTrivia ------------------------------
EXTENDS Trivia

CONSTANTS MaxItems,   \* items between two tokens
          MaxLines    \* lines of a block comment on its own

(* Blank lines or not; comments at two columns, one without words; block    *)
(* comments of no, one and two lines; a documentation comment.              *)
Text(n, w) == Line(n, FALSE, 0, <<w>>)
MCItems ==
    {NewlineRun(1), NewlineRun(2), LanguageAnnotation(<<1>>), Directive,
     LineComment(<<1>>, 2), LineComment(<<1>>, 4), LineComment(<<>>, 2),
     BlockComment(FALSE, <<Spaces(1)>>, 2), BlockComment(FALSE, <<Text(1, 1)>>, 2),
     BlockComment(FALSE, <<Text(1, 1), Text(4, 1), NoLine>>, 2), BlockComment(TRUE, <<Text(1, 1)>>, 2)}

(* The words of the k-th item are numbers of its own. *)
Worded(pts) == [i \in DOMAIN pts |->
    [pts[i] EXCEPT !.text = [j \in DOMAIN @ |-> 10 * i],
                   !.lines = [j \in DOMAIN @ |-> [@[j] EXCEPT !.text = [k \in DOMAIN @ |-> 10 * i + j]]]]]

MCEnds == {[kind |-> "token", width |-> w] : w \in {1, 3}}
          \cup {[kind |-> "string", width |-> 1], [kind |-> "indented", width |-> 2]}

Layouts(ends) ==
    [end : ends, indent : {0, IndentWidth}, deeper : BOOLEAN, gap : {Hardspace, Hardline}, next : {2, 4}]

Between(items) == [items |-> {Worded(pts) : pts \in SeqOf(items, MaxItems)}, layouts |-> Layouts(MCEnds)]

(* Every block comment of a few lines, begun at two columns. *)
Lines == {l \in [indent : 0..4, star : BOOLEAN, gap : 0..1, text : {<<>>, <<1>>}] : l.star \/ l.gap = 0}
Bodies == UNION {[1..n -> Lines] : n \in 1..MaxLines}
Alone ==
    [items |-> {Worded(<<NewlineRun(1), BlockComment(TRUE, body, col), NewlineRun(1)>>) :
                   body \in Bodies, col \in {0, 2}},
     layouts |-> {[end |-> CHOOSE e \in MCEnds : TRUE, indent |-> 0, deeper |-> TRUE,
                   gap |-> Hardline, next |-> 2]}]

MCSources == {Between(MCItems), Alone}
=============================================================================

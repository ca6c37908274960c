---------------------------- MODULE LegalSyntax -----------------------------
(***************************************************************************)
(* The grammar as a property of trees: which trees of Syntax are written   *)
(* without further parentheses.  The precedences are those of the operator *)
(* table, the classes of operands those the comments of the parser name    *)
(* (src/parser/term.rs, operators.rs); how the parser goes about reading   *)
(* them plays no part here.                                                *)
(***************************************************************************)
EXTENDS Syntax

(* How tightly the outermost construct of a tree holds together.           *)
Strength(t) ==
    CASE IsTerm(t)           -> 18
      [] t.tag = "Apply"     -> 17
      [] t.tag = "HasAttr"   -> 16
      [] t.tag = "Prefix"    -> 15
      [] t.tag = "Operation" -> Precedence[t.kids[2].tok]
      [] OTHER -> 0

Term == 18

RECURSIVE EndsInSelection(_), FirstToken(_)
FirstToken(t) == IF IsLeaf(t) THEN t.tok ELSE FirstToken(t.kids[1])

(* An `or` behind it would be read as that of its default.                  *)
EndsInSelection(t) ==
    \/ t.tag = "Selection"
    \/ t.tag \in {"OrDefault", "Apply"} /\ EndsInSelection(Last(t.kids))

MayFollow(t, u) == ~(EndsInSelection(t) /\ FirstToken(u) = "or")

(* No formal has the name of another one or of the whole pattern.           *)
DistinctFormals(param) ==
    LET set  == IF param.tag = "Context" THEN CHOOSE h \in {param.kids[1], param.kids[3]} : ~IsLeaf(h) ELSE param
        name == IF param.tag = "Context"
                THEN {h.tok : h \in {g \in {param.kids[1], param.kids[3]} : IsLeaf(g)}} ELSE {}
        attrs == SelectSeq(set.kids, LAMBDA x : ~IsLeaf(x))
        names == [i \in DOMAIN attrs |-> attrs[i].kids[1].tok]
    IN  Cardinality(ToSet(names) \cup name) = Len(names) + Cardinality(name)

IsPlus(t) == t.tag = "Operation" /\ t.kids[2].tok = "+"

RECURSIVE Legal(_), Chain(_)
(* The operands of a `+` chain behind the first one.                        *)
Chain(t) ==
    IF IsPlus(t) THEN Chain(t.kids[1]) /\ Strength(t.kids[3]) > Precedence["+"] /\ Legal(t.kids[3])
    ELSE Strength(t) > Precedence["+"] /\ Legal(t)

Legal(t) ==
    LET k == t.kids
        all == \A i \in DOMAIN k : Legal(k[i])
        least(i, n) == Strength(k[i]) >= n
    IN CASE t.tag = "Apply" ->
              least(1, 17) /\ least(2, Term) /\ MayFollow(k[1], k[2]) /\ FirstToken(k[2]) # "let" /\ all
         [] t.tag = "List" ->
              /\ \A i \in 2..(Len(k) - 1) : least(i, Term) /\ MayFollow(k[i], k[i + 1])
              /\ all
         [] t.tag \in {"Selection", "OrDefault"} ->
              /\ least(1, Term) /\ k[1].tag \notin {"Selection", "OrDefault"}
              /\ t.tag = "OrDefault" => least(4, Term) /\ FirstToken(k[4]) # "let"
              /\ all
         [] t.tag = "HasAttr" -> least(1, 17) /\ all
         [] t.tag = "Prefix"  -> least(2, 15) /\ all
         [] t.tag = "Lambda"  -> (IsLeaf(k[1]) => k[1].tok # "or") /\ (~IsLeaf(k[1]) => DistinctFormals(k[1])) /\ all
         [] t.tag = "Inherit" ->
              /\ \A i \in DOMAIN k : k[i].tag = "Interpol" =>
                    k[i].kids[2].tok = "string" \/ k[i].kids[2].tag = "Interpolated"
              /\ all
         [] t.tag = "Operation" ->
              LET op == k[2].tok  n == Precedence[op] IN
              IF op = "+" THEN least(1, n) /\ ~IsPlus(k[1]) /\ Legal(k[1]) /\ Chain(k[3])
              ELSE /\ least(1, IF op \in RightAssociative \cup Comparisons THEN n + 1 ELSE n)
                   /\ least(3, IF op \in RightAssociative THEN n ELSE n + 1)
                   /\ all
         [] OTHER -> all
=============================================================================

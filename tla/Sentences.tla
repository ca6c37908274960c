----------------------------- MODULE Sentences ------------------------------
(***************************************************************************)
(* The parser given sentences that grow by a token as long as it does not  *)
(* stop before their end, and, the other way round, the sentences of trees *)
(* that grow by a construct.                                               *)
(***************************************************************************)
EXTENDS LegalSyntax

CONSTANTS Starts,      \* [words, begin, most]: sentences over some words, how they begin, their length
          Reading(_),  \* the parser: ParseFile of Grammar
          Growths(_),  \* the trees with one construct around a given one
          Seeds,       \* the trees to begin with
          MaxDepth     \* bound on the constructs around a seed

ASSUME SentencesAssumption == MaxDepth \in Nat

VARIABLES start,     \* one of Starts, <<>> while trees grow
          sentence,  \* the tokens of a file
          reading,   \* what the parser makes of them
          tree,      \* the tree they are meant as, in a sequence: unknown while sentences grow
          depth      \* constructs around the seed

vars == <<start, sentence, reading, tree, depth>>

(* The tokens of a tree, the commas behind its last formals there or not.   *)
Words(t, commas) ==
    LET tree_ == Numbered(t, 0)
        kept  == SelectSeq(TokensOf(tree_), LAMBDA l : commas \/ l.k \notin OptionalCommas(tree_))
    IN  [i \in DOMAIN kept |-> kept[i].tok]

Init ==
    /\ depth = 0
    /\ \/ \E s \in Starts : start = <<s>> /\ sentence = s.begin /\ tree = <<>>
       \/ \E t \in Seeds : start = <<>> /\ sentence = Words(t, TRUE) /\ tree = <<t>>
    /\ reading = Reading(sentence)

(* The parser stops at the last token or behind it: a next token may help.  *)
ReadToTheEnd == reading.p >= Len(sentence)

AddToken ==
    /\ start # <<>> /\ ReadToTheEnd /\ Len(sentence) < start[1].most
    /\ \E tok \in start[1].words :
          sentence' = Append(sentence, tok) /\ reading' = Reading(sentence')
    /\ UNCHANGED <<start, tree, depth>>

AddConstruct ==
    /\ tree # <<>> /\ depth < MaxDepth
    /\ \E t \in Growths(tree[1]), commas \in BOOLEAN :
          tree' = <<t>> /\ sentence' = Words(t, commas) /\ reading' = Reading(sentence')
    /\ depth' = depth + 1
    /\ UNCHANGED start

Next == AddToken \/ AddConstruct

Spec == Init /\ [][Next]_vars

-----------------------------------------------------------------------------
(* Properties.                                                             *)

Accepted == reading.kind = "ok"
TheTree  == reading.trees[1]
Leaves   == SelectSeq(TokensOf(TheTree), LAMBDA l : l.k # 0)

RECURSIVE Normalized(_)
(* normalize.rs: places are left out, and presence of a comma is not        *)
(* semantic.                                                                *)
Normalized(t) ==
    LET kids == SelectSeq(t.kids, LAMBDA c : ~(t.tag \in {"Attr", "DefaultAttr"} /\ c.tok = ","))
    IN  IF IsLeaf(t) THEN [t EXCEPT !.k = 0]
        ELSE [t EXCEPT !.kids = Values([i \in DOMAIN kids |-> Normalized(kids[i])])]

(* Nothing of what the parser accepts is left out of the tree or out of     *)
(* order, though it goes back to an earlier token for braces, selections    *)
(* and `+` chains: only the comma behind `...` is skipped.                  *)
TokensKept ==
    Accepted =>
        LET kept == SelectSeq([i \in DOMAIN sentence |-> i],
                              LAMBDA i : ~(sentence[i] = "," /\ i > 1 /\ sentence[i - 1] = "..."))
        IN  Leaves = [n \in DOMAIN kept |-> [Leaf(sentence[kept[n]]) EXCEPT !.k = kept[n]]]

(* What the parser accepts is a sentence of the grammar, read as the        *)
(* grammar has it: operands bind as the table says, formals are distinct on *)
(* every path that reads them ("duplicate formal function argument"), and   *)
(* an `or` belongs to the selection in front of it.                         *)
ReadAsLegal == Accepted => Legal(TheTree)

(* Every legal tree is read from its tokens: of a brace it is found out     *)
(* in time whether it begins a parameter or a set, of an identifier whether *)
(* it is a parameter, and of an `or` whether it is a name.                  *)
LegalIsRead == tree # <<>> => Accepted /\ Normalized(TheTree) = Normalized(tree[1])
=============================================================================

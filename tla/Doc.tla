-------------------------------- MODULE Doc --------------------------------
(***************************************************************************)
(* The layout IR (src/doc/mod.rs): a document is a sequence of elements,   *)
(* an element a text, a spacing, a group of elements or an indentation     *)
(* marker.  A text's string is a sequence of letters, so that its width is *)
(* its length and concatenation keeps every letter visible.                *)
(***************************************************************************)
EXTENDS Integers, Sequences, SequencesExt, Spacing

GroupKinds == {"Regular", "Priority", "Transparent"}
TextKinds  == {"Regular", "Comment", "TrailingComment", "Trailing", "Directive"}

Text(nest, off, kind, txt) ==
    [tag |-> "text", nest |-> nest, off |-> off, kind |-> kind, txt |-> txt]
Sp(s)             == [tag |-> "spacing", sp |-> s]
Group(kind, body) == [tag |-> "group", kind |-> kind, body |-> body]
Nest(dn, doff)    == [tag |-> "nest", dn |-> dn, doff |-> doff]

IsText(e)    == e.tag = "text"
IsSpacing(e) == e.tag = "spacing"
IsGroup(e)   == e.tag = "group"
IsNest(e)    == e.tag = "nest"

TextWidth(e) == Len(e.txt)

StartsWithSpacing(doc) == doc # <<>> /\ IsSpacing(Head(doc))
EndsWithSpacing(doc)   == doc # <<>> /\ IsSpacing(Last(doc))

(* Concatenation of a sequence of documents: a chain of slices, read in    *)
(* order, is the document the slices make up.                              *)
Flat(docs) == FoldLeft(LAMBDA acc, d : acc \o d, <<>>, docs)

(* Cells of the output besides letters, which are their own positive        *)
(* numbers.                                                                 *)
Feed     == -1     \* a line feed
Blank    == 0      \* a space the document demands
SoftGap  == -2     \* a space that stands for a soft spacing laid out flat
=============================================================================

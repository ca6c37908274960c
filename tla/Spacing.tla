------------------------------ MODULE Spacing ------------------------------
(***************************************************************************)
(* The spacings of the layout IR and the rule that joins two neighbours    *)
(* (src/doc/mod.rs, `enum Spacing` and `Spacing::merge`).                  *)
(*                                                                         *)
(* The enum derives Ord from its declaration order and Newlines(n) is the  *)
(* last variant, so a spacing is represented by its rank in that order:    *)
(* 0..6 for the named variants and 7 + n for Newlines(n).                  *)
(***************************************************************************)
EXTENDS Naturals

Softbreak   == 0    \* line break or nothing (soft)
Break       == 1    \* line break or nothing
Hardspace   == 2    \* always a space
Softspace   == 3    \* line break or space (soft)
Space       == 4    \* line break or space
Hardline    == 5    \* always a line break
Emptyline   == 6    \* two line breaks
Newlines(n) == 7 + n

Spacings == Nat

IsNewlines(s) == s >= 7
Count(s)      == s - 7

(* Mutant of MergeOrdered: the larger spacing alone, line counts not added. *)
MergeToMaximum(lo, hi) == hi

(* The (lo, hi) match of `merge`, in the order of its arms. *)
MergeOrdered(lo, hi) ==
    CASE lo = Break /\ hi \in {Softspace, Hardspace} -> Space
      [] lo = Softbreak /\ hi = Hardspace            -> Softspace
      [] IsNewlines(lo) /\ IsNewlines(hi)            -> Newlines(Count(lo) + Count(hi))
      [] lo = Emptyline /\ IsNewlines(hi)            -> Newlines(Count(hi) + 2)
      [] lo = Hardspace /\ IsNewlines(hi)            -> Newlines(Count(hi))
      [] lo \notin {Emptyline, Hardspace} /\ ~IsNewlines(lo) /\ IsNewlines(hi)
                                                     -> Newlines(Count(hi) + 1)
      [] OTHER                                       -> hi

Merge(a, b) == IF a <= b THEN MergeOrdered(a, b) ELSE MergeOrdered(b, a)

-----------------------------------------------------------------------------
(* What the renderer does with a spacing (src/doc/render/layout.rs).       *)

(* Line feeds a spacing writes when it is laid out in an expanded group. *)
LineFeeds(s) ==
    CASE s \in {Break, Space, Hardline} -> 1
      [] s = Emptyline                  -> 2
      [] IsNewlines(s)                  -> Count(s)
      [] OTHER                          -> 0

(* A spacing that breaks the line in every layout. *)
BreaksAlways(s) == s \in {Hardline, Emptyline} \/ IsNewlines(s)

(* A spacing that is never laid out as nothing at all. *)
Separates(s) == s \notin {Softbreak, Break} /\ s # Newlines(0)

(* `Elem::is_hard_spacing`: rendered as it is, in every layout. *)
IsHardSpacing(s) == s = Hardspace \/ BreaksAlways(s)
=============================================================================

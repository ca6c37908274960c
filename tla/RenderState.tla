----------------------------- MODULE RenderState -----------------------------
(***************************************************************************)
(* What the layout engine promises about its mutable state (the struct     *)
(* Renderer of src/doc/render/layout.rs), whatever document it walks and   *)
(* however its width probes decide: the output only grows except by a      *)
(* rollback, a rollback gives back the very state that was saved, output   *)
(* is dropped inside a disabled region, and the indentation stack keeps    *)
(* its base entry.  A checkpoint is a full copy of the state here; the     *)
(* code saves the length of the output only, and Renderer.tla is shown to  *)
(* implement this module.                                                  *)
(***************************************************************************)
EXTENDS Integers, Sequences

CONSTANTS IndentWidth,   \* columns per indentation level
          Cells          \* what a cell of the output may hold

ASSUME IndentAssumption == IndentWidth \in Nat

VARIABLES out,       \* the cells written
          col,       \* current column, 0 at the start of a line
          indents,   \* the indentation stack, entries [indent, nest]
          didx,      \* directive markers met so far
          suppress,  \* inside a disabled region
          saved      \* stack of checkpoints

vars == <<out, col, indents, didx, suppress, saved>>

Entry(i, n) == [indent |-> i, nest |-> n]
Entries     == [indent : Nat, nest : Nat]
Base        == Entry(0, 0)

Snapshot  == [out |-> out, col |-> col, indents |-> indents,
              didx |-> didx, suppress |-> suppress]
Snapshots == [out : Seq(Cells), col : Nat, indents : Seq(Entries),
              didx : Nat, suppress : BOOLEAN]

Init ==
    /\ out = <<>> /\ col = 0 /\ indents = <<Base>>
    /\ didx = 0 /\ suppress = FALSE /\ saved = <<>>

(* Mutant of Settled: no deeper entry is popped before one is pushed. *)
SettledUnpopped(old, new) ==
    /\ new # <<>>
    /\ LET n == new[Len(new)].nest IN
       /\ n \in Nat
       /\ \E step \in {0, IndentWidth} :
            new = Append(old, Entry(old[Len(old)].indent + step, n))

(* The stack `new` is `old` settled for a text as deep as its last entry:   *)
(* deeper entries popped, and one pushed if none was left at that nesting.  *)
Settled(old, new) ==
    /\ new # <<>>
    /\ LET n == new[Len(new)].nest IN
       /\ n \in Nat
       /\ \E k \in 1..Len(old), step \in {0, IndentWidth} :
            /\ old[k].nest <= n
            /\ \A j \in (k + 1)..Len(old) : old[j].nest > n
            /\ new = IF old[k].nest = n THEN SubSeq(old, 1, k)
                     ELSE Append(SubSeq(old, 1, k), Entry(old[k].indent + step, n))

(* `old` is still in front of `new`: cutting `new` to its length gives it.   *)
Extended(old, new) == Len(old) <= Len(new) /\ \A i \in 1..Len(old) : new[i] = old[i]

(* Mutant of Written: a failed probe cuts too much. *)
WrittenOver ==
    /\ ~suppress /\ out' \in Seq(Cells) /\ col' \in Nat
    /\ indents' = indents \/ Settled(indents, indents')
    /\ UNCHANGED <<didx, suppress>>

(* A text, a spacing or a compact group is written. *)
Written ==
    /\ ~suppress
    /\ out' \in Seq(Cells) /\ Extended(out, out')
    /\ col' \in Nat
    /\ indents' = indents \/ Settled(indents, indents')
    /\ UNCHANGED <<didx, suppress>>

Write == Written /\ UNCHANGED saved

(* A directive marker: it opens a region, closes one, or is a comment.      *)
Begin ==
    /\ out' \in Seq(Cells) /\ Extended(out, out')
    /\ col' = 1 /\ suppress' = TRUE /\ didx' = didx + 1
    /\ UNCHANGED <<indents, saved>>

End == suppress' = FALSE /\ didx' = didx + 1 /\ UNCHANGED <<out, col, indents, saved>>

InertMarker ==
    /\ didx' = didx + 1
    /\ \/ suppress /\ UNCHANGED <<out, col, indents>>
       \/ /\ ~suppress
          /\ out' \in Seq(Cells) /\ Extended(out, out')
          /\ col' \in Nat
          /\ Settled(indents, indents')
    /\ UNCHANGED <<suppress, saved>>

(* The trial of a group's Priority children. *)
Checkpoint == saved' = Append(saved, Snapshot) /\ UNCHANGED <<out, col, indents, didx, suppress>>

Top == saved[Len(saved)]

Restore ==
    /\ saved # <<>>
    /\ out' = Top.out /\ col' = Top.col /\ indents' = Top.indents
    /\ didx' = Top.didx /\ suppress' = Top.suppress
    /\ UNCHANGED saved

(* The trial ends, writing its last part or falling back to the saved state. *)
Discard ==
    /\ saved # <<>>
    /\ saved' = SubSeq(saved, 1, Len(saved) - 1)
    /\ Written \/ UNCHANGED <<out, col, indents, didx, suppress>>

Next == Write \/ Begin \/ End \/ InertMarker \/ Checkpoint \/ Restore \/ Discard

Spec == Init /\ [][Next]_vars

-----------------------------------------------------------------------------
StackOK(s) ==
    /\ s # <<>> /\ s[1] = Base
    /\ \A i \in 1..(Len(s) - 1) : /\ s[i].nest < s[i + 1].nest
                                   /\ s[i].indent <= s[i + 1].indent

TypeOK ==
    /\ out \in Seq(Cells) /\ col \in Nat /\ indents \in Seq(Entries)
    /\ didx \in Nat /\ suppress \in BOOLEAN /\ saved \in Seq(Snapshots)

(* "Indentation stack; never empty": its base entry is never popped, and    *)
(* nesting strictly increases from entry to entry, so a text finds exactly  *)
(* one entry to settle on.  A rollback gives back a stack just as good.     *)
IndentStackOK ==
    /\ StackOK(indents)
    /\ \A i \in 1..Len(saved) : StackOK(saved[i].indents)

(* What was written when a checkpoint was taken is still in front of the    *)
(* output, and no marker met since then is forgotten: truncating the output *)
(* to the saved length gives the saved output back.                         *)
CheckpointsArePrefixes ==
    \A i \in 1..Len(saved) :
        Extended(saved[i].out, out) /\ saved[i].didx <= didx

(* A nested trial starts from what the outer one has written so far. *)
CheckpointsNest ==
    \A i, j \in 1..Len(saved) :
        i <= j => Extended(saved[i].out, saved[j].out) /\ saved[i].didx <= saved[j].didx

(* Together they are inductive. *)
IInv == TypeOK /\ IndentStackOK /\ CheckpointsArePrefixes /\ CheckpointsNest
=============================================================================

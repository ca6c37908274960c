------------------------------ MODULE Measure ------------------------------
(***************************************************************************)
(* The width probes of the layout engine (src/doc/render/fits.rs).  A      *)
(* chain of slices is the document it makes up; a group is measured        *)
(* through its leaves.  Output is a sequence of cells: a letter is its own *)
(* positive number.                                                        *)
(***************************************************************************)
EXTENDS Doc

CONSTANT LeavesOf(_)   \* the elements of a document with its groups opened up: Leaves of Fixup

NoSpacing == -1    \* no spacing pending

Join(pending, s) == IF pending = NoSpacing THEN s ELSE Merge(pending, s)

-----------------------------------------------------------------------------
(* fits_impl: lay `chain` out on one line within `budget` columns.  The     *)
(* trailing-comment rule compares the next line's indentation with the      *)
(* column reached so far (`delta`).                                         *)

FitFail(st) == [st EXCEPT !.ok = FALSE]

Spend(st, width, cells) ==
    LET s == [st EXCEPT !.budget = @ - width, !.delta = @ - width,
                        !.width = @ + width, !.out = @ \o cells]
    IN IF s.budget < 0 THEN FitFail(s) ELSE s

Uncounted(st, width, cells) == [st EXCEPT !.width = @ + width, !.out = @ \o cells]

(* Mutant of FitPending: a forced break is measured as a space. *)
FitPendingSoft(st) ==
    LET s == [st EXCEPT !.pending = NoSpacing] IN
    IF st.pending \in {NoSpacing, Softbreak, Break} THEN s ELSE Spend(s, 1, <<SoftGap>>)

FitPending(st) ==
    LET s == [st EXCEPT !.pending = NoSpacing] IN
    CASE st.pending \in {NoSpacing, Softbreak, Break} -> s
      [] st.pending \in {Softspace, Space}            -> Spend(s, 1, <<SoftGap>>)
      [] st.pending = Hardspace                       -> Spend(s, 1, <<Blank>>)
      [] OTHER                                        -> FitFail(s)

FitText(st, e) ==
    CASE e.kind = "Regular"  -> Spend(st, TextWidth(e), e.txt)
      [] e.kind = "Comment"  -> Uncounted(st, TextWidth(e), e.txt)
      [] e.kind = "TrailingComment" ->
           IF st.delta = 0 THEN Uncounted(st, TextWidth(e) + 1, <<Blank>> \o e.txt)
                           ELSE Uncounted(st, TextWidth(e), e.txt)
      [] e.kind = "Trailing"  -> st
      [] e.kind = "Directive" -> FitFail(st)

FitStep(st, e) ==
    CASE ~st.ok       -> st
      [] st.ok /\ IsSpacing(e) -> [st EXCEPT !.pending = Join(@, e.sp)]
      [] st.ok /\ IsText(e) -> LET s == FitPending(st) IN IF s.ok THEN FitText(s, e) ELSE s

Fits(delta, budget, chain) ==
    LET leaves == LeavesOf(chain)
        start  == [ok |-> budget >= 0, delta |-> delta, budget |-> budget,
                   width |-> 0, pending |-> NoSpacing, out |-> <<>>]
        before[i \in 1..(Len(leaves) + 1)] ==
            IF i = 1 THEN start ELSE FitStep(before[i - 1], leaves[i - 1])
        end    == before[Len(leaves) + 1]
    IN IF end.ok THEN FitPending(end) ELSE end

-----------------------------------------------------------------------------
(* first_line_width: columns up to the first spacing that may break the line. *)
LineStep(st, e) ==
    CASE st.stop -> st
      [] ~st.stop /\ IsSpacing(e) -> [st EXCEPT !.pending = Join(@, e.sp)]
      [] ~st.stop /\ IsText(e) ->
           IF st.pending \notin {NoSpacing, Hardspace} THEN [st EXCEPT !.stop = TRUE]
           ELSE [st EXCEPT !.pending = NoSpacing,
                           !.width = @ + (IF st.pending = Hardspace THEN 1 ELSE 0)
                             + (IF e.kind \in {"Regular", "Trailing"} THEN TextWidth(e) ELSE 0)]

FirstLineWidth(chain) ==
    LET leaves == LeavesOf(chain)
        before[i \in 1..(Len(leaves) + 1)] ==
            IF i = 1 THEN [stop |-> FALSE, width |-> 0, pending |-> NoSpacing]
            ELSE LineStep(before[i - 1], leaves[i - 1])
        end    == before[Len(leaves) + 1]
    IN IF ~end.stop /\ end.pending = Hardspace THEN end.width + 1 ELSE end.width

=============================================================================

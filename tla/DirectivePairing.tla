-------------------------- MODULE DirectivePairing --------------------------
(***************************************************************************)
(* Which `/*nixfmt:disable*/` opens a region and which `/*nixfmt:enable*/` *)
(* closes it (`Lexer::take_directive_regions`, src/lexer/mod.rs).  One     *)
(* step is one round of the loop over the recorded markers, the last step  *)
(* what the code does behind the loop.                                     *)
(***************************************************************************)
EXTENDS Integers, Sequences

VARIABLES offsets,   \* the markers in source order: [at, disable, depth]
          n,         \* the marker under the loop
          open,      \* index of the disable that waits for its enable, 0 if none
          actions    \* what the renderer will do at each marker

pvars == <<offsets, n, open, actions>>

Marks == [at : Nat, disable : BOOLEAN, depth : Nat]
Actions == {"Begin", "End", "Inert"}

Start == n = 1 /\ open = 0 /\ actions = [i \in 1..Len(offsets) |-> "Inert"]

(* Whatever list of markers the lexer has recorded. *)
PairInit == offsets \in Seq(Marks) /\ Start

(* Mutant of Closes: the depth is not compared. *)
ClosesAtAnyDepth == ~offsets[n].disable /\ open # 0

Opens  == offsets[n].disable /\ open = 0
Closes == ~offsets[n].disable /\ open # 0 /\ offsets[n].depth = offsets[open].depth

OpenRegion ==
    /\ n <= Len(offsets) /\ Opens
    /\ open' = n /\ n' = n + 1
    /\ UNCHANGED <<offsets, actions>>

CloseRegion ==
    /\ n <= Len(offsets) /\ Closes
    /\ actions' = [actions EXCEPT ![open] = "Begin", ![n] = "End"]
    /\ open' = 0 /\ n' = n + 1
    /\ UNCHANGED offsets

(* Nested disable, lone enable, enable at another depth. *)
LeaveInert ==
    /\ n <= Len(offsets) /\ ~Opens /\ ~Closes
    /\ n' = n + 1
    /\ UNCHANGED <<offsets, open, actions>>

(* An unclosed disable outside of every `${}` reaches to the end of the file. *)
ReachesEnd == open # 0 /\ offsets[open].depth = 0

EndOfFile ==
    /\ n = Len(offsets) + 1
    /\ actions' = IF ReachesEnd THEN [actions EXCEPT ![open] = "Begin"] ELSE actions
    /\ open' = 0 /\ n' = n + 1
    /\ UNCHANGED offsets

Paired == n = Len(offsets) + 2

Pair == OpenRegion \/ CloseRegion \/ LeaveInert \/ EndOfFile

PairSpec == PairInit /\ [][Pair]_pvars

-----------------------------------------------------------------------------
PairTypeOK ==
    /\ offsets \in Seq(Marks) /\ n \in 1..(Len(offsets) + 2) /\ open \in 0..Len(offsets)
    /\ actions \in [1..Len(offsets) -> Actions]

(* Everything strictly between two markers passes through as a comment. *)
InertBetween(i, j) == \A k \in DOMAIN actions : i < k /\ k < j => actions[k] = "Inert"

RegionIs(b, e) ==
    /\ b < e /\ actions[b] = "Begin" /\ actions[e] = "End"
    /\ offsets[b].disable /\ ~offsets[e].disable
    /\ offsets[b].depth = offsets[e].depth
    /\ InertBetween(b, e)

(* The renderer replays the actions with a single flag: it splices the      *)
(* source at a Begin and drops output until the next End.  That is right    *)
(* only if regions follow one another without overlap, each runs from a     *)
(* disable to an enable at its own `${}` depth, and one left open stands    *)
(* outside of every `${}` with no live marker behind it.                    *)
RegionsWellFormed ==
    /\ \A e \in DOMAIN actions : actions[e] = "End" => \E b \in DOMAIN actions : RegionIs(b, e)
    /\ \A b \in DOMAIN actions : actions[b] = "Begin" =>
         \/ \E e \in DOMAIN actions : RegionIs(b, e)
         \/ /\ Paired /\ offsets[b].depth = 0 /\ offsets[b].disable
            /\ InertBetween(b, Len(offsets) + 1)

(* Nothing is decided from the open disable on, and that marker is a        *)
(* disable which has been passed: what makes RegionsWellFormed inductive.   *)
Undecided == IF open = 0 THEN n ELSE open

OpenIsPending ==
    /\ open # 0 => open < n /\ n <= Len(offsets) + 1 /\ offsets[open].disable
    /\ \A k \in DOMAIN actions : k >= Undecided => actions[k] = "Inert"

PInv == PairTypeOK /\ OpenIsPending /\ RegionsWellFormed
=============================================================================

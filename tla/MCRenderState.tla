---------------------------- MODULE MCRenderState ----------------------------
EXTENDS RenderState, SequencesExt

CONSTANTS MaxOut,     \* cells written
          MaxMarkers, \* directive markers met
          MaxSaved    \* trials nested in one another

MCEntries == [indent : 0..IndentWidth, nest : 0..1]

(* The steps whose new output, column and indentation stack stay small. *)
Small ==
    \E o \in BoundedSeq(Cells, MaxOut), c \in 0..1, s \in BoundedSeq(MCEntries, 2) :
        out' = o /\ col' = c /\ indents' = s

Bounded == Len(saved') <= MaxSaved /\ didx' <= MaxMarkers

MCNext ==
    \/ Small /\ Write /\ Bounded
    \/ Small /\ Begin /\ Bounded
    \/ End /\ Bounded
    \/ Small /\ InertMarker /\ Bounded
    \/ Checkpoint /\ Bounded
    \/ Restore
    \/ Small /\ Discard

MCSpec == Init /\ [][MCNext]_vars
=============================================================================

---------------------------- MODULE MCMergetool -----------------------------
EXTENDS Mergetool

(* Versions: formatted or not, unstable, unparsable.  Merges: two that parse*)
(* and one that does not; conflict markers parse only within a string.      *)
MCContents  == {"raw", "neat", "odd", "broken", "rawMerge", "markedString"}
MCFormatted == [c \in {"raw", "neat", "odd", "rawMerge", "markedString"} |->
                  CASE c = "odd" -> "raw" [] c = "markedString" -> "markedString" [] OTHER -> "neat"]
MCClean       == {"neat", "rawMerge", "broken"}
MCConflicting == {"broken", "markedString"}
=============================================================================

------------------------------ MODULE MCChunker ------------------------------
(***************************************************************************)
(* An instance of Chunker for TLC: blocks below the minimum, blocks that   *)
(* reach it, that pass the target and leave room for little else, and that *)
(* exceed the maximum.  The target is so far above the minimum that a last *)
(* core may be small without being merged.  Titles are short, as long as a *)
(* small paragraph, or too large for a chunk.                              *)
(***************************************************************************)
EXTENDS Chunker

CONSTANTS brief, wide, huge

MCTitles == {brief, wide, huge}
MCTitleSize == [title \in MCTitles |-> IF title = brief THEN 1
                                       ELSE IF title = wide THEN 3 ELSE 9]
MCSizes == {1, 2, 3, 7, 10}
=============================================================================

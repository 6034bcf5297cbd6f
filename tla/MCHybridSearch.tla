--------------------------- MODULE MCHybridSearch ---------------------------
(***************************************************************************)
(* Two builds of three chunks: c1 keeps its text and is closed to viewers  *)
(* in the second build, where c2 is replaced by c3.  A query names no      *)
(* identifier, or one that only the new chunk mentions.                    *)
(***************************************************************************)
EXTENDS HybridSearch, TLC

CONSTANTS c1, c2, c3, viewer

MCCorpus == <<(c1 :> {viewer}) @@ (c2 :> {}), (c1 :> {}) @@ (c3 :> {viewer})>>

Plain == [names |-> FALSE, named |-> {}, broad |-> FALSE]

MCQueries == {Plain, [Plain EXCEPT !.names = TRUE, !.named = {c3}],
              [Plain EXCEPT !.broad = TRUE]}

=============================================================================

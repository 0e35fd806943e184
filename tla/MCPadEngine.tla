---------------------------- MODULE MCPadEngine ----------------------------
(***************************************************************************)
(* Instances of the key engine for TLC.                                    *)
(***************************************************************************)
EXTENDS PadRefinement, TLC

CONSTANTS s1, s2, k1, k2

\* Every session is a Stream session with cache entries of two bytes.
CacheOfTwo == [s \in Sessions |-> 2]
\* A Stream session next to a Block or File session, which has no cache.
OneCache == [s \in Sessions |-> IF s = s1 THEN 2 ELSE 0]

Symmetry == Permutations(Sessions)

=============================================================================

------------------------- MODULE MCAllForksFinality -------------------------
(* Model-checking instance of AllForksFinality: two interchangeable       *)
(* sources.                                                                *)
EXTENDS AllForksFinality, TLC

CONSTANTS s1, s2

MCSources == {s1, s2}

\* Sources are model values that no step tells apart.
SourceSymmetry == Permutations(MCSources)

=============================================================================

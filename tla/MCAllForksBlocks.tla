--------------------------- MODULE MCAllForksBlocks ---------------------------
(* Universes of blocks on top of the genesis block G. Forks4 is the chain *)
(* a1 beside the chain b1 <- b2; Forks5 adds a2 on top of a1.             *)
EXTENDS AllForksBlocks, TLC

CONSTANTS s1, s2, G, a1, a2, b1, b2

MCSources == {s1, s2}
Forks4Blocks == {G, a1, b1, b2}
Forks4Parent == (G :> G) @@ (a1 :> G) @@ (b1 :> G) @@ (b2 :> b1)
Forks4Height == (G :> 0) @@ (a1 :> 1) @@ (b1 :> 1) @@ (b2 :> 2)
Forks5Blocks == Forks4Blocks \cup {a2}
Forks5Parent == Forks4Parent @@ (a2 :> a1)
Forks5Height == Forks4Height @@ (a2 :> 2)

SourceSymmetry == Permutations(MCSources)
=============================================================================

------------------------------ MODULE BlockTree ------------------------------
(***************************************************************************)
(* What the non-finalized block tree promises its users (spec 3, the      *)
(* external blocks_tree): the tree strictly descends from the latest      *)
(* finalized block, a block is inserted only after its parent, a rejected *)
(* block (banned, or whose header fails verification) is never inserted,  *)
(* and finalizing a block of the tree discards every block that does not  *)
(* descend from it.                                                        *)
(***************************************************************************)
EXTENDS Naturals

CONSTANTS
  Blocks,    \* every block that can exist, Genesis included
  Genesis,   \* the first finalized block
  Parent,    \* Parent[b]: the parent of b
  Rejected   \* blocks that must never be inserted

VARIABLES
  finalized,  \* the latest finalized block
  tree        \* the non-finalized blocks

vars == <<finalized, tree>>

\* a is a strict ancestor of b.
RECURSIVE Above(_, _)
Above(a, b) == b # Genesis /\ (Parent[b] = a \/ Above(a, Parent[b]))

Init ==
  /\ finalized = Genesis
  /\ tree = {}

\* A verified header joins the tree under its parent.
Insert(b) ==
  /\ b \notin tree \cup {finalized} \cup Rejected
  /\ Parent[b] \in tree \cup {finalized}
  /\ tree' = tree \cup {b}
  /\ UNCHANGED finalized

\* A block of the tree becomes finalized; only its descendants stay.
Finalize(b) ==
  /\ b \in tree
  /\ finalized' = b
  /\ tree' = {c \in tree : Above(b, c)}

Next == \E b \in Blocks : Insert(b) \/ Finalize(b)

Spec == Init /\ [][Next]_vars

=============================================================================

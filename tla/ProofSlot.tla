------------------------------ MODULE ProofSlot ------------------------------
(***************************************************************************)
(* SourcePendingJustificationProofs of src/sync/all_forks.rs: the bounded *)
(* per-source store of finality proofs. A slot is a sequence of at most   *)
(* two stored proofs ordered by target height: <<>> is None, <<p>> is One, *)
(* <<low, high>> is Two.                                                   *)
(*                                                                         *)
(* A stored proof is a GRANDPA commit or a non-empty list of               *)
(* justifications of one block (FinalityProofs); only its target height,  *)
(* its kind and, for justifications, the length of the list matter to the *)
(* slot. A proof handed out by take_one (FinalityProof) is one commit or  *)
(* one justification.                                                      *)
(***************************************************************************)
EXTENDS Naturals, Sequences

CONSTANTS
  MaxTarget,  \* target heights are 1..MaxTarget
  MaxJust     \* most justifications carried by one block

Targets == 1..MaxTarget

\* FinalityProofs: what a slot stores.
StoredProof == [kind : {"commit"}, t : Targets, n : {1}]
               \cup [kind : {"just"}, t : Targets, n : 1..MaxJust]

\* FinalityProof: what take_one hands out.
TakenProof == [kind : {"commit", "just"}, t : Targets]

\* Every value a slot can hold: None, One, or Two with low < high.
Slots == {<<>>} \cup {<<p>> : p \in StoredProof}
         \cup {<<l, h>> \in StoredProof \X StoredProof : l.t < h.t}

IsNone(slot) == slot = <<>>

\* Mutant: One keeps the newest proof whatever its target.
InsertKeepNewest(slot, p) ==
  CASE Len(slot) = 0             -> <<p>>
    [] Len(slot) = 1             -> <<p>>
    [] p.t >= slot[2].t          -> <<slot[1], p>>
    [] p.t <= slot[1].t          -> <<p, slot[2]>>
    [] OTHER                     -> slot

\* insert: keep the lowest and the highest target; a proof whose target is
\* strictly between the two kept ones is dropped, one that equals a kept
\* target replaces it.
Insert(slot, p) ==
  CASE Len(slot) = 0                      -> <<p>>
    [] Len(slot) = 1 /\ slot[1].t < p.t   -> <<slot[1], p>>
    [] Len(slot) = 1 /\ slot[1].t > p.t   -> <<p, slot[1]>>
    [] Len(slot) = 1                      -> <<p>>
    [] p.t >= slot[2].t                   -> <<slot[1], p>>
    [] p.t <= slot[1].t                   -> <<p, slot[2]>>
    [] OTHER                              -> slot

\* The proof take_one hands out: the high one (or the only one), a whole
\* commit or the last justification of its list.
Taken(slot) == [kind |-> slot[Len(slot)].kind, t |-> slot[Len(slot)].t]

\* take_one on a non-empty slot: what remains. A commit, or a list of one
\* justification, leaves; otherwise one justification is popped from it.
TakeOneRest(slot) ==
  LET top == slot[Len(slot)] IN
  IF top.kind = "commit" \/ top.n = 1
  THEN SubSeq(slot, 1, Len(slot) - 1)
  ELSE [slot EXCEPT ![Len(slot)].n = @ - 1]

\* Mutant: merge inserts only the low proof of other.
MergeLowOnly(slot, other) ==
  CASE Len(other) = 0 -> slot
    [] OTHER          -> Insert(slot, other[1])

\* merge: insert the proofs of other, the high one first.
Merge(slot, other) ==
  CASE Len(other) = 0 -> slot
    [] Len(other) = 1 -> Insert(slot, other[1])
    [] OTHER          -> Insert(Insert(slot, other[2]), other[1])

=============================================================================

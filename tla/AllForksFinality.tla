--------------------------- MODULE AllForksFinality ---------------------------
(***************************************************************************)
(* The finality-proof pipeline of AllForksSync (src/sync/all_forks.rs):   *)
(* each source's unverified and pending proof slots, the blocks waiting   *)
(* for header verification, and the non-finalized tree, with the calls    *)
(* that move proofs between them: grandpa_commit_message, the             *)
(* justifications of AddBlockVacant::insert, process_one with             *)
(* FinalityProofVerify::perform or cancel, and HeaderVerify::perform.     *)
(*                                                                         *)
(* Sources are honest: every block is on one chain, every header verifies *)
(* and every proof is genuine, so a proof fails only when the tree cannot *)
(* check it yet. The tree is the chain finalized..known; a block waiting  *)
(* in the disjoint set is a height above known. A FinalityProofVerify or  *)
(* HeaderVerify token owns the state until perform or cancel, so          *)
(* process_one and its continuation are one step.                          *)
(***************************************************************************)
EXTENDS ProofSlot, FiniteSets

CONSTANTS
  Sources,    \* SourceId of the sources (model values)
  MaxHeight   \* highest block number

ASSUME MaxHeight <= MaxTarget

Heights == 0..MaxHeight
Blocks  == 1..MaxHeight

VARIABLES
  unverified,  \* Source::unverified_finality_proofs
  pending,     \* Source::pending_finality_proofs
  finalized,   \* height of the finalized block of the tree
  known,       \* height of the best block of the tree
  disjoint,    \* heights of the blocks waiting for header verification
  event,       \* outcome of the last step
  offers       \* ghost: per source and slot, what the slot was offered

vars == <<unverified, pending, finalized, known, disjoint, event, offers>>

SlotKinds == {"unverified", "pending"}

SlotOf(s, k) == IF k = "unverified" THEN unverified[s] ELSE pending[s]

\* Ghost bookkeeping of one slot across a step from old to new in which the
\* targets added were inserted or merged into it: the targets offered since
\* the slot was last None, and those offered since take_one last removed
\* its high proof.
NoOffer == [offered |-> {}, sinceTake |-> {}]

Track(g, old, new, added) ==
  [offered   |-> IF IsNone(new) THEN {}
                 ELSE IF IsNone(old) THEN added ELSE g.offered \cup added,
   sinceTake |-> IF IsNone(new) \/ Len(new) < Len(old) THEN {}
                 ELSE g.sinceTake \cup added]

\* The ghost step: addU[s] and addP[s] are the targets offered to the
\* unverified and pending slots of s.
Offer(addU, addP) ==
  offers' = [s \in Sources |->
               [unverified |-> Track(offers[s].unverified, unverified[s], unverified'[s], addU[s]),
                pending    |-> Track(offers[s].pending, pending[s], pending'[s], addP[s])]]

NoAdd == [s \in Sources |-> {}]

AddTo(s, T) == [x \in Sources |-> IF x = s THEN T ELSE {}]

NoEvent == [kind |-> "none", t |-> 0]

Init ==
  /\ unverified = [s \in Sources |-> <<>>]
  /\ pending = [s \in Sources |-> <<>>]
  /\ finalized = 0
  /\ known = 0
  /\ disjoint = {}
  /\ event = NoEvent
  /\ offers = [s \in Sources |-> [unverified |-> NoOffer, pending |-> NoOffer]]

CommitProof(t) == [kind |-> "commit", t |-> t, n |-> 1]

\* grandpa_commit_message: verified at once if its target is in the tree,
\* silently accepted at or below the finalized block, stored in the
\* source's pending slot when the target is not known yet.
GrandpaCommitMessage(s, t) ==
  /\ \/ /\ t <= finalized
        /\ event' = [kind |-> "already_finalized", t |-> t]
        /\ UNCHANGED <<pending, finalized>>
     \/ /\ finalized < t /\ t <= known
        /\ finalized' = t
        /\ event' = [kind |-> "finalized", t |-> t]
        /\ UNCHANGED pending
     \/ /\ t > known
        /\ pending' = [pending EXCEPT ![s] = Insert(@, CommitProof(t))]
        /\ event' = [kind |-> "commit_pending", t |-> t]
        /\ UNCHANGED finalized
  /\ UNCHANGED <<unverified, known, disjoint>>
  /\ Offer(NoAdd, AddTo(s, IF t > known THEN {t} ELSE {}))

\* FinishAncestrySearch::add_block yields AddBlock::UnknownBlock: the block
\* is above the finalized one, not in the tree and not already pending.
IsVacant(h) == h > known /\ h \notin disjoint

\* FinishAncestrySearch::add_block of a block that is neither in the tree
\* nor pending, then AddBlockVacant::insert: the block joins the disjoint
\* set and its justifications, if any, go to the unverified slot of the
\* source that sent it. (A block already in the tree or pending drops its
\* justifications: no state change.)
AddBlockVacant(s, h, n) ==
  /\ IsVacant(h)
  /\ disjoint' = disjoint \cup {h}
  /\ unverified' = IF n = 0 THEN unverified
                   ELSE [unverified EXCEPT ![s] = Insert(@, [kind |-> "just", t |-> h, n |-> n])]
  /\ event' = NoEvent
  /\ UNCHANGED <<pending, finalized, known>>
  /\ Offer(AddTo(s, IF n = 0 THEN {} ELSE {h}), NoAdd)

\* Mutant: a justification whose target is unknown is parked in the
\* pending slot like a commit.
PerformOutcomeJustificationPending(s, p) ==
  \/ /\ p.t <= finalized
     /\ event' = [kind |-> "already_finalized", t |-> p.t]
     /\ UNCHANGED <<pending, finalized>>
  \/ /\ finalized < p.t /\ p.t <= known
     /\ finalized' = p.t
     /\ event' = [kind |-> "finalized", t |-> p.t]
     /\ UNCHANGED pending
  \/ /\ p.t > known
     /\ pending' = [pending EXCEPT ![s] = Insert(@, [kind |-> p.kind, t |-> p.t, n |-> 1])]
     /\ event' = [kind |-> "commit_pending", t |-> p.t]
     /\ UNCHANGED finalized

\* The outcome of FinalityProofVerify::perform on proof p taken from s.
PerformOutcome(s, p) ==
  \/ /\ p.t <= finalized
     /\ event' = [kind |-> "already_finalized", t |-> p.t]
     /\ UNCHANGED <<pending, finalized>>
  \/ /\ finalized < p.t /\ p.t <= known
     /\ finalized' = p.t
     /\ event' = [kind |-> "finalized", t |-> p.t]
     /\ UNCHANGED pending
  \/ /\ p.t > known /\ p.kind = "commit"
     /\ pending' = [pending EXCEPT ![s] = Insert(@, CommitProof(p.t))]
     /\ event' = [kind |-> "commit_pending", t |-> p.t]
     /\ UNCHANGED finalized
  \/ /\ p.t > known /\ p.kind = "just"
     /\ event' = [kind |-> "justification_error", t |-> p.t]
     /\ UNCHANGED <<pending, finalized>>

\* process_one when a source has unverified proofs: take_one, then perform.
FinalityProofVerify(s) ==
  /\ ~IsNone(unverified[s])
  /\ unverified' = [unverified EXCEPT ![s] = TakeOneRest(@)]
  /\ PerformOutcome(s, Taken(unverified[s]))
  /\ UNCHANGED <<known, disjoint>>
  /\ LET p == Taken(unverified[s]) IN
     Offer(NoAdd, AddTo(s, IF p.t > known /\ p.kind = "commit" THEN {p.t} ELSE {}))

\* process_one when a source has unverified proofs: take_one, then the
\* caller cancels the FinalityProofVerify.
FinalityProofCancel(s) ==
  /\ ~IsNone(unverified[s])
  /\ unverified' = [unverified EXCEPT ![s] = TakeOneRest(@)]
  /\ event' = [kind |-> "cancelled", t |-> Taken(unverified[s]).t]
  /\ UNCHANGED <<pending, finalized, known, disjoint>>
  /\ Offer(NoAdd, NoAdd)

NoUnverifiedProof == \A s \in Sources : IsNone(unverified[s])

\* Mutant: a new block in the tree does not release the pending proofs.
HeaderVerifyNoMerge ==
  /\ NoUnverifiedProof
  /\ known + 1 \in disjoint
  /\ known' = known + 1
  /\ disjoint' = disjoint \ {known + 1}
  /\ event' = [kind |-> "new_block", t |-> known + 1]
  /\ UNCHANGED <<unverified, pending, finalized>>
  /\ Offer(NoAdd, NoAdd)

\* process_one with no unverified proof and a disjoint block whose parent is
\* in the tree, then HeaderVerify::perform succeeding: the block enters the
\* tree and every source's pending proofs are merged into its unverified ones.
HeaderVerify ==
  /\ NoUnverifiedProof
  /\ known + 1 \in disjoint
  /\ known' = known + 1
  /\ disjoint' = disjoint \ {known + 1}
  /\ unverified' = [s \in Sources |-> Merge(unverified[s], pending[s])]
  /\ pending' = [s \in Sources |-> <<>>]
  /\ event' = [kind |-> "new_block", t |-> known + 1]
  /\ UNCHANGED finalized
  /\ Offer([s \in Sources |-> {pending[s][i].t : i \in 1..Len(pending[s])}], NoAdd)

Next ==
  \/ \E s \in Sources, t \in Blocks : GrandpaCommitMessage(s, t)
  \/ \E s \in Sources, h \in Blocks, n \in 0..MaxJust : AddBlockVacant(s, h, n)
  \/ \E s \in Sources : FinalityProofVerify(s)
  \/ \E s \in Sources : FinalityProofCancel(s)
  \/ HeaderVerify

Spec == Init /\ [][Next]_vars

-----------------------------------------------------------------------------

\* Slots are well formed, and only commits are ever parked in a pending
\* slot ("there's no such thing as a justification that can't be verified
\* yet").
TypeOK ==
  /\ unverified \in [Sources -> Slots]
  /\ pending \in [Sources -> Slots]
  /\ \A x \in Sources : \A i \in 1..Len(pending[x]) : pending[x][i].kind = "commit"
  /\ finalized \in Heights /\ known \in Heights /\ finalized <= known
  /\ disjoint \subseteq Blocks
  /\ \A s \in Sources, k \in SlotKinds :
        offers[s][k] \in [offered : SUBSET Targets, sinceTake : SUBSET Targets]
  /\ event \in [kind : {"none", "already_finalized", "finalized", "commit_pending",
                        "justification_error", "cancelled", "new_block"}, t : Heights]

\* A commit parked in a pending slot always targets a block the tree does
\* not have yet: the only step that grows the tree (HeaderVerify::perform)
\* moves every source's pending proofs to the unverified ones, so no
\* commit waits in pending for a block that has already arrived.
NoStrandedPendingProof ==
  \A x \in Sources : \A i \in 1..Len(pending[x]) : pending[x][i].t > known

\* "assuming the source isn't malicious, we will able to make *some*
\* progress in the finality" (Source::unverified_finality_proofs) and "there
\* is no such thing as a justification that can't be verified yet"
\* (FinalityProofVerify::perform): a genuine justification is never
\* rejected.
GenuineJustificationAccepted == event.kind # "justification_error"

\* FinalityProofVerify::cancel, "Do not actually proceed with the
\* verification": cancelling leaves the source's proofs as they were.
CancelKeepsProof ==
  [][event'.kind = "cancelled" => unverified' = unverified]_vars

\* Source::unverified_finality_proofs, "only the one with the lowest target
\* block ... are kept": through the pipeline's inserts (commits, block
\* justifications, commits parked again), take_one and the merges of
\* HeaderVerify, each non-empty slot of each source holds the lowest target
\* offered to it since it was last empty.
LowestTargetKept ==
  \A s \in Sources, k \in SlotKinds :
     ~IsNone(SlotOf(s, k)) => \A t \in offers[s][k].offered : SlotOf(s, k)[1].t <= t

\* "... and the one with the highest target block": the high proof of each
\* non-empty slot targets at least every target offered to it since
\* take_one last handed out a high proof.
HighestTargetKept ==
  \A s \in Sources, k \in SlotKinds :
     ~IsNone(SlotOf(s, k)) =>
        \A t \in offers[s][k].sinceTake : SlotOf(s, k)[Len(SlotOf(s, k))].t >= t

=============================================================================

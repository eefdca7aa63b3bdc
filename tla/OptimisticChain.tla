---------------------------- MODULE OptimisticChain ----------------------------
(***************************************************************************)
(* What the optimistic syncing engine promises its caller about its chain *)
(* (the doc comments of BlockVerification and JustificationVerification  *)
(* in src/sync/optimistic.rs): the chain is linear; NewBest extends it by  *)
(* exactly one block; Finalized finalizes the whole chain, so the best    *)
(* block becomes the finalized one; Reset goes back to "the latest        *)
(* finalized block". A finalized block is never given up. The outcome    *)
(* each call reports is part of the state, so that a Reset that does not  *)
(* go back to the finalized block is told apart from a step that changes  *)
(* nothing.                                                                *)
(***************************************************************************)
EXTENDS Naturals

VARIABLES
  finalized,  \* number of the latest finalized block
  best,       \* number of the best block
  reported    \* the outcome the last call reported

Outcomes == {"none", "new_best", "finalized", "reset"}

vars == <<finalized, best, reported>>

Init ==
  /\ finalized = 0
  /\ best = 0
  /\ reported = "none"

\* BlockVerification::NewBest: new_best_number is the previous best plus one.
NewBest ==
  /\ best' = best + 1
  /\ reported' = "new_best"
  /\ UNCHANGED finalized

\* JustificationVerification::Finalized: the chain is emptied into the
\* finalized block.
Finalized ==
  /\ finalized < best
  /\ finalized' = best
  /\ reported' = "finalized"
  /\ UNCHANGED best

\* BlockVerification::Reset and JustificationVerification::Reset:
\* "resetting the chain to the latest finalized block".
Reset ==
  /\ best' = finalized
  /\ reported' = "reset"
  /\ UNCHANGED finalized

\* The calls that report no chain event (adding a source, requests and
\* their answers) leave the chain alone.
OtherCall ==
  /\ reported' = "none"
  /\ UNCHANGED <<finalized, best>>

Next == NewBest \/ Finalized \/ Reset \/ OtherCall

Spec == Init /\ [][Next]_vars

=============================================================================

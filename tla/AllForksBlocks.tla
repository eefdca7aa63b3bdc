---------------------------- MODULE AllForksBlocks ----------------------------
(***************************************************************************)
(* The block side of AllForksSync (src/sync/all_forks.rs): sources and    *)
(* what each is believed to know, the disjoint set of blocks of unknown   *)
(* ancestry (pending_blocks), ancestry searches and their responses,      *)
(* block announces, header verification, the banned-blocks list, the     *)
(* disjoint-set GC and the two ways the finalized block advances.         *)
(*                                                                         *)
(* Blocks are the nodes of a fixed tree of possible blocks (Parent,       *)
(* Height); a hash names one node, so a header whose hash matches is the *)
(* expected block. The non-finalized tree (blocks_tree) is the set tree;  *)
(* a block of it is verified. Every token (AnnouncedBlockKnown,           *)
(* AddBlockVacant, HeaderVerify, ...) borrows or owns the engine, so a    *)
(* call and the commit of its token are one step; an ancestry response is *)
(* consumed one add_block at a time while search holds the transaction.  *)
(* Finality proofs and their slots are AllForksFinality's.               *)
(*                                                                         *)
(* pending_blocks is not under src/; its operations are modelled from     *)
(* spec 4.1 and 4.2 (the definitions so marked in the project map).       *)
(***************************************************************************)
EXTENDS Naturals, FiniteSets

CONSTANTS
  Sources,             \* SourceId of the sources (model values)
  Blocks,              \* every block that can exist, Genesis included
  Genesis,             \* the finalized block AllForksSync::new starts from
  Parent,              \* Parent[b]: the parent of b (Parent[Genesis] = Genesis)
  Height,              \* Height[b]: the block number of b
  Banned,              \* Config::banned_blocks
  Invalid,             \* blocks whose header verification fails
  GCThreshold,         \* the "100" of the disjoint-set GC loops
  MaxDisjointHeaders,  \* Config::max_disjoint_headers
  MaxRequestsPerBlock, \* Config::max_requests_per_block
  Faults,              \* requests may fail and sources may answer wrongly
  Churn                \* sources may be removed

ASSUME /\ Genesis \in Blocks /\ Banned \subseteq Blocks /\ Invalid \subseteq Blocks
       /\ \A b \in Blocks \ {Genesis} : Height[b] = Height[Parent[b]] + 1
       /\ Height[Genesis] = 0 /\ Faults \in BOOLEAN /\ Churn \in BOOLEAN

VARIABLES
  finalized,    \* the finalized block of chain
  tree,         \* the non-finalized blocks of chain
  pbFinalized,  \* PendingBlocks' own finalized block height
  unverified,   \* unverified[b]: "none", "hh" (HeightHashKnown), "hk" (HeaderKnown)
  bad,          \* unverified blocks marked bad
  active,       \* sources added and not removed
  best,         \* best[s]: the best block of source s
  knows,        \* knows[s]: the blocks source s is believed to know
  requests,     \* ongoing ancestry searches, [src, target]
  search,       \* the FinishAncestrySearch being consumed, or NoSearch
  outcome       \* how the last ancestry response ended, "none" after any other step

vars == <<finalized, tree, pbFinalized, unverified, bad, active, best, knows,
          requests, search, outcome>>
blockVars == <<finalized, tree, pbFinalized>>

NoSearch == [src |-> Genesis]
Requests == [src : Sources, target : Blocks]

Init ==
  /\ finalized = Genesis
  /\ tree = {}
  /\ pbFinalized = Height[Genesis]
  /\ unverified = [b \in Blocks |-> "none"]
  /\ bad = {}
  /\ active = {}
  /\ best = [s \in Sources |-> Genesis]
  /\ knows = [s \in Sources |-> {}]
  /\ requests = {}
  /\ search = NoSearch
  /\ outcome = "none"

-----------------------------------------------------------------------------
(* PendingBlocks (spec 4.1, 4.2).                                          *)

DisjointSet(u) == {b \in Blocks : u[b] # "none"}

\* add_known_block_to_source: no effect at or below the finalized height
\* PendingBlocks knows of.
AddKnown(k, b) == IF Height[b] > pbFinalized THEN k \cup {b} ELSE k

RequestedTargets == {r.target : r \in requests}

\* unnecessary_unverified_blocks: blocks whose parent is also in the set or
\* is being downloaded.
Unnecessary(u) ==
  {b \in DisjointSet(u) : u[b] = "hk" /\ (u[Parent[b]] # "none" \/ Parent[b] \in RequestedTargets)}

\* The first of them: the highest (CHOOSE stands for the hash order).
GCVictim(u) == CHOOSE b \in Unnecessary(u) : \A c \in Unnecessary(u) : Height[c] <= Height[b]

\* unverified_leaves: header known, not bad, parent finalized or verified.
Leaves == {b \in DisjointSet(unverified) \ bad :
             unverified[b] = "hk" /\ (Parent[b] = finalized \/ Parent[b] \in tree)}

\* The blocks desired_requests asks for: a block whose header is unknown,
\* or the unknown parent of a good block whose header is known.
MissingBlocks ==
  LET good == DisjointSet(unverified) \ bad
  IN  {b \in good : unverified[b] = "hh"}
      \cup ({Parent[b] : b \in {c \in good : unverified[c] = "hk"}}
             \ (DisjointSet(unverified) \cup tree \cup {finalized}))

\* set_finalized_block_height: blocks and knowledge at or below h go.
PrunedAt(u, h) == [b \in Blocks |-> IF Height[b] <= h THEN "none" ELSE u[b]]

-----------------------------------------------------------------------------
(* AllForksSync.                                                           *)

\* The GC loop of AddBlockVacant::insert and insert_and_update_source: while
\* there are at least GCThreshold unverified blocks, remove the first
\* unnecessary one and every source's knowledge of it.
RECURSIVE Collect(_)
Collect(st) ==
  IF Cardinality(DisjointSet(st.u)) >= GCThreshold /\ Unnecessary(st.u) # {}
  THEN LET v == GCVictim(st.u) IN
       Collect([u |-> [st.u EXCEPT ![v] = "none"], bad |-> st.bad \ {v},
                k |-> [s \in Sources |-> st.k[s] \ {v}]])
  ELSE st

\* The state after inserting b as HeaderKnown, marking it bad if isBad, and
\* running the GC loop, with k the sources' knowledge learnt just before.
InsertHeaderKnown(b, isBad, k) ==
  LET st == Collect([u |-> [unverified EXCEPT ![b] = "hk"],
                     bad |-> IF isBad THEN bad \cup {b} ELSE bad, k |-> k])
  IN /\ unverified' = st.u
     /\ bad' = st.bad
     /\ knows' = st.k

\* The block at finalized+1 is not a child of the finalized block.
OffFinalizedChain(b) == Height[b] = Height[finalized] + 1 /\ Parent[b] # finalized

\* Mutant: only the announced block is registered for the source, not its
\* parent.
LearnAnnouncedBlockOnly(s, b) == [knows EXCEPT ![s] = AddKnown(@, b)]

\* What the source is believed to know after an announce of b: b and its
\* parent (update_source_and_block, insert_and_update_source).
LearnAnnounced(s, b) == [knows EXCEPT ![s] = AddKnown(AddKnown(@, b), Parent[b])]

SetBest(s, b, isBest) == best' = IF isBest THEN [best EXCEPT ![s] = b] ELSE best

\* prepare_add_source: where the new source's best block stands. It changes
\* nothing; (true, true) is unreachable!() (TreeDisjointExclusive).
AddSourceKind(b) ==
  CASE Height[b] <= Height[finalized] -> "OldBestBlock"
    [] b \in tree                     -> "BestBlockAlreadyVerified"
    [] unverified[b] # "none"         -> "BestBlockPendingVerification"
    [] OTHER                          -> "UnknownBestBlock"

\* Mutant: a new source's best block is inserted without the banned check.
AddSourceNoBanCheck(s, b) ==
  /\ search = NoSearch /\ s \notin active
  /\ active' = active \cup {s}
  /\ best' = [best EXCEPT ![s] = b]
  /\ knows' = [knows EXCEPT ![s] = AddKnown({}, b)]
  /\ IF Height[b] > Height[finalized] /\ b \notin tree /\ unverified[b] = "none"
     THEN /\ unverified' = [unverified EXCEPT ![b] = "hh"]
          /\ UNCHANGED bad
     ELSE UNCHANGED <<unverified, bad>>
  /\ UNCHANGED <<blockVars, requests, search>>
  /\ outcome' = "none"

\* Mutant: prepare_add_source looks only in the disjoint set, not in the
\* non-finalized tree.
AddSourceNoTreeCheck(s, b) ==
  /\ search = NoSearch /\ s \notin active
  /\ active' = active \cup {s}
  /\ best' = [best EXCEPT ![s] = b]
  /\ knows' = [knows EXCEPT ![s] = AddKnown({}, b)]
  /\ IF Height[b] > Height[finalized] /\ unverified[b] = "none"
     THEN /\ unverified' = [unverified EXCEPT ![b] = "hh"]
          /\ bad' = IF b \in Banned THEN bad \cup {b} ELSE bad
     ELSE UNCHANGED <<unverified, bad>>
  /\ UNCHANGED <<blockVars, requests, search>>
  /\ outcome' = "none"

\* prepare_add_source then the add_source of its outcome. A best block
\* neither verified nor pending is inserted as HeightHashKnown
\* (add_source_and_insert_block), bad if banned; there is no GC there.
AddSource(s, b) ==
  /\ search = NoSearch /\ s \notin active
  /\ active' = active \cup {s}
  /\ best' = [best EXCEPT ![s] = b]
  /\ knows' = [knows EXCEPT ![s] = AddKnown({}, b)]
  /\ IF AddSourceKind(b) = "UnknownBestBlock"
     THEN /\ unverified' = [unverified EXCEPT ![b] = "hh"]
          /\ bad' = IF b \in Banned THEN bad \cup {b} ELSE bad
     ELSE UNCHANGED <<unverified, bad>>
  /\ UNCHANGED <<blockVars, requests, search>>
  /\ outcome' = "none"

\* remove_source: the source, its knowledge and its requests go.
RemoveSource(s) ==
  /\ Churn /\ search = NoSearch /\ s \in active
  /\ active' = active \ {s}
  /\ knows' = [knows EXCEPT ![s] = {}]
  /\ best' = [best EXCEPT ![s] = Genesis]
  /\ requests' = {r \in requests : r.src # s}
  /\ UNCHANGED <<blockVars, unverified, bad, search>>
  /\ outcome' = "none"

\* add_known_block_to_source: the caller has learnt elsewhere that s knows b.
AddKnownBlockToSource(s, b) ==
  /\ search = NoSearch /\ s \in active
  /\ knows' = [knows EXCEPT ![s] = AddKnown(@, b)]
  /\ UNCHANGED <<blockVars, unverified, bad, active, best, requests, search>>
  /\ outcome' = "none"

\* block_announce of b by s, then the commit of its outcome.
BlockAnnounce(s, b, isBest) ==
  /\ search = NoSearch /\ s \in active
  /\ \/ /\ Height[b] <= Height[finalized]                      \* TooOld
        /\ knows' = IF isBest THEN [knows EXCEPT ![s] = AddKnown(@, b)] ELSE knows
        /\ UNCHANGED <<unverified, bad>>
     \/ /\ Height[b] > Height[finalized] /\ b \in tree        \* AlreadyInChain
        /\ knows' = LearnAnnounced(s, b)
        /\ UNCHANGED <<unverified, bad>>
     \/ /\ Height[b] > Height[finalized] /\ b \notin tree     \* Unknown
        /\ unverified[b] = "none"
        /\ InsertHeaderKnown(b, b \in Banned \/ OffFinalizedChain(b), LearnAnnounced(s, b))
     \/ /\ Height[b] > Height[finalized] /\ b \notin tree     \* Known
        /\ unverified[b] # "none"
        /\ knows' = LearnAnnounced(s, b)
        /\ unverified' = [unverified EXCEPT ![b] = "hk"]
        /\ bad' = IF OffFinalizedChain(b) THEN bad \cup {b} ELSE bad
  /\ SetBest(s, b, isBest)
  /\ UNCHANGED <<blockVars, active, requests, search>>
  /\ outcome' = "none"

\* desired_requests, joined with add_request: an unknown block s knows,
\* not verified, below the per-block cap, not already asked of s.
Desired(s, t) ==
  /\ s \in active /\ t \in knows[s] /\ t \in MissingBlocks /\ t \notin tree
  /\ Cardinality({r \in requests : r.target = t}) < MaxRequestsPerBlock
  /\ [src |-> s, target |-> t] \notin requests

AddRequest(s, t) ==
  /\ search = NoSearch /\ Desired(s, t)
  /\ requests' = requests \cup {[src |-> s, target |-> t]}
  /\ UNCHANGED <<blockVars, unverified, bad, active, best, knows, search>>
  /\ outcome' = "none"

\* finish_ancestry_search: the request ends and its response is consumed.
FinishAncestrySearch(r) ==
  /\ search = NoSearch /\ r \in requests
  /\ requests' = requests \ {r}
  /\ search' = [src |-> r.src, first |-> r.target, expected |-> r.target, progress |-> FALSE]
  /\ UNCHANGED <<blockVars, unverified, bad, active, best, knows>>
  /\ outcome' = "none"

\* FinishAncestrySearch::finish: a response that added nothing makes the
\* source forget the requested block (remove_known_block_of_source).
EndSearch ==
  /\ search' = NoSearch
  /\ knows' = IF search.progress THEN knows
              ELSE [knows EXCEPT ![search.src] = @ \ {search.first}]

\* ancestry_search_failed: finish_ancestry_search then finish at once.
AncestrySearchFailed(r) ==
  /\ Faults /\ search = NoSearch /\ r \in requests
  /\ requests' = requests \ {r}
  /\ knows' = [knows EXCEPT ![r.src] = @ \ {r.target}]
  /\ UNCHANGED <<blockVars, unverified, bad, active, best, search>>
  /\ outcome' = "failed"

\* add_block of a header that is not the expected block, or does not
\* decode: UnexpectedBlock or InvalidHeader, then finish.
AddBlockMalformed ==
  /\ Faults /\ search # NoSearch
  /\ EndSearch
  /\ UNCHANGED <<blockVars, unverified, bad, active, best, requests>>
  /\ outcome' = "unexpected_block"

\* AddBlockOccupied::replace, for a block already verified or already
\* pending: the source knows the block and its parent, a pending block's
\* header becomes known, and the parent is expected next.
ReplaceOccupied(e, next) ==
  /\ knows' = LearnAnnounced(search.src, e)
  /\ unverified' = IF e \in tree THEN unverified ELSE [unverified EXCEPT ![e] = "hk"]
  /\ search' = next

\* add_block of the expected block, its error paths (TooOld,
\* NotFinalizedChain) then finish, or its AlreadyInChain, UnknownBlock and
\* AlreadyPending tokens committed: the source knows the block and its
\* parent, and the parent is expected next.
AddBlock ==
  /\ search # NoSearch
  /\ LET e == search.expected
         next == [search EXCEPT !.expected = Parent[e], !.progress = TRUE]
     IN \/ /\ Height[e] <= Height[finalized] \/ (e \notin tree /\ OffFinalizedChain(e))
           /\ search' = NoSearch
           /\ outcome' = IF Height[e] <= Height[finalized] THEN "too_old" ELSE "not_finalized_chain"
           /\ UNCHANGED <<unverified, bad, knows>>
        \/ /\ Height[e] > Height[finalized] /\ e \in tree
           /\ ReplaceOccupied(e, next) /\ outcome' = "none"
           /\ UNCHANGED bad
        \/ /\ Height[e] > Height[finalized] /\ e \notin tree /\ ~OffFinalizedChain(e)
           /\ unverified[e] = "none"
           /\ InsertHeaderKnown(e, e \in Banned, LearnAnnounced(search.src, e))
           /\ search' = next /\ outcome' = "none"
        \/ /\ Height[e] > Height[finalized] /\ e \notin tree /\ ~OffFinalizedChain(e)
           /\ unverified[e] # "none"
           /\ ReplaceOccupied(e, next) /\ outcome' = "none"
           /\ UNCHANGED bad
  /\ UNCHANGED <<blockVars, active, best, requests>>

\* The cancel of an AddBlockOccupied or AddBlockVacant token: the engine
\* comes back without finish; the response has made progress.
AddBlockCancel ==
  /\ search # NoSearch
  /\ Height[search.expected] > Height[finalized]
  /\ ~(search.expected \notin tree /\ OffFinalizedChain(search.expected))
  /\ search' = NoSearch
  /\ UNCHANGED <<blockVars, unverified, bad, active, best, knows, requests>>
  /\ outcome' = "cancelled"

\* FinishAncestrySearch::finish at the end of the response. An honest
\* source that was asked a block it announced sends at least that block.
AncestryFinish ==
  /\ search # NoSearch /\ (Faults \/ search.progress)
  /\ EndSearch
  /\ UNCHANGED <<blockVars, unverified, bad, active, best, requests>>
  /\ outcome' = "finished"

\* process_one yields HeaderVerify for a leaf, then perform.
HeaderVerifySuccess(b) ==
  /\ search = NoSearch /\ b \in Leaves /\ b \notin Invalid
  /\ unverified' = [unverified EXCEPT ![b] = "none"]
  /\ tree' = tree \cup {b}
  /\ UNCHANGED <<finalized, pbFinalized, bad, active, best, knows, requests, search>>
  /\ outcome' = "none"

HeaderVerifyFailure(b) ==
  /\ search = NoSearch /\ b \in Leaves /\ b \in Invalid
  /\ bad' = bad \cup {b}
  /\ UNCHANGED <<blockVars, unverified, active, best, knows, requests, search>>
  /\ outcome' = "none"

\* The blocks of the tree that descend from b (what apply() keeps).
RECURSIVE IsAncestor(_, _)
IsAncestor(a, b) == b # Genesis /\ (Parent[b] = a \/ IsAncestor(a, Parent[b]))

Finalize(b) ==
  /\ finalized' = b
  /\ tree' = {c \in tree : IsAncestor(b, c)}

\* grandpa_commit_message whose commit verifies: apply(), and nothing else.
GrandpaCommitFinalize(b) ==
  /\ search = NoSearch /\ b \in tree
  /\ Finalize(b)
  /\ UNCHANGED <<pbFinalized, unverified, bad, active, best, knows, requests, search>>
  /\ outcome' = "none"

\* Mutant: finalization prunes the disjoint set but not the bad marks.
FinalityProofFinalizeKeepBad(b) ==
  /\ search = NoSearch /\ b \in tree
  /\ Finalize(b)
  /\ pbFinalized' = Height[b]
  /\ unverified' = PrunedAt(unverified, Height[b])
  /\ knows' = [s \in Sources |-> {c \in knows[s] : Height[c] > Height[b]}]
  /\ UNCHANGED <<bad, active, best, requests, search>>
  /\ outcome' = "none"

\* FinalityProofVerify::perform whose proof verifies: apply(), then
\* set_finalized_block_height.
FinalityProofFinalize(b) ==
  /\ search = NoSearch /\ b \in tree
  /\ Finalize(b)
  /\ pbFinalized' = Height[b]
  /\ unverified' = PrunedAt(unverified, Height[b])
  /\ bad' = {c \in bad : Height[c] > Height[b]}
  /\ knows' = [s \in Sources |-> {c \in knows[s] : Height[c] > Height[b]}]
  /\ UNCHANGED <<active, best, requests, search>>
  /\ outcome' = "none"

Next ==
  \/ \E s \in Sources, b \in Blocks : AddSource(s, b)
  \/ \E s \in Sources : RemoveSource(s)
  \/ \E s \in Sources, b \in Blocks, isBest \in BOOLEAN : BlockAnnounce(s, b, isBest)
  \/ \E s \in Sources, b \in Blocks : AddKnownBlockToSource(s, b)
  \/ \E s \in Sources, t \in Blocks : AddRequest(s, t)
  \/ \E r \in requests : FinishAncestrySearch(r)
  \/ \E r \in requests : AncestrySearchFailed(r)
  \/ AddBlockMalformed \/ AddBlock \/ AddBlockCancel \/ AncestryFinish
  \/ \E b \in Blocks : HeaderVerifySuccess(b) \/ HeaderVerifyFailure(b)
  \/ \E b \in Blocks : GrandpaCommitFinalize(b) \/ FinalityProofFinalize(b)

Spec == Init /\ [][Next]_vars

\* The caller calls process_one until it yields AllSync and performs what
\* it yields; it starts every desired request; every request is answered
\* and its response consumed and committed. Each of these steps can be
\* blocked for a while by another call's token or by the per-block request
\* cap, but the caller comes back to it: strong fairness. Announces,
\* sources, cancels and finality proofs come when they come.
Fairness ==
  /\ \A b \in Blocks : SF_vars(HeaderVerifySuccess(b) \/ HeaderVerifyFailure(b))
  /\ \A s \in Sources, t \in Blocks : SF_vars(AddRequest(s, t))
  /\ \A r \in Requests : SF_vars(FinishAncestrySearch(r))
  /\ SF_vars(AddBlock)
  /\ SF_vars(AncestryFinish)

FairSpec == Spec /\ Fairness

-----------------------------------------------------------------------------

TypeOK ==
  /\ finalized \in Blocks /\ tree \subseteq Blocks \ {Genesis}
  /\ pbFinalized \in {Height[b] : b \in Blocks}
  /\ unverified \in [Blocks -> {"none", "hh", "hk"}]
  /\ bad \subseteq DisjointSet(unverified)
  /\ active \subseteq Sources
  /\ best \in [Sources -> Blocks] /\ knows \in [Sources -> SUBSET Blocks]
  /\ requests \subseteq Requests
  /\ search \in {NoSearch} \cup [src : Sources, first : Blocks, expected : Blocks, progress : BOOLEAN]
  /\ outcome \in {"none", "failed", "unexpected_block", "too_old", "not_finalized_chain",
                  "cancelled", "finished"}

\* "A BlockId is in at most one of {non-finalized tree, disjoint set}":
\* prepare_add_source's (true, true) => unreachable!() and HeaderVerify's
\* Duplicate => unreachable!() rest on it, across announces, ancestry
\* responses, new sources and verifications in any order.
TreeDisjointExclusive == tree \cap DisjointSet(unverified) = {}

\* "A bad block is never verified": a banned block never reaches the tree,
\* whichever of the three insertion paths (announce, ancestry response,
\* new source) first brought it and whichever later learnt its header
\* (AnnouncedBlockKnown::update_source_and_block does not look at
\* banned_blocks).
NoBannedBlockVerified == (tree \cup {finalized}) \cap Banned = {}

\* "Every block in the disjoint set has height > finalized height", after
\* every public operation, including grandpa_commit_message.
DisjointAboveFinalized == \A b \in DisjointSet(unverified) : Height[b] > Height[finalized]

\* "For every operation sequence, disjoint_set.count <= max_disjoint_headers
\* + 1 at every exit" (spec 8): the GC loops of the announce and ancestry
\* insertion paths keep the disjoint set within the configured cap.
DisjointWithinConfiguredCap == Cardinality(DisjointSet(unverified)) <= MaxDisjointHeaders + 1

\* The blocks from b down to the genesis block.
RECURSIVE Ancestry(_)
Ancestry(b) == IF b = Genesis THEN {b} ELSE {b} \cup Ancestry(Parent[b])

\* b can still join the tree: it descends from the finalized block and
\* neither it nor an ancestor above the finalized block is banned or
\* invalid.
Viable(b) ==
  /\ IsAncestor(finalized, b)
  /\ \A c \in Ancestry(b) : Height[c] > Height[finalized] => c \notin Banned \cup Invalid

\* "A request pipeline that must not stall" (spec 1): a source's best block
\* that can join the tree eventually does, unless the source goes, changes
\* its best block, or finality moves elsewhere.
SourceBestEventuallyVerified ==
  \A s \in Sources, b \in Blocks \ {Genesis} :
    (s \in active /\ best[s] = b /\ Viable(b))
      ~> (b \in tree \/ ~Viable(b) \/ best[s] # b \/ s \notin active)

=============================================================================

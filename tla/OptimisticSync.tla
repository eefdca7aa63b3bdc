--------------------------- MODULE OptimisticSync ---------------------------
(***************************************************************************)
(* The optimistic syncing state machine of src/sync/optimistic.rs: a set  *)
(* of sources, a window of block requests ahead of the best block (the    *)
(* verification queue), the requests made obsolete by a reset, the       *)
(* linear non-finalized chain, the justifications of the block just       *)
(* verified and, in full mode, the runtime handles and the best-to-       *)
(* finalized storage diff.                                                 *)
(*                                                                         *)
(* Every public call is one atomic action: the engine is a passive state  *)
(* machine owned by its caller, and the verification tokens (BlockVerify, *)
(* JustificationVerify, the full-mode storage suspensions) own the state  *)
(* by value, so nothing can interleave inside a verification.             *)
(*                                                                         *)
(* Data is abstracted: a block is its header number, the verdict of the  *)
(* external verifier on it (ok, bad header, bad body) and its             *)
(* justification (none, valid, invalid); the chain is the pair finalized, *)
(* best of a linear chain; a runtime is the number of code upgrades of    *)
(* the chain up to the block it belongs to; the storage diff is the set   *)
(* of heights whose changes were merged into it.                           *)
(***************************************************************************)
EXTENDS Naturals, FiniteSets, Sequences, TLC

CONSTANTS
  MaxSources,     \* SourceIds 0..MaxSources-1 can be allocated by add_source
  MaxRequests,    \* RequestIds 0..MaxRequests-1 can be allocated by insert_request
  MaxHeight,      \* highest block number a source may report or send
  DownloadAhead,  \* Config::download_ahead_blocks: width of the request window
  Modes,          \* the values of "Config::full is Some" the engine may be built with
  Upgrades,       \* heights of the blocks that change the runtime code
  ForgeHeights,   \* a source may answer with a block of another height than asked
  U32Max,         \* u32::MAX, scaled down with the heights
  Honest,         \* sources send only valid blocks, without justifications
  RecycleIds,     \* a RequestId no longer in use may be handed out again
  None            \* model value: an absent Option

ASSUME /\ MaxSources \in Nat \ {0} /\ MaxRequests \in Nat \ {0}
       /\ MaxHeight \in Nat \ {0} /\ DownloadAhead \in Nat \ {0}
       /\ Modes \subseteq BOOLEAN /\ Modes # {} /\ ForgeHeights \in BOOLEAN
       /\ Honest \in BOOLEAN /\ RecycleIds \in BOOLEAN
       /\ Upgrades \subseteq 1..MaxHeight /\ U32Max \in Nat \ {0}

SourceIds  == 0..(MaxSources - 1)
RequestIds == 0..(MaxRequests - 1)
Heights    == 0..MaxHeight

VARIABLES
  sources,               \* SourceId -> [best, banned, numReq]    (inner.sources)
  nextSourceId,          \* inner.next_source_id
  base,                  \* height of the first slot of the verification queue
  queue,                 \* base..base+DownloadAhead-1 -> slot     (inner.verification_queue)
  obsoleteRequests,      \* RequestId -> SourceId                  (inner.obsolete_requests)
  obsoleteBySource,      \* set of <<SourceId, RequestId>>         (inner.obsolete_requests_by_source)
  nextRequestId,         \* inner.next_request_id
  finalized,             \* number of the finalized block of chain
  finalizedInfo,         \* the block of inner.finalized_chain_information, a rebuilt chain's base
  best,                  \* number of the best block               (chain.best_block_header().number)
  pendingJustifications, \* Seq of [target, valid, src]            (inner.pending_encoded_justifications)
  finalizedRuntime,      \* inner.finalized_runtime: a runtime or None
  bestRuntime,           \* inner.best_runtime: a runtime or None
  storageDiff,           \* heights merged into inner.best_to_finalized_storage_diff
  snapshot,              \* the caller's copy of the last desired_requests() it iterated
  event,                 \* the outcome reported by the last step
  full,                  \* Config::full is Some: bodies, storage and runtimes are verified
  panicked               \* "none", or the reason the last call panicked

vars == <<sources, nextSourceId, base, queue, obsoleteRequests, obsoleteBySource,
          nextRequestId, finalized, finalizedInfo, best, pendingJustifications, finalizedRuntime,
          bestRuntime, storageDiff, snapshot, event, full, panicked>>

-----------------------------------------------------------------------------
(* Verification queue (spec 4.4: the module verification_queue is not     *)
(* under src/). A slot is Missing, Requested by a request of a source, or *)
(* Ready with the block a source returned.                                 *)

MissingSlot            == [st |-> "missing",   rq |-> None, src |-> None, blk |-> None]
RequestedSlot(id, s)   == [st |-> "requested", rq |-> id,   src |-> s,    blk |-> None]
ReadySlot(s, b)        == [st |-> "ready",     rq |-> None, src |-> s,    blk |-> b]

NewQueue(first) == [h \in first..(first + DownloadAhead - 1) |-> MissingSlot]

QueuedRequests == {queue[h].rq : h \in {k \in DOMAIN queue : queue[k].st = "requested"}}

RequestSlots(id) == {h \in DOMAIN queue : queue[h].st = "requested" /\ queue[h].rq = id}

RequestSource(id) == queue[CHOOSE h \in RequestSlots(id) : TRUE].src

\* Number of consecutive Missing slots starting at h.
MissingRun(h) ==
  Cardinality({k \in DOMAIN queue :
                 k >= h /\ \A j \in h..k : queue[j].st = "missing"})

\* verification_queue::insert_request succeeds when the range is Missing.
Fits(h, n) == \A k \in h..(h + n - 1) : k \in DOMAIN queue /\ queue[k].st = "missing"

\* pop_first_block: the window slides by one and a Missing slot enters it.
PoppedQueue ==
  [h \in (base + 1)..(base + DownloadAhead) |->
     IF h \in DOMAIN queue THEN queue[h] ELSE MissingSlot]

-----------------------------------------------------------------------------
(* Helpers of the code.                                                    *)

MinOf(a, b) == IF a < b THEN a ELSE b

\* The runtime of block h: how many code upgrades happened up to h.
RuntimeAt(h) == Cardinality({u \in Upgrades : u <= h})

NoEvent == [kind |-> "none", prev |-> 0, cause |-> "none"]

\* src.banned = true, then "if all sources are banned, unban them".
BanIn(srcs, s) ==
  LET banned == IF s \in DOMAIN srcs THEN [srcs EXCEPT ![s].banned = TRUE] ELSE srcs
  IN IF \A x \in DOMAIN banned : banned[x].banned
     THEN [x \in DOMAIN banned |-> [banned[x] EXCEPT !.banned = FALSE]]
     ELSE banned

DecrementIn(srcs, s) == [srcs EXCEPT ![s].numReq = @ - 1]

\* Mutant: the new queue starts at chain.best instead of chain.best+1.
MakeRequestsObsoleteOffByOne(chainBest) ==
  LET ids == QueuedRequests IN
  /\ base' = chainBest + 1
  /\ queue' = NewQueue(chainBest)
  /\ obsoleteRequests' = obsoleteRequests @@ [id \in ids |-> RequestSource(id)]
  /\ obsoleteBySource' = obsoleteBySource \cup {<<RequestSource(id), id>> : id \in ids}

\* OptimisticSyncInner::make_requests_obsolete: the queue is rebuilt at
\* chain.best+1 and every request of the former queue becomes obsolete.
MakeRequestsObsolete(chainBest) ==
  LET ids == QueuedRequests IN
  /\ base' = chainBest + 1
  /\ queue' = NewQueue(chainBest + 1)
  /\ obsoleteRequests' = obsoleteRequests @@ [id \in ids |-> RequestSource(id)]
  /\ obsoleteBySource' = obsoleteBySource \cup {<<RequestSource(id), id>> : id \in ids}

\* The tail shared by every reset: ban the source that served the failing
\* data, rebuild the queue at the chain's best block, and clear the diff,
\* the best runtime and the trie cache; report the ResetCause.
Reset(culprit, chainBest, reportedPrev, cause) ==
  /\ sources' = BanIn(sources, culprit)
  /\ best' = chainBest
  /\ MakeRequestsObsolete(chainBest)
  /\ storageDiff' = {}
  /\ bestRuntime' = None
  /\ event' = [kind |-> "reset", prev |-> reportedPrev, cause |-> cause]

\* Mutant: a slot is only asked of sources whose best block is above it.
DesiredRequestsOffByOne ==
  LET pairs == {p \in (DOMAIN sources) \X (DOMAIN queue) :
                  queue[p[2]].st = "missing" /\ sources[p[1]].best > p[2]}
  IN {[src |-> p[1], height |-> p[2],
       num |-> MinOf(MissingRun(p[2]), sources[p[1]].best - p[2] + 1)] : p \in pairs}

\* desired_requests(): every Missing slot, with every source whose best
\* block is at least the slot height, num_blocks clamped to what the
\* source has. The code does not look at `banned`.
DesiredRequests ==
  LET pairs == {p \in (DOMAIN sources) \X (DOMAIN queue) :
                  queue[p[2]].st = "missing" /\ sources[p[1]].best >= p[2]}
  IN {[src |-> p[1], height |-> p[2],
       num |-> MinOf(MissingRun(p[2]), sources[p[1]].best - p[2] + 1)] : p \in pairs}

\* u32::try_from(best - height + 1).unwrap() panics for some pair.
DesiredRequestsOverflow ==
  \E s \in DOMAIN sources, h \in DOMAIN queue :
     /\ queue[h].st = "missing" /\ sources[s].best >= h
     /\ sources[s].best - h + 1 > U32Max

-----------------------------------------------------------------------------
(* Initial state: OptimisticSync::new with the chain at its finalized     *)
(* block 0, no source and an empty queue at best+1.                        *)

Init ==
  /\ sources = [x \in {} |-> None]
  /\ nextSourceId = 0
  /\ base = 1
  /\ queue = NewQueue(1)
  /\ obsoleteRequests = [x \in {} |-> None]
  /\ obsoleteBySource = {}
  /\ nextRequestId = 0
  /\ finalized = 0
  /\ finalizedInfo = 0
  /\ best = 0
  /\ pendingJustifications = <<>>
  /\ full \in Modes
  /\ finalizedRuntime = IF full THEN RuntimeAt(0) ELSE None
  /\ bestRuntime = None
  /\ storageDiff = {}
  /\ snapshot = {}
  /\ event = NoEvent
  /\ panicked = "none"

Running == panicked = "none"

chainVars   == <<finalized, finalizedInfo, best, pendingJustifications, finalizedRuntime, bestRuntime, storageDiff>>
requestVars == <<queue, base, obsoleteRequests, obsoleteBySource, nextRequestId>>

-----------------------------------------------------------------------------
(* Source registry and request bookkeeping.                                *)

\* add_source: a fresh SourceId, not banned, no request.
AddSource(bestNumber) ==
  /\ Running
  /\ nextSourceId < MaxSources
  /\ sources' = sources @@ (nextSourceId :> [best |-> bestNumber, banned |-> FALSE, numReq |-> 0])
  /\ nextSourceId' = nextSourceId + 1
  /\ event' = NoEvent
  /\ UNCHANGED <<requestVars, chainVars, snapshot, panicked>>

\* raise_source_best_block: only ever raises.
RaiseSourceBestBlock(s, bestNumber) ==
  /\ Running
  /\ s \in DOMAIN sources
  /\ sources[s].best < bestNumber
  /\ sources' = [sources EXCEPT ![s].best = bestNumber]
  /\ event' = NoEvent
  /\ UNCHANGED <<nextSourceId, requestVars, chainVars, snapshot, panicked>>

\* Mutant: remove_source forgets the source's obsolete requests.
RemoveSourceKeepsObsolete(s) ==
  /\ Running
  /\ s \in DOMAIN sources
  /\ sources' = [x \in DOMAIN sources \ {s} |-> sources[x]]
  /\ queue' = [h \in DOMAIN queue |->
                 IF queue[h].st = "requested" /\ queue[h].src = s THEN MissingSlot ELSE queue[h]]
  /\ event' = NoEvent
  /\ UNCHANGED <<nextSourceId, base, nextRequestId, obsoleteRequests, obsoleteBySource,
                 chainVars, snapshot, panicked>>

\* remove_source: drop its obsolete requests from both indexes, the source
\* itself, and drain its requests from the queue (their slots become Missing).
RemoveSource(s) ==
  /\ Running
  /\ s \in DOMAIN sources
  /\ LET kept == {id \in DOMAIN obsoleteRequests : obsoleteRequests[id] # s} IN
     /\ obsoleteRequests' = [id \in kept |-> obsoleteRequests[id]]
     /\ obsoleteBySource' = {p \in obsoleteBySource : p[1] # s}
  /\ sources' = [x \in DOMAIN sources \ {s} |-> sources[x]]
  /\ queue' = [h \in DOMAIN queue |->
                 IF queue[h].st = "requested" /\ queue[h].src = s THEN MissingSlot ELSE queue[h]]
  /\ event' = NoEvent
  /\ UNCHANGED <<nextSourceId, base, nextRequestId, chainVars, snapshot, panicked>>

\* The caller iterates desired_requests() and keeps the list; iterating it
\* panics when a source's best block is too far above a Missing slot.
QueryDesiredRequests ==
  /\ Running
  /\ IF DesiredRequestsOverflow
     THEN panicked' = "u32_overflow" /\ UNCHANGED snapshot
     ELSE snapshot' = DesiredRequests /\ UNCHANGED panicked
  /\ event' = NoEvent
  /\ UNCHANGED <<sources, nextSourceId, requestVars, chainVars>>

\* The ids next_request_id can still hand out. RequestIds are only ever
\* compared with the ids of requests in flight, so with RecycleIds an id
\* that is neither queued nor obsolete stands for a fresh one.
FreeRequestIds ==
  IF RecycleIds THEN RequestIds \ (QueuedRequests \cup DOMAIN obsoleteRequests)
  ELSE {id \in RequestIds : id >= nextRequestId}

NewRequestId == CHOOSE id \in FreeRequestIds : \A x \in FreeRequestIds : id <= x

\* insert_request with a detail from the caller's (possibly stale) list: the
\* counter is incremented first; a detail the queue refuses becomes obsolete.
InsertRequest(d) ==
  /\ Running
  /\ d.src \in DOMAIN sources
  /\ FreeRequestIds # {}
  /\ LET id == NewRequestId IN
     /\ sources' = [sources EXCEPT ![d.src].numReq = @ + 1]
     /\ nextRequestId' = IF RecycleIds THEN nextRequestId ELSE id + 1
     /\ IF Fits(d.height, d.num)
        THEN /\ queue' = [h \in DOMAIN queue |->
                            IF h \in d.height..(d.height + d.num - 1)
                            THEN RequestedSlot(id, d.src) ELSE queue[h]]
             /\ UNCHANGED <<obsoleteRequests, obsoleteBySource>>
        ELSE /\ obsoleteRequests' = obsoleteRequests @@ (id :> d.src)
             /\ obsoleteBySource' = obsoleteBySource \cup {<<d.src, id>>}
             /\ UNCHANGED queue
  /\ event' = NoEvent
  /\ UNCHANGED <<nextSourceId, base, chainVars, snapshot, panicked>>

\* Mutant: the obsolete path returns without decrementing the counter.
FinishObsoleteRequestNoDecrement(id) ==
  /\ Running
  /\ id \in DOMAIN obsoleteRequests
  /\ LET s == obsoleteRequests[id] IN
     /\ obsoleteRequests' = [x \in DOMAIN obsoleteRequests \ {id} |-> obsoleteRequests[x]]
     /\ obsoleteBySource' = obsoleteBySource \ {<<s, id>>}
  /\ event' = NoEvent
  /\ UNCHANGED <<sources, nextSourceId, queue, base, nextRequestId, chainVars, snapshot, panicked>>

\* finish_request_success / finish_request_failed on an obsolete request:
\* forget it and decrement the counter, nothing else.
FinishObsoleteRequest(id) ==
  /\ Running
  /\ id \in DOMAIN obsoleteRequests
  /\ LET s == obsoleteRequests[id] IN
     /\ obsoleteRequests' = [x \in DOMAIN obsoleteRequests \ {id} |-> obsoleteRequests[x]]
     /\ obsoleteBySource' = obsoleteBySource \ {<<s, id>>}
     /\ sources' = DecrementIn(sources, s)
  /\ event' = NoEvent
  /\ UNCHANGED <<nextSourceId, queue, base, nextRequestId, chainVars, snapshot, panicked>>

\* The header numbers a source may put in a response for slot h.
ResponseHeights(h) == IF ForgeHeights THEN 1..MaxHeight ELSE {h}

Block == IF Honest THEN [height : 1..MaxHeight, verdict : {"ok"}, just : {"none"}]
         ELSE [height : 1..MaxHeight, verdict : {"ok", "bad_header", "bad_body"},
               just : {"none", "valid", "invalid"}]

\* finish_request_success on a queued request: its slots become Ready with
\* the returned blocks; the counter is decremented.
FinishRequestSuccess(id) ==
  /\ Running
  /\ id \in QueuedRequests
  /\ LET s == RequestSource(id)
         slots == RequestSlots(id) IN
     \E blocks \in [slots -> Block] :
        /\ \A h \in slots : blocks[h].height \in ResponseHeights(h)
        /\ queue' = [h \in DOMAIN queue |->
                       IF h \in slots THEN ReadySlot(s, blocks[h]) ELSE queue[h]]
        /\ sources' = DecrementIn(sources, s)
  /\ event' = NoEvent
  /\ UNCHANGED <<nextSourceId, base, obsoleteRequests, obsoleteBySource, nextRequestId,
                 chainVars, snapshot, panicked>>

\* finish_request_failed on a queued request: slots back to Missing, the
\* counter decremented, the source banned (all unbanned if all are banned).
FinishRequestFailed(id) ==
  /\ Running
  /\ id \in QueuedRequests
  /\ LET s == RequestSource(id) IN
     /\ queue' = [h \in DOMAIN queue |->
                    IF h \in RequestSlots(id) THEN MissingSlot ELSE queue[h]]
     /\ sources' = BanIn(DecrementIn(sources, s), s)
  /\ event' = NoEvent
  /\ UNCHANGED <<nextSourceId, base, obsoleteRequests, obsoleteBySource, nextRequestId,
                 chainVars, snapshot, panicked>>

-----------------------------------------------------------------------------
(* Verification: process_one followed by BlockVerify::start or            *)
(* JustificationVerify::perform. process_one yields VerifyJustification   *)
(* first, VerifyBlock only when no justification is pending and the first *)
(* slot of the queue is Ready, and Idle (no change) otherwise. start takes *)
(* the full path (verify_body) when finalized_runtime is Some and the      *)
(* header-only path otherwise.                                             *)

FirstBlockReady ==
  /\ Running
  /\ pendingJustifications = <<>>
  /\ queue[base].st = "ready"

\* BlockVerify::start pops the first block and keeps its justifications,
\* with the source it came from, for the next process_one.
PopFirstBlockJustifications ==
  LET b == queue[base].blk IN
  pendingJustifications' =
     IF b.just # "none"
     THEN <<[target |-> b.height, valid |-> b.just = "valid", src |-> queue[base].src]>>
     ELSE <<>>

\* The block is the child of the best block and its header verifies.
ExtendsBest(b) == b.verdict # "bad_header" /\ b.height = best + 1

NewBest ==
  /\ best' = best + 1
  /\ base' = base + 1
  /\ queue' = PoppedQueue
  /\ event' = [kind |-> "new_best", prev |-> best, cause |-> "none"]
  /\ UNCHANGED <<sources, obsoleteRequests, obsoleteBySource>>

\* Header-only mode: verify_header; Insert with is_new_best is a new best
\* block (the body is never looked at), Duplicate or Insert of a block that
\* is not the new best is NonCanonical, an Err (bad header, unknown parent)
\* is HeaderError; both reset without rebuilding the chain.
BlockVerifyHeaderOnly ==
  /\ finalizedRuntime = None
  /\ FirstBlockReady
  /\ PopFirstBlockJustifications
  /\ LET b == queue[base].blk IN
     IF ExtendsBest(b)
     THEN NewBest /\ UNCHANGED storageDiff /\ UNCHANGED bestRuntime
     ELSE Reset(queue[base].src, best, best,
                IF b.verdict = "bad_header" \/ b.height > best + 1
                THEN "header_error" ELSE "non_canonical")
  /\ UNCHANGED <<nextSourceId, nextRequestId, finalized, finalizedInfo, finalizedRuntime, snapshot, panicked>>

\* Full mode, the runtime extracted at ParentRuntimeRequired: best_runtime
\* if there is one, finalized_runtime otherwise.
ParentRuntime   == IF bestRuntime # None THEN bestRuntime ELSE finalizedRuntime
FinalizedAfterTake == IF bestRuntime # None THEN finalizedRuntime ELSE None

\* Full mode, BodyVerifyStep2::Finished: the runtime goes back where it came
\* from (or the new one becomes best_runtime) and the block's storage
\* changes are merged into the diff.
BlockVerifyFullSuccess ==
  /\ finalizedRuntime # None
  /\ FirstBlockReady
  /\ ExtendsBest(queue[base].blk)
  /\ queue[base].blk.verdict = "ok"
  /\ PopFirstBlockJustifications
  /\ LET h == queue[base].blk.height
         newRuntime == IF h \in Upgrades THEN RuntimeAt(h) ELSE None IN
     IF FinalizedAfterTake # None
     THEN /\ bestRuntime' = IF newRuntime # None THEN newRuntime ELSE ParentRuntime
          /\ finalizedRuntime' = FinalizedAfterTake
     ELSE /\ finalizedRuntime' = ParentRuntime
          /\ bestRuntime' = newRuntime
  /\ storageDiff' = storageDiff \cup {queue[base].blk.height}
  /\ NewBest
  /\ UNCHANGED <<nextSourceId, nextRequestId, finalized, finalizedInfo, snapshot, panicked>>

\* NonFinalizedTree::new(finalized_chain_information.clone()): the chain
\* rebuilt by a reset, empty above the recorded finalized block.
RebuiltChain == finalized' = finalizedInfo

\* Full mode, BodyVerifyStep1::InvalidHeader (a header that does not
\* decode), Duplicate or BadParent (not a child of the best block): the
\* runtime was never extracted; the chain is rebuilt at the finalized block.
BlockVerifyFullStep1Failure ==
  /\ finalizedRuntime # None
  /\ FirstBlockReady
  /\ PopFirstBlockJustifications
  /\ LET b == queue[base].blk IN
     \/ b.verdict = "bad_header" /\ Reset(queue[base].src, finalizedInfo, best, "invalid_header")
     \/ b.height # best + 1 /\ Reset(queue[base].src, finalizedInfo, best, "non_canonical")
  /\ RebuiltChain
  /\ UNCHANGED <<nextSourceId, nextRequestId, finalizedInfo, finalizedRuntime, snapshot, panicked>>

\* Mutant: Step2 Error drops the extracted runtime instead of putting it back.
BlockVerifyFullStep2FailureNoRestore ==
  /\ finalizedRuntime # None
  /\ FirstBlockReady
  /\ queue[base].blk.verdict # "ok"
  /\ queue[base].blk.height = best + 1
  /\ PopFirstBlockJustifications
  /\ finalizedRuntime' = FinalizedAfterTake
  /\ Reset(queue[base].src, finalizedInfo, best, "header_body_error")
  /\ RebuiltChain
  /\ UNCHANGED <<nextSourceId, nextRequestId, finalizedInfo, snapshot, panicked>>

\* Full mode, BodyVerifyStep2::Error on the child of the best block whose
\* header (consensus) or body fails: the extracted runtime is put back in
\* finalized_runtime if that is where it came from.
BlockVerifyFullStep2Failure ==
  /\ finalizedRuntime # None
  /\ FirstBlockReady
  /\ queue[base].blk.verdict # "ok"
  /\ queue[base].blk.height = best + 1
  /\ PopFirstBlockJustifications
  /\ finalizedRuntime' = IF FinalizedAfterTake = None THEN ParentRuntime ELSE FinalizedAfterTake
  /\ Reset(queue[base].src, finalizedInfo, best, "header_body_error")
  /\ RebuiltChain
  /\ UNCHANGED <<nextSourceId, nextRequestId, finalizedInfo, snapshot, panicked>>

\* Mutant: finalized_chain_information is not updated after apply().
RecordFinalizedSkipped == UNCHANGED finalizedInfo

\* finalized_chain_information takes the chain's new finalized block.
RecordFinalized == finalizedInfo' = best

\* JustificationVerify::perform. The external tree accepts a valid
\* justification of a non-finalized block of the chain. Success asserts
\* that the block is the best block, finalizes it, clears the diff and
\* promotes best_runtime. Failure rebuilds the chain at the finalized block
\* and reports the best height of the rebuilt chain as previous_best_height.
JustificationVerify ==
  /\ Running
  /\ pendingJustifications # <<>>
  /\ LET j == Head(pendingJustifications) IN
     IF j.valid /\ finalized < j.target /\ j.target <= best
     THEN IF j.target # best
          THEN /\ panicked' = "not_best"
               /\ UNCHANGED <<sources, nextSourceId, requestVars, chainVars, snapshot, event>>
          ELSE /\ pendingJustifications' = Tail(pendingJustifications)
               /\ finalized' = best
               /\ RecordFinalized
               /\ storageDiff' = {}
               /\ IF bestRuntime # None
                  THEN finalizedRuntime' = bestRuntime /\ bestRuntime' = None
                  ELSE UNCHANGED <<finalizedRuntime, bestRuntime>>
               /\ event' = [kind |-> "finalized", prev |-> best, cause |-> "none"]
               /\ UNCHANGED <<sources, nextSourceId, requestVars, best, snapshot, panicked>>
     ELSE /\ pendingJustifications' = Tail(pendingJustifications)
          /\ Reset(j.src, finalizedInfo, finalizedInfo, "justification")
          /\ RebuiltChain
          /\ UNCHANGED <<nextSourceId, nextRequestId, finalizedInfo, finalizedRuntime, snapshot, panicked>>

-----------------------------------------------------------------------------

\* Every call leaves the configuration the engine was built with alone.
Next ==
  /\ \/ \E b \in Heights : AddSource(b)
     \/ \E s \in DOMAIN sources, b \in Heights : RaiseSourceBestBlock(s, b)
     \/ \E s \in DOMAIN sources : RemoveSource(s)
     \/ QueryDesiredRequests
     \/ \E d \in snapshot : InsertRequest(d)
     \/ \E id \in DOMAIN obsoleteRequests : FinishObsoleteRequest(id)
     \/ \E id \in QueuedRequests : FinishRequestSuccess(id)
     \/ \E id \in QueuedRequests : FinishRequestFailed(id)
     \/ BlockVerifyHeaderOnly
     \/ BlockVerifyFullSuccess
     \/ BlockVerifyFullStep1Failure
     \/ BlockVerifyFullStep2Failure
     \/ JustificationVerify
  /\ UNCHANGED full

Spec == Init /\ [][Next]_vars

\* A reliable network: every request is answered (no finish_request_failed)
\* and no source leaves.
ReliableNext ==
  /\ \/ \E b \in Heights : AddSource(b)
     \/ \E s \in DOMAIN sources, b \in Heights : RaiseSourceBestBlock(s, b)
     \/ QueryDesiredRequests
     \/ \E d \in snapshot : InsertRequest(d)
     \/ \E id \in DOMAIN obsoleteRequests : FinishObsoleteRequest(id)
     \/ \E id \in QueuedRequests : FinishRequestSuccess(id)
     \/ BlockVerifyHeaderOnly \/ BlockVerifyFullSuccess \/ BlockVerifyFullStep1Failure
     \/ BlockVerifyFullStep2Failure \/ JustificationVerify
  /\ UNCHANGED full

\* The caller loops: it calls process_one and runs the verification it
\* yields, iterates desired_requests and starts what it returns (a detail
\* taken from a fresh list fits the queue; one from an older list may not,
\* so starting a fitting one is only strongly fair), and reports every
\* answer. Sources choose their best blocks freely: no fairness.
Fairness ==
  /\ WF_vars(QueryDesiredRequests /\ UNCHANGED full)
  /\ SF_vars(\E d \in snapshot : Fits(d.height, d.num) /\ InsertRequest(d) /\ UNCHANGED full)
  /\ WF_vars(\E id \in QueuedRequests : FinishRequestSuccess(id) /\ UNCHANGED full)
  /\ WF_vars(\E id \in DOMAIN obsoleteRequests : FinishObsoleteRequest(id) /\ UNCHANGED full)
  /\ WF_vars((BlockVerifyHeaderOnly \/ BlockVerifyFullSuccess) /\ UNCHANGED full)
  /\ WF_vars(JustificationVerify /\ UNCHANGED full)

LiveSpec == Init /\ [][ReliableNext]_vars /\ Fairness

-----------------------------------------------------------------------------
(* Invariants and properties.                                              *)

Slot == [st : {"missing"}, rq : {None}, src : {None}, blk : {None}]
        \cup [st : {"requested"}, rq : RequestIds, src : SourceIds, blk : {None}]
        \cup [st : {"ready"}, rq : {None}, src : SourceIds, blk : Block]

TypeOK ==
  /\ DOMAIN sources \subseteq SourceIds
  /\ \A s \in DOMAIN sources :
        sources[s] \in [best : Heights, banned : BOOLEAN, numReq : 0..MaxRequests]
  /\ nextSourceId \in 0..MaxSources
  /\ queue \in [base..(base + DownloadAhead - 1) -> Slot]
  /\ DOMAIN obsoleteRequests \subseteq RequestIds
  /\ obsoleteBySource \subseteq SourceIds \X RequestIds
  /\ nextRequestId \in 0..MaxRequests
  /\ finalized \in Heights /\ finalizedInfo \in Heights /\ best \in Heights
  /\ pendingJustifications \in Seq([target : 1..MaxHeight, valid : BOOLEAN, src : SourceIds])
  /\ finalizedRuntime \in Nat \cup {None} /\ bestRuntime \in Nat \cup {None}
  /\ storageDiff \subseteq 1..MaxHeight
  /\ full \in BOOLEAN
  /\ panicked \in {"none", "u32_overflow", "not_best"}
  /\ event \in [kind : {"none", "new_best", "reset", "finalized"}, prev : Heights,
                cause : {"none", "header_error", "non_canonical", "invalid_header",
                         "header_body_error", "justification"}]

\* Per source, source_num_ongoing_requests (obsolete requests plus requests
\* of the queue) equals the num_ongoing_requests counter that
\* insert_request increments and every finish decrements, across resets
\* that move requests to the obsolete set and removals of other sources.
NumOngoingRequestsConsistent ==
  \A s \in DOMAIN sources :
     sources[s].numReq =
        Cardinality({id \in QueuedRequests : RequestSource(id) = s})
        + Cardinality({id \in DOMAIN obsoleteRequests : obsoleteRequests[id] = s})

\* obsolete_requests and obsolete_requests_by_source index the same
\* requests, no request is both obsolete and in the queue, and after
\* remove_source no request (queued or obsolete) refers to a removed source.
NoDanglingRequests ==
  /\ obsoleteBySource = {<<obsoleteRequests[id], id>> : id \in DOMAIN obsoleteRequests}
  /\ DOMAIN obsoleteRequests \cap QueuedRequests = {}
  /\ \A id \in DOMAIN obsoleteRequests : obsoleteRequests[id] \in DOMAIN sources
  /\ \A id \in QueuedRequests : RequestSource(id) \in DOMAIN sources

\* Full mode: the runtime the next verification extracts is the runtime of
\* the best block, finalized_runtime is the runtime of the finalized block
\* (the VM handle is never lost), and best_to_finalized_storage_diff holds
\* the changes of exactly the blocks above the finalized one.
BestStorageMatchesChain ==
  full =>
    /\ finalizedRuntime = RuntimeAt(finalized)
    /\ ParentRuntime = RuntimeAt(best)
    /\ storageDiff = (finalized + 1)..best

\* Spec 4.4: desired_requests only pairs a Missing slot with sources that
\* are not banned.
DesiredRequestsSkipBanned ==
  \A d \in DesiredRequests : ~sources[d.src].banned

\* Reset { previous_best_height } is the height of the best block before
\* the reset (doc comment of BlockVerification::Reset and
\* JustificationVerification::Reset).
ResetReportsPreviousBest ==
  [][event'.kind = "reset" => event'.prev = best]_vars

\* With honest sources on a reliable network, the chain catches up with
\* the sources: once some source reports a best block at height h, the
\* best block eventually reaches h (spec 1: drive the best block forward;
\* a request pipeline that must not stall).
BestReachesSourceBest ==
  \A h \in 1..MaxHeight :
     (\E s \in DOMAIN sources : sources[s].best >= h) ~> best >= h

\* The engine implements the chain its doc comments promise
\* (OptimisticChain): the best block grows one block at a time, a
\* justification finalizes the whole chain, and every BlockVerification or
\* JustificationVerification Reset goes back to "the latest finalized
\* block" (doc comments of both Reset variants); the reported outcome is
\* event.kind.
Chain == INSTANCE OptimisticChain WITH reported <- event.kind

ImplementsOptimisticChain == Chain!Spec

\* Iterating desired_requests() never panics.
DesiredRequestsNeverPanic == panicked # "u32_overflow"

\* JustificationVerify::perform never fails its is_current_best_block assert.
JustificationNeverPanics == panicked # "not_best"

=============================================================================

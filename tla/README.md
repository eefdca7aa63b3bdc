# TLA+ models of smoldot's block synchronisation

This directory holds TLA+ models of the syncing state machines in `src/src/sync/`.
It also holds the TLC configurations that check them.

## The system

| Part | Source | State | Operations |
|------|--------|-------|------------|
| Optimistic sync engine | `src/src/sync/optimistic.rs` | sources (best block, banned flag, ongoing request counter), the verification queue, obsolete requests indexed twice (by id and by source), the non-finalized chain, pending justifications, the finalized and best runtimes, the best-to-finalized storage diff | `add_source`, `raise_source_best_block`, `remove_source`, `desired_requests`, `insert_request`, `finish_request_success`, `finish_request_failed`, `process_one`, `BlockVerify::start` and its full-mode continuation, `JustificationVerify::perform` |
| Verification queue | `verification_queue.rs` (not in `src/`, spec 4.4) | a window of `download_ahead_blocks` slots starting at best+1, each slot Missing, Requested or Ready | `desired_requests`, `insert_request`, `finish_request`, `pop_first_block`, `drain_source`, `into_requests` |
| All-forks sync engine | `src/src/sync/all_forks.rs` | sources with their known blocks, pending and disjoint blocks, banned blocks, a per-source slot of pending justifications and commits | block announces, ancestry search, header verification, finality-proof verification, source add and remove |
| Per-source pending proofs | `all_forks.rs` 231-403 | at most two proofs: the lowest and the highest target offered | `insert`, `take_one`, `merge` |
| BABE genesis configuration | `src/src/chain/chain_information/babe_genesis_config.rs` | one VM run | storage get, log level, log emit, decode |
| Chain specification structures | `src/src/chain_spec/structs.rs` | serde structs | none |
| Mobile-node platform | `src/bin/mobile-node/src/platform/` | monotonic `Instant` | `now`, `sleep`, `sleep_until`; the rest is `todo!()` |

### How the parts interact

Each engine is a passive state machine owned by its caller. The caller:
- reports sources;
- asks for `desired_requests` and starts some of them with `insert_request`;
- reports the answers;
- repeatedly calls `process_one` to verify what has arrived.

Verification hands out a token (`BlockVerify`, `JustificationVerify`, `HeaderVerify`, `FinalityProofVerify`). The token owns the whole engine by value and gives it back when the step ends. Nothing can run between the start and the end of a verification. A public call is therefore one atomic step, and concurrency shows up only as the order in which the caller interleaves calls. Requests answered after a reset, a `desired_requests` list that went stale before it was used, and sources removed mid-request are all such orders.

## Modules

### `OptimisticSync.tla` (and `MCOptimisticSync.tla`)

The optimistic engine. Each public operation is one action.

| Action | Code |
|--------|------|
| `AddSource` | `add_source` |
| `RaiseSourceBestBlock` | `raise_source_best_block` |
| `RemoveSource` | `remove_source` |
| `QueryDesiredRequests` | the caller iterating `desired_requests` and keeping the list in `snapshot` |
| `InsertRequest` | `insert_request`, with a detail from that possibly stale list |
| `FinishObsoleteRequest` | the obsolete path of both `finish_*` |
| `FinishRequestSuccess` | `finish_request_success` on a queued request |
| `FinishRequestFailed` | `finish_request_failed` on a queued request |
| `BlockVerifyHeaderOnly` | `BlockVerify::start` when `finalized_runtime` is `None` |
| `BlockVerifyFullSuccess`, `BlockVerifyFullStep1Failure`, `BlockVerifyFullStep2Failure` | the three outcomes of `BlockVerification::from` |
| `JustificationVerify` | `JustificationVerify::perform` |

`process_one`'s choice between justification, block and idle is the guard `FirstBlockReady`.

`finalized` is the finalized block of the chain. `finalizedInfo` is `inner.finalized_chain_information`. Every reset except the header-only one rebuilds the chain from `finalizedInfo` (`RebuiltChain`, `NonFinalizedTree::new`). Only `JustificationVerify::perform` refreshes it (`RecordFinalized`).

### `OptimisticChain.tla`

This is the abstract specification of what the optimistic engine promises its caller about its chain, taken from the doc comments of `BlockVerification` and `JustificationVerification`:
- `NewBest` extends the chain by one block.
- `Finalized` finalizes the whole chain, so the best block becomes the finalized one.
- `Reset` goes back "to the latest finalized block".

Its state includes `reported`, the outcome the last call reported. `OtherCall` covers the calls that report no chain event. Because of `reported`, a `Reset` that leaves the best block where it was cannot pass as a step that changes nothing.

`OptimisticSync` instantiates it as `Chain` with the identity mapping on `finalized` and `best`, and `reported <- event.kind`. `ImplementsOptimisticChain == Chain!Spec` is the refinement property.
- In full mode it holds: every reset rebuilds the chain from `finalized_chain_information`. `opt_chain_full.cfg` checks this (2,247,122 states, about 1 minute). It is kept as a further configuration because the run list is full.
- In header-only mode it fails, and `opt_reset_chain` shows it. The error path of `BlockVerify::start` (`optimistic.rs:916-941`) bans the source and obsoletes the requests, but keeps `self.chain`. So a `Reset` leaves the best block above the finalized one. The doc comment of `BlockVerification::Reset` (960-962) says the chain is reset "to the latest finalized block".

How the data is abstracted:
- A block is its height, the verifier's verdict (ok, bad header, bad body) and its justification (none, valid, invalid).
- The chain is the pair `finalized`, `best`.
- A runtime is the number of code upgrades up to its block (`RuntimeAt`).
- The storage diff is the set of heights merged into it.
- A panic of the code is recorded in `panicked`, and no step follows it.
- `full` is whether `Config::full` was `Some` when the engine was built. It is chosen in `Init` from the constant `Modes` and never changes, so one run can explore both modes.
- The verification queue is modelled from spec 4.4, because its file is not under `src/`.

### `BestStorageReads.tla`

The storage reads of a full-mode block verification (`BlockVerification::from` and the `inject_*` calls, `optimistic.rs:1115-1163` and `1405-1516`). The verifier reads the best block's storage. The engine holds only `best_to_finalized_storage_diff`; the finalized storage is reached through the caller.

State and correspondence:
- `finalizedStorage` is what the caller answers from. `diff` is the diff: each key has no entry (`Absent`), a value, or an erasure (`None`). Both are chosen in `Init`, because neither changes while a `BlockVerification` token holds the engine.
- `request` is the suspension the verifier is in: `FinalizedStorageGet`, `FinalizedStorageNextKey` or `FinalizedStoragePrefixKeys`. `keyOverwrite` is `StorageNextKey::key_overwrite`. `answer` is the last read handed back to the verifier.
- `StorageGet`, `StorageNextKey` and `StoragePrefixKeys` are the three branches of `BlockVerification::from`. `InjectValue`, `InjectKeysOrdered` and `InjectKey` are the caller's answers. `InjectKey` asks about `AskedKey` and suspends again on `NextOf`.
- Keys are `1..NumKeys` in lexicographic order. A prefix is an interval of that order, because the keys that start with a prefix are contiguous.
- `DiffNextKey` and `DiffPrefixKeys` model `storage_diff::storage_next_key` and `storage_prefix_keys_ordered` from spec 4.4, because `storage_diff` is not under `src/`.

### `ProofSlot.tla`

`ProofSlot` defines `SourcePendingJustificationProofs` (`all_forks.rs` 216-403) as operators. A slot is a sequence of at most two stored proofs, ordered by target height:
- `<<>>` is None;
- `<<p>>` is One;
- `<<low, high>>` is Two.

A stored proof is a commit or a non-empty list of `n` justifications of one block. The operators are `Insert`, `TakeOneRest`/`Taken` (take_one) and `Merge`.

`AllForksFinality` applies them at each call site of the pipeline.

### `AllForksFinality.tla` (and `MCAllForksFinality.tla`)

The finality-proof pipeline of `AllForksSync`. Each source has its `unverified` and `pending` slots. The tree is the linear chain `finalized..known`, and `disjoint` holds the heights waiting for header verification. The actions are:

| Action | Code |
|--------|------|
| `GrandpaCommitMessage` | `grandpa_commit_message` |
| `AddBlockVacant` | `add_block` returning `UnknownBlock` (the guard `IsVacant`), then `AddBlockVacant::insert` |
| `FinalityProofVerify` | `process_one` taking a proof, then `FinalityProofVerify::perform` |
| `FinalityProofCancel` | the same `process_one`, then `cancel` |
| `HeaderVerify` | `process_one` yielding `HeaderVerify`, then a successful `perform` with its pending-to-unverified merge |

The ghost variable `offers` records, for each source and each of its two slots:
- `offered`: the targets inserted or merged into the slot since it was last None;
- `sinceTake`: the targets offered since take_one last handed out the high proof.

They state the doc comment's "keep the lowest and the highest target" promise of the slots.

Sources are honest: every proof is genuine, so a rejection is always a pipeline failure. Sources are symmetric model values.

### `AllForksBlocks.tla` (and `MCAllForksBlocks.tla`), `BlockTree.tla`

The block side of `AllForksSync`. Blocks are the nodes of a fixed universe of possible blocks (`Parent`, `Height`). A hash names one node, so a header whose hash matches is the expected block. `MCAllForksBlocks` defines the universe `Forks4`: the block `a1` beside the chain `b1 <- b2`, all on top of `G`.

State:
- `finalized` and `tree`: the external block tree;
- `unverified`: the disjoint set (`none`, `hh` for HeightHashKnown, `hk` for HeaderKnown);
- `bad`: blocks marked bad;
- `active`, `best`, `knows`: the sources, their best blocks and what each is believed to know;
- `requests`: the ongoing ancestry searches;
- `search`: the `FinishAncestrySearch` transaction being consumed;
- `outcome`: how the last response ended.

| Action | Code |
|--------|------|
| `AddSource` | `prepare_add_source` then `add_source` or `add_source_and_insert_block` (no banned-block GC there) |
| `RemoveSource` | `remove_source` |
| `AddKnownBlockToSource` | `add_known_block_to_source`, the caller reporting what a source knows |
| `BlockAnnounce` | `block_announce` and the commit of `TooOld`, `AlreadyInChain`, `Unknown` (with the GC loop) or `Known` |
| `AddRequest` | `desired_requests` joined with `add_request` |
| `FinishAncestrySearch`, `AncestrySearchFailed` | `finish_ancestry_search`, `ancestry_search_failed` |
| `AddBlock`, `AddBlockMalformed`, `AddBlockCancel`, `AncestryFinish` | `add_block` with every outcome, the token commits (`insert` runs the GC loop), `cancel`, `finish` |
| `HeaderVerifySuccess`, `HeaderVerifyFailure` | `process_one` yielding `HeaderVerify`, then `perform` |
| `GrandpaCommitFinalize`, `FinalityProofFinalize` | the two ways finality is applied |

`AddSourceKind` is `prepare_add_source`'s classification of the new source's best block. `ReplaceOccupied` is `AddBlockOccupied::replace`, the commit of an `AlreadyInChain` or `AlreadyPending` block of an ancestry response.

The GC loop is the recursive operator `Collect`. `GCThreshold` stands for the hard-coded 100.

`pending_blocks` is not under `src/`. Its operations are modelled from spec 4.1 and 4.2, and are marked spec_modelled in the map.

`BlockTree` is the abstract specification of the external tree (spec 3): it descends from the finalized block, a header is inserted after its parent and only if it verifies, and finalization keeps only descendants. No run checks `AllForksBlocks` against it. With `Rejected <- Invalid` it restated the leaves filter and `TreeDisjointExclusive`, and it said nothing where `Invalid` is empty. The module is kept as the written-down interface of the tree.

### `PlatformTimer.tla`

The mobile node's timers (`src/bin/mobile-node/src/platform/`). `clock` is the `CLOCK_MONOTONIC` reading, `deadlines` the instants the caller computed with `now() + d`, and `delays` the pending `Delay` futures. `SleepUntil` computes `when - now` with Duration subtraction, which panics when the deadline has passed.

## Runs

| Run | Expect | Checks |
|-----|--------|--------|
| `opt_requests` | pass | Both modes, chosen at construction (`Modes = {FALSE, TRUE}`). `NumOngoingRequestsConsistent`: each source's counter equals its queued plus obsolete requests. `NoDanglingRequests`: the two obsolete indexes agree, and no request refers to a removed source. `BestStorageMatchesChain`: in full mode, the finalized and best runtimes and the storage diff match the chain after every success, failure, reset and finalization. 4,401,363 states, about 2 minutes. |
| `opt_live` | pass | `BestReachesSourceBest`: every height some source reports as its best is eventually reached by the best verified block. Both modes, two honest sources, heights 1..3, a reliable network, and the caller's fairness described below; 84,640 states. |
| `storage_reads` | pass | `ReadsSeeBestStorage`: every value, next key and prefix key list handed to the verifier is the best block's, composed from the finalized storage and the diff, after any number of `NextOf` rounds. `SuspendedReadAnswered`: a suspended read is eventually answered, so the `key_overwrite` loop ends. All finalized storages and diffs over 3 keys and 2 values; 250,224 states. |
| `opt_u32_overflow` | violation | A source best more than `u32::MAX` above a Missing slot panics `desired_requests`. `U32Max` stands for `u32::MAX` at a scale TLC reaches. |
| `af_proofs` | pass | `NoStrandedPendingProof`: no commit waits in pending for a block already in the tree. `LowestTargetKept` and `HighestTargetKept`: every unverified and pending slot keeps the extreme targets offered to it, through the pipeline's inserts, take_one and merges. `TypeOK` also says only commits are parked, and no slot holds an empty justification list. 243,366 states. |
| `af_justification_early` | violation | A genuine justification sent with its block is verified before the block and discarded. |
| `opt_reset_chain` | violation | `ImplementsOptimisticChain` in header-only mode. Block 1 becomes the best block and block 2 has a bad header. The `Reset` reports `header_error`, but the best block stays at 1 with 0 finalized: the chain does not go back to the latest finalized block. |
| `opt_just_assert` | violation | In header-only mode, a re-sent block with a genuine justification reaches `assert!(apply.is_current_best_block())`. |
| `af_blocks` | pass | `TreeDisjointExclusive`: no block is both verified and pending, which `prepare_add_source`'s `unreachable!()` relies on. `NoBannedBlockVerified`: a banned block never reaches the tree, though `update_source_and_block` never looks at `banned_blocks`. Two sources, a banned block `b1`, faulty answers and source churn; 792,700 states, about 2 minutes. |
| `af_blocks_live` | pass | `SourceBestEventuallyVerified`: a source best block that can still join the tree eventually does, unless the source leaves or changes its best block. One honest source, an invalid block `a1`, and a GC threshold of 5 that the 4 blocks never reach. So it does not cover the GC, failed ancestry requests or reconnecting sources. The configurations `af_gc_stall`, `af_request_stall` and `af_reconnect_stall` show that the property fails under each of those. |
| `timer_past_deadline` | violation | `sleep_until` with a deadline already passed panics in `Instant - Instant`. |
| `af_commit_stale` | violation | `DisjointAboveFinalized` (spec 3 and 8): `grandpa_commit_message` applies finality without `set_finalized_block_height` (`all_forks.rs:937`), so a pending block stays at or below the finalized height. One source, no faults. |

**Bounds.** The runs use:
- 2 sources;
- 3 request ids;
- heights 0..3;
- a 2-slot window;
- one runtime upgrade, at height 2.

With these bounds a request can span two slots, a second request can be refused and become obsolete, and a reset can happen while two requests are in flight. A source can be removed with obsolete requests left over, and a block can be finalized above an upgrade. Every action and every branch of the verification actions fires in `opt_requests`.

The proof runs use:
- target heights 1..3, so that a proof can fall strictly between the two kept ones;
- two justifications per block, so that take_one pops from a list;
- two sources, so that a merge releases proofs of a source other than the one whose block arrived.

The all-forks block runs use:
- the 4-block universe, which has a fork (`a1` beside `b1`), a chain of two (`b1 <- b2`) so an ancestry search walks two blocks and a block has a pending parent, and a block at height 1 off the finalized chain once `b1` or `a1` is finalized;
- `GCThreshold = 3`, so the GC can fire with three pending blocks;
- `MaxRequestsPerBlock = 1`, so the cap blocks a second request.

Five blocks with two sources reach 9 million states without a new kind of step, and two sources exhaust memory for the liveness check. The liveness run therefore has one source and no symmetry.

The storage-read run uses 3 keys and 2 values. This includes two erased finalized keys in a row, so `inject_key` goes round `NextOf` twice. It also includes a key inserted before an erased one, and prefixes of one, two and three keys. With 4 keys the run takes about 8 minutes and shows no new kind of step.

**Fairness.** The engines never schedule themselves. `FairSpec` in `AllForksBlocks` assumes the caller:
- calls `process_one` until `AllSync` and performs what it yields;
- starts every desired request;
- gets every request answered, consumes the response and commits each token.

Each of these steps can be disabled for a while: another call holds the engine (`search`), or the per-block cap is reached. So the assumption is strong fairness per block, per (source, block) and per request, not weak fairness. Announces, source changes, cancels and finality come when they come; no fairness is assumed of them. 
`LiveSpec` in `OptimisticSync` makes the same kind of assumption of the caller of the optimistic engine:
- `desired_requests` is called again and again (weak fairness);
- a desired request that still fits the window is started (strong fairness, since it fits only until another one is started or a source leaves);
- every in-flight request is answered, and every obsolete one finished (weak fairness);
- `process_one` is called while a block or justification is ready (weak fairness).

`LiveSpec` in `BestStorageReads` assumes weak fairness of the three inject calls. A caller holding a suspended `BlockVerification` can do nothing with the engine but answer it.

`ReliableNext` leaves out failed requests and source removal. Under them nothing can be promised: a source that always fails, or leaves, stalls the download. `Honest = TRUE` makes every block verify and carry no justification. `RecycleIds = TRUE` lets the smallest free request id stand for a fresh one. This is sound because the code only compares ids with those in flight, and it keeps the state space finite.

## Further configurations

These configurations are kept beside the runs and reproduce findings, but are not in the run list:

| Configuration | Shows |
|--------|------|
| `opt_banned_desired.cfg` | `desired_requests` does not filter banned sources, although spec 4.4 says it does (`optimistic.rs:545`). |
| `opt_chain_full.cfg` | In full mode, the engine implements `OptimisticChain` (passes). |
| `af_cancel_drops.cfg` | `FinalityProofVerify::cancel` loses the proof that `process_one` took out of its source (`all_forks.rs:2132`). |
| `opt_reset_prev.cfg` | A justification failure reports the finalized height as `previous_best_height` (`optimistic.rs:1318`). |
| `af_disjoint_cap.cfg` | `max_disjoint_headers` is never read: `new` drops it and the GC loops use 100 (`all_forks.rs:1432`, `:1677`). The disjoint set exceeds the configured cap + 1 (`DisjointWithinConfiguredCap`, spec 8). |
| `af_request_stall.cfg` | One failed ancestry request makes the only source forget the block (`finish`, `all_forks.rs:1232`), which is never requested again. |
| `af_gc_stall.cfg` | With the GC threshold at 3, the GC removes the source best block `b2` together with every source's knowledge of it, so it is never downloaded again (`SourceBestEventuallyVerified` fails; `all_forks.rs:1690`). |
| `af_reconnect_stall.cfg` | A source re-added with a pending best block registers only that block (`all_forks.rs:1818`); the missing parent is known to nobody. |

Each is run with `tlc -workers 2 -config <cfg> M`, where M is `MCOptimisticSync`, `MCAllForksFinality` or `MCAllForksBlocks`.

## Findings

- `desired_requests` panics on a best block far ahead (`optimistic.rs:549`).
- `desired_requests` ignores the ban flag (`optimistic.rs:545`, against spec 4.4).
- `JustificationVerification::Reset` reports the wrong previous best (`optimistic.rs:1318`).
- A malicious source can reach the justification assert (`optimistic.rs:1329`): pending justifications survive a header-only reset.
- A header-only `BlockVerification::Reset` keeps the best block (`optimistic.rs:916-941`), against the doc comment at 960-962.
- All-forks justifications that arrive with their block are verified before the block and are always discarded (`all_forks.rs:1409`, `:982`).
- `FinalityProofVerify::cancel` loses the proof (`all_forks.rs:2132`).
- The all-forks GC forgets a source's best block with all knowledge of it, so the download stalls (`all_forks.rs:1690`). This contradicts the `max_disjoint_headers` doc comment (138-140).
- `sleep_until` panics on a deadline in the past (`platform/mod.rs:35`, `instant.rs:32`).
- The findings of the further configurations above.

## Plan

The most important behaviour comes first.

1. `OptimisticSync` and `BestStorageReads` (done). Liveness of the download window (`optimistic.rs:713`) is checked by `opt_live`. Short or empty answers are not modelled (see below).
2. `ProofSlot` and `AllForksFinality` (done).
3. `AllForksBlocks` (done). `BlockTree` is written down but not checked. Next: compose with `AllForksFinality`, so that finality proofs and header verification share one tree.
4. An abstract chain refined by `OptimisticSync`: `OptimisticChain` (done). It holds in full mode only.
5. `PlatformTimer` (done).

## Not modelled

- Chain specification structures: pure data.
- The BABE genesis configuration. It makes one runtime call, whose loop answers storage reads, the log level and log emits, and refuses any other host call; then it decodes the output. The code is sequential and keeps no state between calls, so there is no interleaving, ordering or recovery to explore. A unit test reaches each outcome directly.
- Several justifications per block in the optimistic engine. A second justification of a block that the first one just finalized would reset the chain (hazard at `optimistic.rs:867`). Allowing two per block multiplies the states of `opt_requests` beyond its time limit.
- Short or empty `finish_request_success` answers. What `verification_queue::finish_request` does with them is neither in `src/` nor in the spec.
- `block_body_response` of the all-forks engine: commented out in the code.
- The bodies of the BABE, GRANDPA and runtime verifiers: outside this repository's `src/`. They are replaced by a verdict on each block.

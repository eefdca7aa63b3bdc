-------------------------- MODULE BestStorageReads --------------------------
(***************************************************************************)
(* The storage reads of a full-mode block verification in                 *)
(* src/sync/optimistic.rs. The block is verified against the storage of   *)
(* the best block, which the engine does not hold: it holds the finalized *)
(* block's storage only through its caller, and best_to_finalized_storage_ *)
(* diff, the changes of the blocks from the finalized one to the best one. *)
(* BlockVerification::from serves a read from the diff when it can and    *)
(* otherwise suspends with FinalizedStorageGet, FinalizedStoragePrefixKeys *)
(* or FinalizedStorageNextKey; the caller answers from the finalized      *)
(* storage and the answer is composed with the diff.                       *)
(*                                                                         *)
(* Keys are 1..NumKeys in lexicographic order; the keys that start with a *)
(* prefix are a contiguous run of that order, so a prefix is an interval  *)
(* lo..hi. The diff is external (storage_diff, not under src/): an entry  *)
(* is absent, a new value, or an erasure. The finalized storage and the   *)
(* diff do not change while a block is verified (the token owns the       *)
(* engine), so they are chosen in Init.                                   *)
(***************************************************************************)
EXTENDS Naturals

CONSTANTS
  NumKeys,  \* number of storage keys
  Values,   \* storage values
  None,     \* model value: no value, no key
  Absent    \* model value: the key has no entry in the diff

ASSUME NumKeys \in Nat \ {0} /\ None \notin Values /\ Absent \notin Values \cup {None}

Keys     == 1..NumKeys
Prefixes == {<<lo, hi>> \in Keys \X Keys : lo <= hi}

VARIABLES
  finalizedStorage,  \* the finalized block's storage, as the caller answers it
  diff,              \* best_to_finalized_storage_diff
  request,           \* the read the verifier is suspended on, or None
  keyOverwrite,      \* StorageNextKey::key_overwrite
  answer             \* the last read the verifier was given, and its result

vars == <<finalizedStorage, diff, request, keyOverwrite, answer>>

\* The smallest key of a set, None for the empty set.
Least(S) == IF S = {} THEN None ELSE CHOOSE k \in S : \A x \in S : k <= x

\* The caller's answer to FinalizedStorageNextKey: the key of the
\* finalized storage that strictly follows k.
FinalizedNextKey(k) == Least({x \in Keys : x > k /\ finalizedStorage[x] # None})

\* storage_diff::storage_next_key(key, in_finalized): the next key after
\* key in the best block, given the finalized block's next key. A key
\* inserted by the diff before the finalized one wins; a finalized key the
\* diff erased is not an answer, and the search must go on after it
\* (NextOf).
DiffNextKey(key, fin) ==
  LET inserted == {x \in Keys : x > key /\ diff[x] \in Values}
      before   == IF fin = None THEN inserted ELSE {x \in inserted : x < fin}
  IN IF fin # None /\ diff[fin] = None /\ before = {}
     THEN [kind |-> "next_of", key |-> fin]
     ELSE [kind |-> "found", key |-> Least(before \cup (IF fin = None THEN {} ELSE {fin}))]

\* storage_diff::storage_prefix_keys_ordered: the finalized keys of the
\* prefix that the diff did not erase, and the keys the diff inserted.
DiffPrefixKeys(p, finKeys) ==
  {x \in finKeys : diff[x] # None} \cup {x \in p[1]..p[2] : diff[x] \in Values}

\* OptimisticSync::best_block_storage().get: the best block's value of k,
\* from the diff, or from the finalized storage when the diff has no entry.
BestValue(k) == IF diff[k] = Absent THEN finalizedStorage[k] ELSE diff[k]

Init ==
  /\ finalizedStorage \in [Keys -> Values \cup {None}]
  /\ diff \in [Keys -> Values \cup {None, Absent}]
  /\ request = None
  /\ keyOverwrite = None
  /\ answer = None

\* Mutant: every read is served from the diff, with or without an entry.
StorageGetFromDiffOnly(k) ==
  /\ request = None
  /\ answer' = [kind |-> "get", key |-> k, result |-> diff[k]]
  /\ UNCHANGED <<finalizedStorage, diff, request, keyOverwrite>>

\* Mutant: the diff is not looked at; every read goes to the caller.
StorageGetFinalizedOnly(k) ==
  /\ request = None
  /\ request' = [kind |-> "get", key |-> k]
  /\ UNCHANGED <<finalizedStorage, diff, keyOverwrite, answer>>

\* BodyVerifyStep2::StorageGet reaching BlockVerification::from: a key the
\* diff has an entry for is answered at once and the verification goes on;
\* any other suspends with FinalizedStorageGet.
StorageGet(k) ==
  /\ request = None
  /\ IF diff[k] # Absent
     THEN answer' = [kind |-> "get", key |-> k, result |-> diff[k]] /\ UNCHANGED request
     ELSE request' = [kind |-> "get", key |-> k] /\ UNCHANGED answer
  /\ UNCHANGED <<finalizedStorage, diff, keyOverwrite>>

\* BodyVerifyStep2::StorageNextKey: always suspends, without overwrite.
StorageNextKey(k) ==
  /\ request = None
  /\ request' = [kind |-> "next", key |-> k]
  /\ keyOverwrite' = None
  /\ UNCHANGED <<finalizedStorage, diff, answer>>

\* BodyVerifyStep2::StoragePrefixKeys: always suspends.
StoragePrefixKeys(p) ==
  /\ request = None
  /\ request' = [kind |-> "prefix", prefix |-> p]
  /\ UNCHANGED <<finalizedStorage, diff, keyOverwrite, answer>>

\* StorageGet::inject_value with the finalized block's value.
InjectValue ==
  /\ request # None /\ request.kind = "get"
  /\ answer' = [kind |-> "get", key |-> request.key, result |-> finalizedStorage[request.key]]
  /\ request' = None
  /\ UNCHANGED <<finalizedStorage, diff, keyOverwrite>>

\* StoragePrefixKeys::inject_keys_ordered with the finalized keys of the
\* prefix, composed with the diff.
InjectKeysOrdered ==
  /\ request # None /\ request.kind = "prefix"
  /\ LET p == request.prefix
         finKeys == {x \in p[1]..p[2] : finalizedStorage[x] # None}
     IN answer' = [kind |-> "prefix", prefix |-> p, result |-> DiffPrefixKeys(p, finKeys)]
  /\ request' = None
  /\ UNCHANGED <<finalizedStorage, diff, keyOverwrite>>

\* Mutant: the caller is always asked about the verifier's key.
AskedKeyIgnoresOverwrite == request.key

\* StorageNextKey::key: the key the caller is asked about.
AskedKey == IF keyOverwrite # None THEN keyOverwrite ELSE request.key

\* StorageNextKey::inject_key with the finalized next key of the asked key.
\* Found goes back to the verifier; NextOf suspends again, asking for the
\* key after the erased one.
InjectKey ==
  /\ request # None /\ request.kind = "next"
  /\ LET search == DiffNextKey(AskedKey, FinalizedNextKey(AskedKey)) IN
     IF search.kind = "found"
     THEN /\ answer' = [kind |-> "next", key |-> request.key, result |-> search.key]
          /\ request' = None
          /\ keyOverwrite' = None
     ELSE /\ keyOverwrite' = search.key
          /\ UNCHANGED <<request, answer>>
  /\ UNCHANGED <<finalizedStorage, diff>>

Next ==
  \/ \E k \in Keys : StorageGet(k) \/ StorageNextKey(k)
  \/ \E p \in Prefixes : StoragePrefixKeys(p)
  \/ InjectValue
  \/ InjectKeysOrdered
  \/ InjectKey

Spec == Init /\ [][Next]_vars

\* The caller answers every suspension it is handed (it holds the
\* BlockVerification and can do nothing else with it).
LiveSpec == Spec /\ WF_vars(InjectValue) /\ WF_vars(InjectKeysOrdered) /\ WF_vars(InjectKey)

-----------------------------------------------------------------------------

TypeOK ==
  /\ finalizedStorage \in [Keys -> Values \cup {None}]
  /\ diff \in [Keys -> Values \cup {None, Absent}]
  /\ request \in {None} \cup [kind : {"get", "next"}, key : Keys]
                 \cup [kind : {"prefix"}, prefix : Prefixes]
  /\ keyOverwrite \in Keys \cup {None}
  /\ answer \in {None} \cup [kind : {"get"}, key : Keys, result : Values \cup {None}]
                \cup [kind : {"next"}, key : Keys, result : Keys \cup {None}]
                \cup [kind : {"prefix"}, prefix : Prefixes, result : SUBSET Keys]

\* Spec 4.4 (full mode): "Prefix-keys and next-key responses are composed
\* with the diff before returning to the verifier to present a best-block
\* view". Every read BlockVerification::from and the three inject calls
\* hand to the verifier is what the best block's storage holds: the value
\* best_block_storage().get gives, the next key that has a value there
\* (after any number of NextOf rounds), the keys of the prefix that have
\* a value there.
ReadsSeeBestStorage ==
  answer # None =>
    CASE answer.kind = "get" -> answer.result = BestValue(answer.key)
      [] answer.kind = "next" ->
            answer.result = Least({x \in Keys : x > answer.key /\ BestValue(x) # None})
      [] OTHER ->
            answer.result = {x \in answer.prefix[1]..answer.prefix[2] : BestValue(x) # None}

\* The NextOf loop of StorageNextKey::inject_key ends: a suspended read is
\* eventually answered, however many finalized keys in a row the diff has
\* erased.
SuspendedReadAnswered == (request # None) ~> (request = None)

=============================================================================

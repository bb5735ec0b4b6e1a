# Formal model of the ton-indexer block-to-action converter

This directory holds TLA+ modules and TLC configurations for the
ton-indexer code under `src/`. It also holds TLAPS proofs about them.

## The system

There are two source files.

* `src/indexer/celery.py` sets up the Celery application. Its beat
  schedule (lines 20-25) runs `indexer.tasks.get_block` every 60 s. So a
  block can be ingested, queued and converted more than once. It can also
  be converted by several worker processes at the same time. The
  configuration (lines 10-18) sets no `acks_late`, so Celery acknowledges
  a task when a worker receives it: a delivery whose process dies before
  the task ends is gone.
* `src/indexer/indexer/events/blocks/utils/block_tree_serializer.py` turns
  a classified block into the `Action` record that the consumer stores.
  That store deduplicates on `action_id`. The file has these parts:
  * **Identity Deriver**: `_calc_action_id` (72-81). It takes the node of
    least lt and builds a key from the node's message hash, or its tx hash,
    or "". It appends the btype, then applies SHA-256 and base64.
  * **Base Converter**: `_base_block_to_action` (84-106). It builds
    `tx_hashes` as `list(set(...))` and lists the node accounts in node
    order.
  * **Variant Normalizers**: the 32 `_fill_*` functions (128-626). Each one
    copies the class-specific fields into source, destination, asset,
    amount and a payload. Two of them can raise:
    * line 148, when a TON transfer has no destination;
    * line 180, when a plain jetton comment is not UTF-8.
  * **Action Assembler**: `block_to_action` (629-723). It dispatches on the
    block class, first match wins, and falls back for unknown classes. It
    then adds the generic addresses and the initiator's account. It builds
    `extended_tx_hashes` and finally applies `list(set())` to the accounts.
  * `_convert_peer_swap` (109-125) is never called and is not modelled.

`block_to_action` ends at line 723 with `return action`; the model's
`BlockToAction` is that returned record.

## Modules

| Module | Models |
|---|---|
| `BlockTreeSerializer` | All of `block_tree_serializer.py`. Every function is an operator of the same role. A block is a record `[cls, btype, nodes, data, failed, initiating, value]`. An event node is `[lt, tx, acc, tick, msg]`. `Fault` is the outcome of a raise. |
| `Converter` | One call of `block_to_action` in one process, as a single atomic step (the function has no suspension point). |
| `MCConverter` | Every block class the code dispatches on, with every payload over a small value domain (about 15,000 blocks). These sit on four node shapes: with or without an initiating node, and a tick-tock node. Optional keys may be absent and values may be None. |
| `Indexer` | The pipeline. `Ingest` is the beat task re-delivering a block, bounded by `MaxDeliveries`. `Convert(w, b, order)` is worker `w` converting one queued delivery, with the nodes listed as `order`; the outcome goes to the consumer's set `written` or to `faults`. `Restart(w)` is a worker process replaced with a new string hash order. `LoseDelivery(w, b)` is Celery's early acknowledgement meeting a dying process: one queued delivery of `b` is dropped without a result and `w` comes back with a hash order of its own. Process death and restarts are not code of this repository; they are modelled from the spec and from Celery's documented default. |
| `IndexerStore` | `SpecAdmissible(b, c)`, what spec 3 and 4 require of the action of block `b`, and the invariant `WrittenAdmissible`. |
| `MCIndexer` | Four blocks, with the lt tie, the shared nodes and the raising block described below. Two workers, two hash orders and at most two deliveries. A second block set, `MCBlocksEmptyKey`, holds two blocks rooted in hashless tick-tock nodes. |
| `SerializerProofs` | TLAPS lemmas about the operators of `BlockTreeSerializer`: `list(set(..))`, the fillers, the assembler. |
| `ConverterProofs` | TLAPS proof of `TxHashesExact` for one call of `block_to_action`. |
| `IndexerProofs` | TLAPS proofs about the pipeline: the inductive invariant `IInv`, four invariants and the action property `RedeliveryAgrees`. |

Data is abstracted as follows:

* An `AccountId` is `[addr |-> a]`, and `as_str` projects `a`. The class
  lives outside `src/`, so these two definitions are modelled from the
  spec.
* Hashes are model values.
* `sha256`+`base64` is an injective record, `[sha256 |-> key]`. Keys are
  token sequences, so `key += btype` is concatenation.
* Byte strings are token sequences. `decode("utf-8")` fails on an invalid
  byte and maps bytes to characters. `.replace("\u0000", "")` removes NUL
  tokens.
* `list(set(S))` is `ListOfSet(S, seed)`: `S` is listed in the order of the
  process's hash seed, which is a permutation of all strings
  (`IsHashOrder`, assumed of every seed by `SeedsAssumption`). The list is
  written as a rank enumeration: position `k` holds the seed element with
  `k - 1` seed elements of `S` before it (`SeedRank`). This is the same
  list as `SelectSeq(seed, LAMBDA x : x \in S)`; TLC checked the two agree
  on every subset of the model's strings. The rank form needs no
  induction, so TLAPS can reason about it.

## Runs

| Run | Config | Result | Shows |
|---|---|---|---|
| converter | `MCConverter.cfg` | pass | See below. |
| converter_fault | `MCConverterFault.cfg` | violation of `NoFault` | `block_to_action` raises for a TON transfer without destination (line 148). A jetton transfer with a non-UTF-8 plain comment raises too (line 180). |
| pipeline | `MCIndexer.cfg` | pass (146,016 states, about 70 s) | `IdFromRoot`, `DedupSound`, `FaultsConsistent` and `WrittenAdmissible` hold under re-delivery, two workers, restarts, lost deliveries and every listing of the nodes. `FaultsConsistent` says no block is both received and recorded as failed. `WrittenAdmissible` says every received action is one the spec admits for its block (spec 4.2-4.6). |
| pipeline_empty_key | `MCIndexerEmptyKey.cfg` | violation of `DedupSound` | Two TON transfers to different destinations, each rooted in a tick-tock node without a tx hash, both get the id of the key `"" + "ton_transfer"`. The consumer keeps one and drops the other. |
| pipeline_redelivery | `MCIndexerRedelivery.cfg` | pass (676 states) | `RedeliveryAgrees` on the two colliding blocks of `pipeline_empty_key`: re-delivering one block always yields the action already received for it, lists read as sets. So the dedup failure there comes from different blocks sharing an id, not from a retry. |
| pipeline_at_least_once | `MCIndexerLive.cfg` | violation of `EventuallyHandled` | Spec 6 expects at-least-once delivery of blocks. With every live worker draining the queue (`LiveSpec`), TLC still finds: the block is ingested, its one delivery is lost with its process (`LoseDelivery`), and it is never converted. |
| pipeline_id_stable | `MCIndexerIdStable.cfg` | violation of `IdStable` | Two nodes tie on the least lt. The listings `<<nA, nT>>` and `<<nT, nA>>` give two `action_id`s for one block. |
| pipeline_byte_identical | `MCIndexerByteIdentical.cfg` | violation of `ByteIdentical` | Two hash orders give the same action with `tx_hashes` and `accounts` in different orders. |

The converter run checks three properties over every class and payload:

* `TypeOK`: the result is a typed action carrying `CalcActionId(b)`.
* `AccountsExact`: the accounts are duplicate-free and hold no None. They
  are exactly the node accounts, the four generic addresses and a
  non-tick-tock initiator.
* `TxHashesExact`: the hash lists are exact, and `tx_hashes` is a subset
  of `extended_tx_hashes`.

Each property of a passing run has a mutant in `PROJECT.json`: a plausible
bug in the mapped code that TLC catches. The mutants are:

* keeping None in the accounts;
* dropping `destination_secondary`;
* dropping the `or ""` fallback;
* `max` for `min`;
* an unguarded diagnostic print that reads the first node's message, so
  raising depends on the listing (`FaultsConsistent`);
* a tick-tock node contributing no account (`WrittenAdmissible`);
* keeping only the first listed node's hash (`DedupSound`, and
  `RedeliveryAgrees` on the colliding blocks).

**Bounds.** The pipeline blocks are chosen so that each interesting case
happens:

* a unique-root block converted under both listings, which reaches
  `IdFromRoot`;
* a tie on lt between a message node and a tick-tock node, which gives
  `IdStable` its counterexample and lets a listing put the tick-tock node
  first;
* two classes built from the same nodes (`call_contract` and
  `nominator_pool_deposit`), which share a root but not a btype and so
  exercise the btype suffix of the key;
* a raising block, which takes the `Fault` branch of `Convert`.

Two deliveries and two workers with different hash orders are the smallest
setting in which a retry meets a different process. `MaxDeliveries` is a
bound of the model only: the beat has none. The at-least-once run uses one
delivery, which is enough for a lost delivery to leave its block unhandled.

The at-least-once run evaluates `list(set(..))` as `MCListOfSet`, the filter
`SelectSeq(seed, LAMBDA x : x \in S)`. TLC builds that list directly,
while the rank form of `ListOfSet` is about a hundred times slower once
TLC checks liveness. The two forms are the same operator:
* both read only the members of `S` that the hash order holds;
* the assumption `ListOfSetAgrees` of `MCIndexer` states that they agree
  on every such set under both model hash orders;
* TLC evaluates that assumption on every `MCIndexer` run that does not
  substitute.

**Fairness.** Only the at-least-once run uses fairness (`LiveSpec`). Each
block has weak fairness on "some worker converts a queued delivery of it":
a running worker keeps consuming the queue while it is non-empty. No
fairness is assumed on `Ingest`, `Restart` or `LoseDelivery`. Whether the
beat task fetches a lost block again is decided in `indexer.tasks`, which
is not in the repository. So the fairness is an assumption about the
deployment, which `celery.py` does not guarantee. It is generous to the
code: even under it, a lost delivery is never converted. No liveness
property is claimed to hold.

## Findings

1. **Raise on missing destination** (line 148). The code prints
   "Something very wrong" and then dereferences None. The spec (section 7)
   says no fault escapes.
2. **Unguarded UTF-8 decode** (line 180). The same contract is broken.
3. **The root tie-break is order-dependent** (line 73). lt is per account,
   so ties between nodes of different accounts happen. Re-delivery after
   re-classification can then yield a second `action_id`. The spec promises
   determinism (sections 5 and 8) but leaves the tie-break open
   (section 9).
4. **Output is not byte-identical** (lines 86, 720 and 722). `list(set())`
   order depends on `PYTHONHASHSEED`, which differs per process. The ids
   agree. Dedup stays sound, because `DedupSound` holds: the kept and the
   dropped actions are equal as sets.
5. **Hashless tick-tock roots share one id** (line 78). The key falls back
   to `""`, so every such block of one btype gets the same `action_id`.
   The consumer's dedup then silently drops all but one. The run also
   shows that `tx_hashes` keeps a `None` for such a node (line 86 has no
   `or ""`), while `extended_tx_hashes` uses `""` for a hashless initiating
   node.
6. **Delivery is at most once, not at least once** (`celery.py` line 16).
   `app.conf.update` sets neither `acks_late` nor
   `task_reject_on_worker_lost`, so Celery acknowledges a task on receipt.
   A worker process that dies during the task loses the block. Spec 6
   expects at-least-once delivery (`pipeline_at_least_once`). The safety
   invariants of the pipeline run and the proofs all cover `LoseDelivery`.

## Proofs (TLAPS)

The proofs are split the way the model is:
* `SerializerProofs` holds lemmas about the converter's operators.
* `ConverterProofs` and `IndexerProofs` use those lemmas for the two
  specifications.

**Assumptions.** Every assumption is an `ASSUME` of the module that
declares the constants. TLC evaluates each one on every run of that module.
* `MaxDeliveries \in Nat \ {0}`.
* `BlocksAssumption`: every block is `IsBlock`. Its nodes are a list of
  `EventNode` records with natural lts, typed hashes and an account, and
  its initiating node is an `EventNode` or absent.
* `SeedsAssumption`: every process's hash order is `IsHashOrder`, a
  duplicate-free list of all strings. This is what CPython's string
  hashing gives: `list(set(..))` keeps every element and orders them by the
  process's seed.

**Theorems.**

| Theorem | Module | States |
|---|---|---|
| `IdFromRootHolds` | `IndexerProofs` | `Spec => []IdFromRoot` |
| `FaultsConsistentHolds` | `IndexerProofs` | `Spec => []FaultsConsistent` |
| `WrittenAdmissibleHolds` | `IndexerProofs` | `Spec => []WrittenAdmissible` |
| `RedeliveryAgreesHolds` | `IndexerProofs` | `Spec => RedeliveryAgrees`, an action property |
| `TxHashesExactHolds` | `ConverterProofs` | `Spec => []TxHashesExact` |

**The inductive invariant.** None of the invariants is inductive on its
own. Each needs the variable types (`TypeOK`, which is not claimed as a
result of its own). `Ingest` keeps `pending[b] <= MaxDeliveries` only
because `pending[b] <= delivered[b]`. And each needs facts about the
records already received.

`IInv` therefore states all of these:
* `TypeOK`;
* `pending <= delivered`;
* `IdFromRoot`;
* every failed block's filler raises;
* no received block's filler raises;
* `WrittenAdmissible`;
* `WrittenFromListing`: every received action is `block_to_action` of some
  listing of its block under some seed in `Seeds`.

`RedeliveryAgrees` needs that last conjunct. When a new action arrives for
a block, it has to be compared with whatever was received before, and
nothing else in `IInv` says where that earlier action came from. The
invariant theorems follow from `InitIInv`, from `NextIInv` (one case per
action of `Next`, `LoseDelivery` included) and from `PTL`. The action property is proved from
`IInv /\ [Next]_vars` and `PTL`. `ConverterProofs` uses its own
invariant, `CInv`: the output is absent or is `BlockToAction` of the
fixed input.

**Lemmas** (`SerializerProofs` unless noted):
* `ListOfSetProps`: `ListOfSet(S, seed)` is a list over `S`, its elements
  are `S \cap Range(seed)`, and it is duplicate-free when the seed is. The
  proof counts ranks with `FiniteSetTheorems` (`SeedRankBound`,
  `SeedRankMonotone`, `SeedRankOnto`).
* `FillersKeepFrame`, `ApproveKeepsFrame`, `FillKeepsFrame`: no filler
  touches `action_id`, `tx_hashes` or `accounts`. Only the multisig
  approval replaces `success`. Each is proved filler by filler, and
  `FillIsAFiller` ties `Fill` to the 32 fillers.
* `FillReadsPayload`: a filler reads only the block's class, payload and
  value, never its nodes.
* `FillIgnoresLists`: a filler's result does not depend on the record's
  lists.
* `ConvertedAction`, `FaultIffFails`, `ConversionId`: `block_to_action`
  raises exactly when `FillFails` holds. Otherwise it returns an action
  record with `CalcActionId`.
* `ConvertedFields`: the hash lists are exact and duplicate-free, every
  node account is listed, None is not, and `success` follows spec 4.4.
* `RangeConcat`, `FilledAccountsRange`, `AssembledAccounts`: the accounts
  are the filled addresses other than None.
* `RelistedAgree`: two listings of a block under two hash orders give
  actions that differ only in list order, once their ids agree.
* `IndexerProofs` holds the lemmas about listings:
  * `RootOfListing`: `min` by lt finds the unique root in any listing.
  * `ListedFails`, `ListedId`, `ListedBlock`: relisting the nodes keeps
    whether the block raises, its id and everything but the node order.
  * `CanonAgree`: two actions that differ only in list order are equal
    once their lists are read as sets.

**Only model-checked**, and why:
* `EventuallyHandled` is liveness, which is out of the prover's reach
  (and it is violated).
* `DedupSound` is false for every instance in which two blocks' ids
  collide, as `pipeline_empty_key` shows, so it cannot be proved from the
  assumptions. Its per-block half is the proved `RedeliveryAgrees`.
* `AccountsExact` and the converter's `TypeOK` say the accounts are
  strings and are exactly the filled addresses. That depends on every
  filler putting an address or None in the generic fields. This is a fact
  about the payload values of `MCConverter`'s domain, not about the code,
  so it stays with TLC.

`MCConverter` uses RECURSIVE operators to enumerate inputs. These are kept
out of every module with a theorem.

## Not modelled

* Broker configuration.
* The task body in `indexer.tasks`.
* The consumer store's code: only the set of received actions is
  modelled, and what the spec admits for them (`SpecAdmissible`).
* Re-fetching of blocks by `indexer.tasks`, and so whether a lost
  delivery is ever made good.
* The block classifier, which is modelled only by `Listings`, any order of
  the same nodes.
* Logging and `print`.
* Fields that no property reads (`opcode`, `query_id`, the custom and
  forward payloads, `start_lt`/`end_lt`, utimes).

## Plan for later sittings

* Properties of the variant normalizers: swap asset precedence (lines
  284-293) and the DNS record schema mapping.
* An abstract consumer store keyed by `(block, action_id)`, with the
  pipeline shown to implement it.

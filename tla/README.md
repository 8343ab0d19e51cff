# Omni bridge services: TLA+ models and proofs

This directory models the services of the repository: the **omni-relayer**
(watches chains, queues work, signs and finalises transfers), the
**omni-proxy** (RPC proxy with failover) and the **wormhole-vaa-api** (a cache
of VAAs with a fallback). TLC checks every module on small instances; TLAPS
proves the safety properties of the relayer's modules for all values of the
constants.

## The system

| component | state it keeps | operations | hard behaviour | what makes it correct |
|---|---|---|---|---|
| ingestion (`startup/nats_ingestion.rs`, `event_handlers.rs`) | consumer position in OMNI_EVENTS | take an OmniEvent, publish its work items, ack | redelivery, crash between items, failed publication, dedup by message id | no item skipped, none queued twice, no event blocks the rest |
| worker queue (`workers/mod.rs`, `utils/nats.rs`) | RELAYER stream, durable consumer, buffer, semaphore, `FEE_MAPPING` | fetch, spawn, publish follow-ups, ack/nak/term, delete fee | `ack_wait` expiry while a task runs, crash, lost ack, age limit | relayed only after its follow-ups are queued; every event settled; no fee forgotten early |
| EVM nonces (`utils/nonce.rs`, `workers/mod.rs`) | one counter per chain, `is_evm_nonce_resync_needed` | resync, reserve, submit | resync against reservations, lost flag, failed read | no duplicate but through a resync; no reservation before a read; no unaccounted gap |
| UTXO set (`utils/utxo.rs`, `workers/near.rs`) | cached outpoints, dirty flag, mutex | reload, select, take, restore, mark | reload while outpoints are in flight, submission that landed behind an error | no double selection, no phantom, no outpoint forgotten |
| light-client deferral (`workers/utxo.rs`, `startup/utxo_lc_poller.rs`) | redis sorted set by target block | defer, poll, replay, remove | crash between the two stores, dedup of the replayed id | no transfer stranded; each verified or given up |
| retry schedule (`compute_ack_decision`) | delivery count and age of a message | back off, terminate | the age limit against a fair share of tries | every message settled, none terminated early |
| EVM fee bumping (`startup/evm_fee_bumping.rs`) | sorted set of pending transactions | check, replace, replay | crash between zrem and zadd, replay with a fresh nonce | tracked until included |
| fee check (`utils/bridge_api.rs`) | `FEE_MAPPING` | fetch, compare, keep, delete | one key shared by stages that end in any order | a quote holds for a raise; its entry is deleted in the end |
| chain workers (`workers/{near,evm,hyperevm,solana,starknet,aptos}.rs`) | none of their own | screen, check the fee, submit, classify | each stage is brought about by a chain's event, not by the stage before | the transfer completes or is given up for a named reason |
| native indexers, Mongo ingestion (`startup/native_indexers`, `mongo_ingestion.rs`) | checkpoint in redis, catch-up and subscription | follow a chain, store events | checkpoint ahead of the handler, gap between catch-up and subscription | nothing passed by but for named reasons |
| omni-proxy (`proxy.rs`, `dynamic_config.rs`, `background.rs`) | routes, upstreams, a deque of failures each | match, select, retry, record, reload | reload while requests hold an index, ageing window | failures blamed on their own upstream; traffic returns to the primary |
| wormhole-vaa-api (`api.rs`, `store.rs`, `spy.rs`, `resolver`) | VAAs and resolutions in redis, the spy's subscription | ingest, resolve, look up, fall back | sources that fail, or gain and lose a VAA, during a request | no 404 and no shorter list for what was available |
| KYT, storage, validation helpers | none | query, filter | an answer that changes between two stages | the verdict stops the transfer where it is asked for |
| configuration, metrics, logging, types | none | parse, report | none | not modelled |

The parts call each other through the two JetStream streams (OMNI_EVENTS into
ingestion, RELAYER into the worker pool, back into RELAYER through a worker's
produced events and the poller's replays), redis (sorted sets, checkpoints,
the `EVENTS` hash and `FEE_MAPPING`), the in-memory counters and the UTXO set, which all tasks of the
one process share. The process is one tokio runtime: between two awaits a task
runs undisturbed, so an action is what happens between two awaits, or one
awaited call together with its effect on the other side.

## Modules

| module | models | state and actions |
|---|---|---|
| `EvmNonce` | nonce managers, dispatcher, EVM tasks | `nonce`, `resyncNeeded` are the fields of that name; `pc`, `held`, `at`, `got` the position in `process_events` and `resync_nonces`; `task[m]`, `mine[m]` each task; `mined`, `pool` the node |
| `TaskQueue` | abstract: what the queue promises | accepted, lost, relayed, given up |
| `WorkerQueue` | RELAYER stream, consumer, pool, fee clean-up | ingestion may bring an event any number of times; `consumer[s]` the server's state of a message, `work[w]` the task holding a permit, `fees` the keys of `FEE_MAPPING`; refines `TaskQueue` |
| `UtxoSet` | one chain's cached set and the workers that spend from it | `cache`, `dirty`, `lock` the slot; `pc`, `draft`, `taken` the workers; `available` the contract |
| `Ingestion` | OMNI_EVENTS to RELAYER | `state`, `tries` the consumer; `todo` the work items of the event in hand; `stream`, `recent` the RELAYER stream and its duplicate window, which a worker's publication of the same event fills too |
| `LcDeferral` | deferral through the sorted set | `pending` the set, `replaying`, `published` the poller, `message`, `tasks` the queue and the workers; refines `TaskQueue` |
| `FeeBumping` | submitted EVM transactions until they are included | `tracked` the sorted set, `step`, `entry`, `sent` the bumper's position and what it holds, `queue`, `active` the workers; `pool`, `mined`, `market` the chain |
| `TransferPipeline` | one transfer through the workers' stages | `queue` the RELAYER stream, a message being a stage and the fee it carries; `tasks` the permits; a task's `step` the call of the fee check or the submission it is at; `quote` the entry of `FEE_MAPPING`; `pooled` what a destination's node took and no block includes; `place` how far the chains are; `events` what the indexer has yet to publish |
| `NearIndexer`, `EvmIndexer`, `SolanaIndexer`, `MongoIngestion` | the four writers of the redis `EVENTS` hash | `last` the checkpoint, `next`, `cur`, `todo`, `live` the position of the loop, `working`, `saving`, `hands` the spawned tasks, `lost` what the code itself passes by |
| `Indexers` | the four over one redis, a source at a time | composes them by `INSTANCE`: the variables they share, the others at rest |
| `ProxyFailover` | omni-proxy | `routes` the table, `failures[h]` a health object's deque (shared by the tables that kept the endpoint), `req[r]` the context pingora hands from callback to callback |
| `LogParsers` | `resolver/evm.rs`, `svm.rs`: how the messages of a transaction are found | a line is a text (its second and third word, its marker) by an author; `Parse` goes by the text as the code does, folding the lines of a log or filtering the events of a receipt; `Own` defines, by the authors and the calls still open, which lines are the bridge's; `Plain` is when the text tells the author |
| `VaaApi` | wormhole-vaa-api | `store`, `txres` redis; `spy`, `connected`, `stream` the subscriber; `req[r]` the handler's position; `signed`, `indexed`, `shown` the guardians, wormholescan and the chains' nodes |
| `EvmNonce_proofs`, `WorkerQueue_proofs`, `UtxoSet_proofs`, `Ingestion_proofs`, `FeeBumping_proofs`, `TransferPipeline_proofs`, `Indexers_proofs`, `ProxyFailover_proofs` | the theorems about the module of that name; `Ingestion_proofs` also those about `LcDeferral`, `ProxyFailover_proofs` those about `VaaApi`, each by `INSTANCE` | the inductive invariant, a lemma per action that disturbs it, the theorems at the end |

Each `MC` module instantiates the module of that name for TLC. Operators with a
mutant's name (`ReserveNoAdvance`, `AckEarly`, ...) are faulty versions of the
definition that follows them; no specification uses them. They document which
bug each property is there to catch. `PROJECT.json` maps every definition to the
lines it models.

History variables (`synced`, `fresh`, `excused`, `verdicts`, `contested`,
`news`, `lost`, `forgotten`, `untracked`, `adrift`, `kept`, `neither`, `quoted`,
`forgot`, `refused`, `leaked`, `given`) record what happened so that a property
can name it; no guard reads them.

## Runs

Faults (a failed call, an acknowledgement that does not land, a crash) are
taken from one budget, `MaxFaults` (`MaxTrouble` in `TransferPipeline`, which
also counts the steps of users, prices and other relayers). One fault is enough for each race of two
parties; two let a fault strike the recovery from another. What the environment
does without being at fault (time-outs, new blocks, duplicates after
`ack_wait`) is not limited, except by the bound on the messages stored.

| run | question | bounds |
|---|---|---|
| `EvmNonce` | duplicates, unread counters, gaps; does every message leave | 2 messages for one of 2 chains (so that both races on one chain and a half-done pass occur), 2 workers, 3 faults; nonces up to 8, above what the faults can burn: no reservation is ever refused by the bound |
| `WorkerQueue_safety` | hand-over, fee clean-up, why messages leave | first start, 2 events of one transfer, each brought twice, 2 permits, 2 stored messages, 1 fault |
| `WorkerQueue_live` | refinement of `TaskQueue` with liveness | an event and an undecodable payload, 1 permit (the scarcest pool), 1 fault; an event that is stored a second time, its id being forgotten, is left to the theorems and to the `Ingestion` run |
| `UtxoSet` | double selection, phantoms, forgotten outpoints; does every transfer land | 4 outpoints, 2 transfers of 2 outpoints each, 1 fault |
| `Ingestion` | skipped or duplicated items; does one event block others | an event of 2 items which a worker publishes as well, a malformed and an undecodable one, 2 deliveries each, 1 fetched ahead, 6 messages (so that an id is forgotten and its item stored again), 2 faults |
| `Ingestion_same_key` | is every item of an acknowledged event queued | expected violation |
| `LcDeferral` | stranded transfers; refinement of `TaskQueue` with liveness | a deposit, a withdrawal, 3 deferrals each, 1 fault: more deferrals than the fault can cause, so the bound never stops one |
| `FeeBumping` | lost and doubly paid transfers; is every transfer included | 2 transfers, fees 1 to 3 with a raise of at least 2 (so that a raise can miss the cap), 1 move of the market, 1 fault; 4 transactions per transfer and 5 nonces, more than one fault and one move can use up |
| `TransferPipeline` | is a stored quote honoured, is its entry deleted, does the transfer complete | each of 5 routes, 2 permits, 2 fees and none, 2 quotes of which the higher fee meets the lower, senders of one chain signed for unchecked, 2 troubles: a raise and a moved price, or one of them and a fault |
| `Indexers` | what lies behind a checkpoint; does every event settle | 3 blocks, changes or transactions, 2 of them with one event and 1 with two, windows and batches of 2 (so that the third waits for one of the first), a node that lists 1 or 2 signatures in one answer (so that two newer ones are listed whole or not), 2 faults; 130,000 states |
| `ProxyFailover` | whose failure is counted, is it kept over a reload, does traffic return | 2 endpoints, 2 requests, 3 tables that reorder, add and drop, 1 reload, 2 failures remembered, 2 faults |
| `VaaApi` | is an answer complete, is what was missed served in the end | 2 messages in one transaction, 1 request at a time (requests share only redis, which other steps change all the while), 3 faults; deadlock is checked; the transaction is a Solana one with nested calls, and another program prints a line in it; `MCVaaApi` also evaluates the log parser against its definition on every plain log of up to 4 lines, and that it misreads three logs that are not plain |

What the code does that a reader might not expect. Of delivery,
`omni-relayer/README.md` says otherwise ("at-least-once", "use a unique key per
event"):

- **same key** (the violation run): Starknet and Aptos work items are keyed by
  the transaction alone (`event_handlers.rs:632`): two events of one transaction
  are taken for duplicates.
- **swallowed publication**: `add_event` logs a failed publication
  (`event_handlers.rs:78`) and the OmniEvent is acknowledged; `lost` in
  `Ingestion` and `WorkerQueue` names what went missing.
- **first start**: the durable consumers start at `DeliverPolicy::Last`
  (`utils/nats.rs:62`): what was published before the first start, but for the
  last message, is never delivered; `WorkerQueue` calls these messages
  "skipped".
- **where the indexers write**: the README's diagram (`README.md:106-115`) has
  the native indexers and Mongo feed the OMNI_EVENTS stream. They write to the
  redis hash `EVENTS`, which nothing in `src/` reads; `Indexers` says what ends
  up there, and is therefore not composed with `Ingestion`.
- **another's stage**: the comment at `workers/mod.rs:953` has the fee check in
  the stage after the HyperEVM pre-init, but `hyperevm.rs:71-120` checks the fee
  too and stores a quote; a pre-init that gives up leaves it behind. `leaked` in
  `TransferPipeline` names this and the same of a first stage whose transfer
  goes on to another chain.
- **two quotes**: fee, look-up and store of `check_fee` are three calls
  (`bridge_api.rs:192-220`): of two tasks of a transfer that both found no entry
  the later one overwrites the quote of the earlier, and a raise to that quote is
  refused. `quoted` in `TransferPipeline` drops a quote that is overwritten.
- **start signature**: the Solana indexer records it with the `add_event` whose
  refusal is only logged (`solana.rs:112-120`), and then lists what is newer; what
  is newer than the node's page limit allows is not asked for again
  (`solana.rs:137-147`). Both go into `lost`.
- **printed lines**: `svm.rs:57-74` tells the runtime's lines from printed ones by
  the third word alone, and a message by its marker: a program that prints
  `Program log: success` inside a call of the bridge hides the messages after
  it. `PrintedWordsMisread` of `MCVaaApi` has this and two more; `Plain` excludes
  them from what is claimed.
- **failed probes**: `resolver/mod.rs:88` says that `resolve` returns `Err` only
  when every probe failed; it does as soon as one failed and none found a
  message, which is what `NoSilentGap` needs.

What the properties except, each named by a history variable:

- *`Indexers`* (`lost`): what was there before the first start; a checkpoint that
  redis does not return, which is taken for none (the EVM indexer then writes
  the latest block's over it); an `add_event` that redis refuses, which is only
  logged, a Solana start signature's among them; in NEAR, at a crash, the blocks that a later one overtook, at most
  `Window - 1`; blocks mined between an EVM catch-up and its subscription, and
  the rest of a block at the end of a stream; Solana signatures whose list was
  being recorded, newest first, when a task moved the checkpoint, or that were beyond the node's
  page limit; changes that a
  Mongo handler failed at or had in hand at a crash. Also there: an EVM batch
  ends in the block that the next begins with; the first start's checkpoint
  counts one block that is not mined; the last message of a Solana transaction
  replaces the others, as the event's key is the signature alone.
- *`ProxyFailover`*: a client's own error counts against the upstream; endpoints
  that differ only in their credentials share health from the first reload on,
  since `same_endpoint` does not look at them.
- *`VaaApi`*: a Solana transaction in which a program prints what passes for a
  line of the runtime or of the core program (`Plain`, an assumption on the
  constant `Log`; lines that the node itself cut off are not in the log); a
  transaction that its node does not show is asked of wormholescan
  alone; a failure to read a stored resolution is treated as a miss; the flag of
  `/healthz` is set before the subscription is accepted, and a subscription that
  is rejected at once never backs off beyond the first wait.
- *`TransferPipeline`* (`forgot`, `leaked`, `given`): a message of the transfer
  that is given up, another relayer's signature among them, deletes the quote
  that the others rely on; a quote that redis does not return is overwritten, and
  so is one stored by a task that looked up at the same time; the last stage
  deletes the entry when a node took the transaction, before a block includes it;
  an entry stays after a failed deletion, a crash between acknowledgement and
  deletion, or a lost event. A transfer ends unfinished when it offers no fee,
  is past the age limit, its sender is stopped, a receipt fails with an error
  that is not listed, its event is lost, or a chain reverts what its node took,
  which nobody waits for.

What `EveryTransferIncluded` of `FeeBumping` has to except, as the code does not
promise it: `should_bump` refuses when the old fee plus the minimum raise is
above the cap, even if the market asks for less than the cap
(`evm_fee_bumping.rs:245-248`); and a transaction that landed behind a lost
answer is in no entry, so nothing raises its fee, while the transactions behind
it wait. `HeldUp` names both.

`CHECK_DEADLOCK FALSE` is set except in `VaaApi` and `WorkerQueue_safety` (where
ingestion may repeat an event at any time): once every message is settled, and
the bounds of the environment are used up, the other systems have nothing to do.

## Fairness

Liveness assumes that tokio polls every task (weak fairness of the dispatcher,
of each task, of the pollers), that the JetStream server delivers ready
messages and its timers run (strong fairness of a delivery where the bounded
buffer can be full again and again: the server keeps its order and passes no
message over for ever), that tokio's mutex is first come, first served (strong
fairness of taking it), and that chains grow. Faults are never fair, and finite.
`TransferPipeline` needs less of the tasks, only that the relayer and the indexer
as a whole do not stand still while there is work, and strong fairness of the
age limit: of what is tried again without end, some message is past
`max_message_age` at last; and blocks of the destination include or revert what
its node took. `Indexers` has its loop and each spawned task go on;
`ProxyFailover` its requests, the clock that ages a failure, and outages that
end; `VaaApi` its handler, the reconnecting spy, and that what is signed is
indexed and shown in the end, without which no fallback could help.

## Proofs

Each `*_proofs` module proves its theorems from the named assumption of the
module it extends (of the module it instantiates, as a hypothesis) and nothing
else: sets of messages, workers, outpoints,
events and so on are of any size (finite only where the module says so), the
bounds any numbers. The argument is the same everywhere: the properties are
not inductive as they stand, a conjunction of named parts is, and each part
says what a step of one actor relies on from the others. TLC checked each such
invariant on the instance of the module's run before it was proved.

`EvmNonce_proofs`, from `ConstantsOK`:

- `TypeCorrect`: `Spec => []TypeOK`, one step per action.
- `NoncesUnique`: `UniqueSinceResync` alone is not inductive: a task may hold a
  nonce that the counter has yet to give out. `UniqueInv` adds that each nonce
  reserved since the resync is below the counter; `Reserve` hands out the
  counter and moves it on, `WriteCount` takes the chain's tasks out of `fresh`.
- `ReservationsFollowSync`: `SyncInv` carries the pass of `resync_nonces`: the
  chains before `at` are read while it runs, all of them once the flag is to be
  cleared, and a cleared flag means that all were.
- `HolesAreAccounted`: `HolesIInv` adds that what was read of a chain is not
  past a hole (`CountReadInv`), that the dispatcher's message is no task yet
  (`HeldInv`), and that a hole's resync has not passed its chain (`HolesInv`).

`WorkerQueue_proofs`, from `WorkersOK` and `EventsOK`, with `QueueInv`:

- `QueueTypeCorrect`, `RelayedIsHandedOn` (`HandedOn`), `NothingLeavesUnsettled`
  (`LeavesForAReason`), and the action property `QuotesOutliveRetries`
  (`FeeOutlivesRetries`).
- A message can be held by several tasks at once, one of them late, so a task's
  verdict says nothing of the message's state. `VerdictInv` has every decision
  of a task in the history of its message, `HandingOnInv` has what a task has
  published in the stream or lost, `CleanUpInv` has a task reach the deletion of
  the fee only behind a settled message.
- `QueueKeepsPromise`: the refinement of `TaskQueue` step by step, which is
  `KeepsPromise` without its liveness. A publication maps to an acceptance or a
  loss, an acknowledgement to a relay, a termination to a giving up, a second
  settlement of the same message to a stutter.

`UtxoSet_proofs`, from `UtxoOK`, with `UtxoInv`: `UtxoTypeCorrect`,
`OutpointsSelectedOnce` (`NoDoubleSelection`), `PhantomsGetReloaded`
(`PhantomsAreFlagged`), `OutpointsStayInSight` (`NoOutpointForgotten`). That two
workers hold different outpoints rests on what is held being out of the cache
(`ApartInv`), and on the mutex (`MutexInv`) from the reload's read to the
selection. A draft that comes back without the set being marked must not bring
a phantom with it (`StaleInv`), and what an answer under way misses must be news
to the tip after it (`ReloadInv`).

`Ingestion_proofs`, from `IngestionOK`, with `IngestInv`: `IngestTypeCorrect`,
`AcknowledgedIsPublished` (`NothingSkipped`), `RedeliveryIsDiscarded`
(`QueuedOnce`). `HandlingInv` has the items of the event in hand either done or
in `todo`; `MemoryInv` has the duplicate window be the ids stored and not yet
forgotten. The worker that caused an event publishes it under the same id as the
indexer (`workers/mod.rs:1383`); the theorems hold in whichever order the two
come. `AcknowledgedItemsAreQueued` is the other side of the violation run: where
a Starknet transaction has one event, and a transaction one withdrawal to a UTXO
chain, no two items share an id (`KeysDiffer`), and every item of an acknowledged
event is itself in the stream or was logged as lost. So the shared id is all that
is wrong there.

`LcDeferral` (in `Ingestion_proofs`, as `Lc`), from `LcOK`, with `LcInv`: `LcTypeCorrect`,
`DeferredStayStored` (`NoTransferStranded`), and `DeferralKeepsPromise`, the step
by step refinement of `TaskQueue`. That some copy of a transfer is left is not
inductive, as each copy is taken away by somebody who believes in another.
`LastCopyInv` names the copy that counts, the one with the last stamp: an earlier
one ends because of a later deferral, the last one only when the transfer is
verified or given up. `StampInv` has the stamps in use be those given.

`FeeBumping_proofs`, from `FeeBumpingOK`:

- `TransfersStayInReach` (`NoTransferLost`). An entry whose event has been
  published again does not keep its transfer in reach, as it is about to go and
  the server would discard a second replay of it; so `SightInv` counts only
  entries that have not been replayed. That a new entry never is follows from
  the numbers of the attempts: `Counts` bounds them by what was sent,
  `ActiveFresh` keeps an attempt in a task's hands apart from the entries, and
  `BumperInv` ties the bumper's copy to the set: what it removes is included or
  replayed, what it swaps in is new.
- `FeeTypeCorrect`: a nonce identifies a transaction in the pool, and the
  transaction counts stay numbers (`LeastElement`, the least-number principle
  for sets, from the well-foundedness of `<`, which the library proves).
- `TransfersPaidOnce` (`PaidOnce`): `PaidInv` has, as long as nothing failed, one
  transaction per transfer, no queued transfer with one, and what a task holds
  sent or not sent as its step says.

`TransferPipeline_proofs`, from `PipelineOK`, with `PipelineInv`:
`PipelineTypeCorrect`, `StoredQuotesAreHonoured` (`QuoteHonoured`),
`EntriesAreDeleted` (`FeeKeysCleaned`). A quote is honoured because there is one
at a time: until the transfer is `Settled` (its quote forgotten, or the transfer
at its destination or with a node of it), the entry is the only quote that counts
(`QuoteInv`), whatever tasks are between their look-up and their store.
`SettledStep` has no step take that back. The stages agree on it since each
message fits its route and how far the chains are (`StageInv`), and a task that
owns the entry and deletes it has settled the transfer (`TaskInv`). `KeyInv` gives every entry somebody who is yet to delete it.

`Indexers_proofs`, from `IndexersOK`: `IndexersInvariant`, `IndexersTypeCorrect`,
`NoEventPassedBy` (`NothingPassedBy`), with one invariant per indexer
(`NearInv`, `MongoInv`, `EvmInv`, `SolanaInv`). Each says what is covered
(recorded, in hand, or lost for a named reason) behind the position of the
stream, and behind the checkpoint where a restart begins there; they differ in
how the two are tied: NEAR by the window of blocks in hand, Mongo by the token in
flight, EVM by the batch that was fetched and the log in hand, Solana by the
order of the tasks' signatures.

`ProxyFailover_proofs`, from `ProxyOK`, with `ProxyInv`: `ProxyTypeCorrect`,
`BlameIsOwn` (`FailuresAreOwn`), and the action property `ReloadsKeepCounting`
(`CountsAcrossReloads`). A health object is shared by tables that may order
their upstreams differently, and a request goes on with the table it began with;
so the invariant speaks of all tables in use, today's and those that requests
hold. `OwnersInv` gives an object one endpoint in all of them, has its deque
blame that endpoint alone, and objects of reloads to come blank. `KeptInv` has
today's table hold the object of a request's upstream as long as every table in
between had the endpoint.

`VaaApi` (in `ProxyFailover_proofs`, as `Vaa`), from `VaaOK`, with `VaaInv`: `VaaTypeCorrect`, and the action property `AnswersHaveNoGap`
(`NoSilentGap`). `Covers` has what a request found and what it has yet to look
up be a part of what it was asked for, and all of it but for what it saw in
neither source; `AtHand` has the VAA that is asked of wormholescan be one that
was in neither source when the store missed it, unless wormholescan has it.
What a request is asked for is defined on the transaction's own log, and not by
what the parser makes of it.

`ParsesTransactions`: on a log of any length, with calls nested to any depth and
ends without a beginning, the parser of `LogParsers` returns the bridge's own
messages in the order of the log. The hypothesis is `Plain(log)`: no printed line
passes for the runtime's or the core program's. The code needs it, as it reads
the kind of a line off its text (`Kind`), and the definition goes by who wrote the
line (`Happened`). The parser
keeps a stack of programs; the definition has none, and asks whether a call of
the bridge is still open at the line, by counting calls and ends. First the fold
is shown to be a loop over the lines (`ParseIsALoop`). Then `StackOf` ties the
stack to the definition: its entries are the open calls, and `StackUnmoved`,
`StackPushed` and `StackPopped` keep it so over each kind of line; `OursByStack`
has the bridge on the stack exactly at the lines that are its own. The library's
induction theorems are out of reach of the provers installed; a property of all
prefixes is proved by the least prefix for which it fails (`LeastOne`, `UpTo`).
`VaaTypeCorrect` and `AnswersHaveNoGap` rest on it through `ResolvesOwn`; it was
an assumption of theirs before.

What proving changed in the models:

- `SolanaIndexer.BeginWithNothing`: without a signature to begin from nothing is
  listed, and what was adrift stays unrecorded too; the history `lost` did not name it. The run passed, as its bounds are one block and one fault short
  of it: the invariant was not inductive, and TLC showed the behaviour with
  `MaxHeight = 4` and `MaxFaults = 3`. With the correction these bounds pass.
- `EvmIndexer.GetLogs` was one sequence, which left the order of a set's elements
  to `SetToSeq`; it is the set of the orders that a node may answer with.
- Assumptions that the code justifies and the runs' constants met without their
  being stated: `Transfer` is defined on all events (`EventsOK`), fees and quotes
  are numbers (`PipelineOK`).
- `ProxyFailover.CountsAcrossReloads` was false of a route that lists an endpoint
  twice, which `validate` admits: the next merge gives both entries the health of
  the first, and a request that began before counts against the second's object,
  which no table reads any more. TLC shows it with such a table; the run's tables
  had none. The property now names the exception (`ListedOnce`).
- `ProxyFailover.Recent` filtered the deque with `SelectSeq`; it takes old failures
  from the front, as the code does. Failures age in order, so the two agree, and
  the code's form can be reasoned about. `LcDeferral.TypeOK` says that the poller
  publishes one entry at a time without `Cardinality`.
- `VaaApi.Witnessed` counted wormholescan as a source of a service that has none
  configured, of which `NoSilentGap` was then false; it is `Scanned`. What
  wormholescan returns of a transaction comes in any order (`FallbackByTx`), not
  in the one `SetToSeq` picks.

- `WorkerQueue.Ingest` took each event once, so that the theorems said nothing of
  an event that the indexers' stream delivers again; it may come any number of
  times (`MaxCopies` bounds what a run stores of it).
- `Ingestion` was alone in writing to the RELAYER stream, so that `QueuedOnce`
  said nothing of an event that its worker publishes too; `WorkerPublishes` is
  that publication.
- `VaaApi` had what a transaction emitted as a constant; it is computed from the
  log (`LogParsers`).

Only model-checked: liveness, and the fairness part of the refinements, which are
out of the prover's reach.

## Assumptions and limits

- `msg.ack()` that returns `Ok` is taken to have reached the server.
- A crash is not an action of `UtxoSet`: the set is in memory and starts empty
  and dirty, which is `Init`.
- `max_deliver` of the relayer consumer is -1, as in every example
  configuration; `max_deliver` of the OMNI_EVENTS consumer is a constant.
- The screening of a transfer (whitelists, KYT, fee, finality) is a choice among
  its outcomes, except in `TransferPipeline`, which computes the fee's. External services are modelled from how `src/` uses them.
- `FeeBumping`: an attempt's hash is its number, since its fees come from the
  current block; two identical transactions within the stream's duplicate window
  would share a replay's id, and the second replay would be discarded. An
  included transaction is taken to have finalised its transfer (a revert on
  chain is not modelled), one number stands for the maximal and the priority
  fee, and a worker's drop of a reverting submission is in `EvmNonce`.
- `TransferPipeline` begins when the waits for finality and KYT (`RetryAfter`)
  are over. Solana, Starknet and Aptos take the stages of "evm". The allowlist,
  which the last stage checks again, a zero quote's transfers ("fee=0") and
  fast transfers are left out. The last stage of two signatures of one transfer
  differs only in its message. `sign_without_checking_fee` lists senders; a
  transfer has one, which `Trusted` gives by the chain it comes from. Two
  transactions of one message are one element of `pooled`. The fee of a message is
  compared in the step that fetched the quote, as no call lies in between.
- `Indexers`: the decoding of events is a constant; EVM logs that
  `process_log` returns early for, the fast-transfer event added beside the
  first, and more than 30 stuck Solana signatures (the limit of one `hscan`) are
  left out.
- `ProxyFailover`: a failure ages out of the window at any time after it was
  recorded; within the window the code's deque is not bounded, the model's is
  (`MaxFailures`, at least every threshold).
- The redis path of `add_event` (no NATS configured) is in `MongoIngestion` only.

## Not modelled

- Configuration, metrics, logging and the documents' types: no state a behaviour
  depends on beyond the modules' constants.
- The lengths of back-offs and waits (`compute_ack_decision`, the spy's, the
  indexers'): the models have their order, by fairness, and not their durations.
- NEAR nonces: read once and counted up (`workers/mod.rs:632`); a NEAR node
  rejects a transaction that arrives behind a later one, and the message is
  tried again like any failure.
- Token deployment and fast transfers: one submission each, without a state of
  their own. The broadcast of signed UTXO transactions: a call to a node, whose
  duplicates are recognised by their error.
- The end of one task ends the process (`main.rs:434`); the supervisor that
  starts it again is not in the repository. The crash actions are what it leaves
  behind.
- In `omni-proxy` the rewriting of headers and URIs and the parsing of urls; in
  `wormhole-vaa-api` encodings.

## Plan

Done: `EvmNonce`, `TaskQueue`, `WorkerQueue`, `UtxoSet`, `Ingestion`,
`LcDeferral`, `FeeBumping`, `ProxyFailover`, `VaaApi`, the indexers and
`TransferPipeline`, which also took the place of the fee-check module first
planned.

Proved: every safety invariant and action property the runs check, and the safety
part of both refinements; that the log parsers meet their definition; that ids
shared by events are the one reason for the violation run. Not provable here:
the liveness properties.

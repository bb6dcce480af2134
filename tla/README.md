# FreeToken: a TLA+ verification project

FreeToken serves one language model from one GPU host. An HTTP frontend,
tokenizer workers and a scheduler are separate processes joined by queues; the
scheduler drives the GPU with *overlap scheduling* (it processes the results of
one batch while the device runs the next), a paged KV pool, and a radix tree
that shares the KV of common prompt prefixes between requests. A daemon starts,
stops, switches, restarts and re-adopts the serve, and accounts for its tokens.

This directory models the four places where a mistake corrupts somebody's answer,
loses GPU memory, tokens or a client for good:

* the **scheduler process** with its managers and the radix cache;
* the **hybrid cache**, which adds recurrent-state slots to KV pages;
* the **flow of requests** between frontend, workers, scheduler and supervisor;
* the **daemon** with its serve, its receipts and its conversions.

TLC checks all of them on small instances. TLAPS proves, for every number of
requests, pages, rows and tokens, who owns a request in the scheduler, that its
stream is the one the device computed and ends where it should, that no KV page,
row or lock is lost or shared by mistake, that the pages a request reads hold KV
of its own tokens, and that the scheduler implements its contract; for any
number of requests, tokenizer workers and rebuilds, that the frontend counts
every token, bounds what is in the backend and lets one rebuild at a time
through; and, for any number of serves and crashes of the daemon, the daemon's
promises. Section 5 says how, and what is left to TLC.

Source paths below are relative to `src/python/freetoken/`.

## 1. Files

| File | What it is |
|---|---|
| `RadixTree.tla` | The radix tree as a value and pure operators on it. |
| `RadixTreeProofs.tla` | What its operators do to any tree: shape, pages, counts. |
| `PrefixCache.tla` | What a prefix cache promises: an abstract specification. |
| `PrefixProofs.tla` | The promise's worth, proved: pages accounted for, evictable exactly what is unheld, evictions always possible. |
| `RadixCache.tla` | `kvcache/radix_cache.py` as coded, shown to implement `PrefixCache`. |
| `Engine.tla` | What the scheduler promises between its queues: an abstract specification. |
| `Scheduler.tla` | The scheduler process; uses `RadixTree` for its cache. |
| `SchedulerContract.tla` | The refinement mapping: `Scheduler` implements `Engine`. |
| `SchedulerInvariant.tla` | The inductive invariant `ControlInv` behind the proofs. |
| `SchedulerProofs.tla` | `ControlInv` is invariant; rows, in-flight requests, acknowledgements, rebuilds. |
| `SchedulerStreams.tla` | The inductive invariant `StreamInv` of prompts, rows, host copies and streams. |
| `StreamProofs.tla` | `Scheduler` implements `Engine`, proved as a step simulation; `StreamInv` is invariant: the host follows the device, streams stop only at their end. |
| `SchedulerMemory.tla` | The inductive invariants `MemoryInv` of pages, tree, handles, locks and rows, `ContentInv` of what the pages hold, `CapacityInv` of what has been promised. |
| `MemoryProofs.tla` | `MemoryInv` is invariant; pages, locks, types, idle integrity. |
| `ContentProofs.tla` | `ContentInv` is invariant; rows lead to KV of their own tokens, the tree to KV of its prefixes. `CapacityInv` is invariant: every launch finds its pages. |
| `RequestFlow.tla` | Frontend, statistics, stop barrier, tokenizer workers, supervisor, composed with `Engine`. |
| `FlowProofs.tla` | The inductive invariant `FlowInv` of the flow, and the flow's properties proved from it. |
| `HybridCache.tla` | Cache and state pool of hybrid models, driven by the overlap loop. |
| `ServeManager.tla` | The daemon's serve: lifecycle, monitor, restart, receipts, state file. |
| `Daemon.tla` | `ServeManager` composed with the conversions of `CheckpointManager`. |
| `DaemonProofs.tla` | The manager's invariant and promises; the daemon refines the manager. |
| `MC*.tla`, `*.cfg` | Instances for TLC. |
| `PROJECT.json` | Definition-to-source map, runs, mutants, hazards, theorems. |

```
RadixTree <-- PrefixCache <==implements== RadixCache <-- MCRadixCache
RadixTree <-- HybridCache <-- MCHybrid
RadixTree <-- RadixTreeProofs <-- SchedulerProofs
RadixTree <-- Scheduler <-- SchedulerInvariant <-- SchedulerContract <-- SchedulerStreams <-- SchedulerMemory

SchedulerContract ==implements==> Engine --INSTANCE-- RequestFlow <-- FlowProofs
SchedulerStreams <-- MCScheduler
SchedulerProofs <-- StreamProofs <-- MemoryProofs <-- ContentProofs
RadixTreeProofs, PrefixCache <-- PrefixProofs
ServeManager <-- Daemon <-- DaemonProofs
```

(`<--` reads "is extended by" unless it is labelled; `ServeManager` and `Daemon`
stand alone: the serve is a process to them.)

Two chains of refinement keep the modules small. `Scheduler` is built on the
tree *value*, and `RadixCache` shows that linked nodes, counters and LRU order
realise that value (`KeepsPromise`). `RequestFlow` is built on the *contract*
`Engine`, and `Scheduler` is shown to implement that contract (`EngineSpec`). So
the scheduler carries no pointers, and the frontend's model carries no scheduler.

## 2. Inventory of the system

### The scheduler process

| Component | State it keeps | Operations | Talks to |
|---|---|---|---|
| Scheduler loop (`scheduler/scheduler.py`) | last launched batch, `finished_reqs`, abort tombstones, pending abort acks, queued rebuild | `overlap_loop`, `normal_loop`, `_process_one_msg`, `_process_last_data`, `_execute_pending_rebuild`, `_flush_abort_acks` | tokenizer queues in and out; the managers by calls; the engine's stream |
| `PrefillManager`, `PrefillAdder` (`prefill.py`) | `pending_list`, chunk objects, budget of a pass | `add_one_req`, `schedule_next_batch`, `try_add_one`, `abort_req` | cache, table and decode managers |
| `DecodeManager` (`decode.py`) | `running_reqs` | `filter_reqs`, `remove_req`, `abort_req`, `schedule_next_batch` | - |
| `TableManager` (`table.py`) | free rows, token pool | `allocate`, `free`, `rebuild` | - |
| `CacheManager` (`cache.py`) | free pages, the page table, pages freed lazily | `match_req`, `lock`/`unlock`, `allocate_paged`, `cache_req`, `lazy_free_region`, `check_integrity`, `rebuild` | radix cache |
| `RadixPrefixCache` (`kvcache/radix_cache.py`) | linked nodes, ref counts, two size counters, timestamps | `match_prefix`, `insert_prefix`, `lock_handle`, `evict` | - |
| `Req`, `Batch` (`core.py`) | lengths, host token ids, flags | `append_host`, `complete_one`, `can_decode` | - |
| Engine (`engine/engine.py`) | the KV pool's contents | forward, runtime rebuild | - |
| Hybrid cache (`kvcache/hybrid_radix_cache.py`, `linear_state_pool.py`, `attention/linear.py`, the hybrid branches of `cache.py` and `prefill.py`) | snapshots and their locks on the tree's nodes; free state slots; each request's live and ping-pong slots | match, insert, two evictions, donate, freeze, restore, anchor commits, slot gate | scheduler loop, the forward |

What is hard about it:

* **Overlap.** Batch *n+1* is scheduled and launched before the results of
  batch *n* are looked at. A request that ends in batch *n* is already in batch
  *n+1*; its row, its pages and its extra token all have to be handled.
* **Aborts** arrive between any two iterations: before their request (several
  tokenizer workers), while it waits, while a chunk of it is in flight, while it
  decodes, after it ended. Each path frees, or must not free, the same row.
* **Ownership of pages** moves between four owners (free list, lazy free list,
  tree, a request's row) in admission, allocation, commit, eviction, finish and
  rebuild, with rounding to pages at both ends.
* **De-duplication.** Two requests may compute the same prefix at the same time.
  The second commit finds its pages redundant, frees them, and must be
  re-pointed before they are handed out.
* **Two clocks.** Device-side lengths run ahead of the host's copy by the
  launched but undrained steps.
* **Admission arithmetic** must never promise more pages than `allocate_paged`
  will find: failure there is an assertion in the middle of a batch.
* **A second currency.** In a hybrid model a cached prefix is worth something
  only where a recurrent state was frozen. States are frozen at launch, donated
  to the tree an iteration later, swapped with a spare slot, evicted on their own
  (leaving tombstones), and the pool is sized by a formula.

Correct means: one owner per page, row and slot; a row, a node and a slot hold
exactly the tokens they stand for; nothing in flight loses its row; the client
sees each token once, in order, and nothing after its terminal message; the
terminal message comes; the pool is only resized when nothing uses it.

### Between the client and the scheduler

| Component | State it keeps | Operations | Talks to |
|---|---|---|---|
| `FrontendManager` (`server/api_server.py`) | `uid_counter`, `ack_map`/`event_map`, generation gate, maintenance state, fatal error, active rebuild and its future | `admit_generation`, `new_user`, `send_one`, `listen`, `wait_for_ack`, `abort_user`, `dispatch_rebuild`, `fail_pending_rebuilds`, `fail_inflight_requests` | tokenizer workers by queues; supervisor by `call_soon_threadsafe` |
| `StatsTracker` (`server/stats.py`), stop barrier (`server/accounting.py`) | requests in flight, aborting, completed; token totals; the sealed snapshot | `on_new_user`, `on_abort`, `observe`, `prepare_stop_accounting` | frontend; daemon over HTTP |
| Supervisor (`server/supervisor.py`) | a thread that watches worker sentinels | `_mark_backend_ready`, `_on_failure` | frontend |
| Tokenizer worker (`tokenizer/server.py`) | `decode_map`, one batch of mixed messages | one turn: rebuild messages, replies, tokenization, aborts | frontend and scheduler by queues |

What is hard about it: coroutines interleave at their awaits and the supervisor
thread everywhere; messages of one request travel through different workers; an
abort can share a worker's batch with the request it aborts; HTTP waits time out
while the backend still owns the operation; a client leaves while its tokens
are on the way; a worker dies with any of this in progress. Correct means: a
request is in flight for the statistics until its last token was counted, sealed
totals are final, the gate bounds what is in the backend, a rebuild keeps the
gate closed until it is answered, closed admission stays closed, and every wait ends.

### The daemon

| Component | State it keeps | Operations | Talks to |
|---|---|---|---|
| `ServeManager` (`daemon/serve_manager.py`), with `pidfile.py` and `accounting.py` | the child, stop and shutdown intents, one monitor thread per child; on disk the state file and the outbox of receipts | `start`, `stop`, `switch`, `shutdown`, `_monitor`, `_reap`, `_auto_restart`, `readopt` | the serve as a process and over HTTP |
| `CheckpointManager` (`daemon/checkpoint.py`) | the job and its process | `start`, `cancel`, `_monitor` | ServeManager, through the routes of `daemon/app.py` |

What is hard about it: a process may exit between any two steps of a stop; the
reap races the stop that waits for it, a restart, and the next start; the daemon
itself goes down and finds a serve, a record of one, both or neither; an outbox
or a state file cannot be written. Correct means: at most one serve and one
conversion on the GPU, no serve that a running daemon lets go without a receipt, a
stop that nothing undoes.

### Not modelled

| Component | Why, or when |
|---|---|
| Sliding-window cache and pool, DSV4 pool | Planned (section 7): third and fourth currencies on the same tree. `Scheduler` models the generic manager. |
| MoE expert offload (`moe/`) | Planned: slots, pinned layers, prefetch buffers. |
| CUDA streams | Planned as `OverlapStreams`; `Scheduler` takes the order the `wait_stream` calls establish. |
| A rebuild that raises after its teardown began | The engine's teardown steps are not modelled; a rebuild succeeds or is rejected before them. |
| Naive cache | It caches nothing. The paths it leaves to `CacheManager` are those of a multimodal request, which are modelled. |
| HTTP routes, proxy, protocols, output parsers, chat templates, checkpoint files, CLI, launcher | Sequential conversion of text and files, or process setup: no protocol between actors. |
| Models, layers, attention, kernels, CUDA graphs, other KV pools, budgets | Numerics and sizing. They are most of the repository's lines; a forward is modelled by which KV and which states it reads and writes. |
| Tensor parallelism, distributed communication | The scheduler is modelled for one rank (ranks repeat rank 0's messages). |

## 3. How the models correspond to the code

### Scheduler

One loop iteration is a sequence of steps in four phases, held in `pc`.

| `pc` | Steps | Code |
|---|---|---|
| `idle` | nothing but a message can happen; the integrity check has just run | `receive_msg(blocking=True)`, `run_when_idle` |
| `recv` | `UserAborted`, `UserTooLong`, `UserQueued`, `AbortUnheld`, `AbortInFlight`, `AbortHeld`, `RebuildReceived`, one message each; then `EndReceive`, `RebuildDone` or `RebuildRejected` | `_process_one_msg`, `_execute_pending_rebuild` |
| `plan` | `AdmitContinuation`, `AdmitFresh`, `ChunkMultimodal`, one pending request each; then `Launch` or `NoLaunch` | `schedule_next_batch`, `_prepare_batch`, `_forward` |
| `drain` | `DrainChunk`, `DrainAborted`, `DrainStale`, `DrainFinished`, `DrainPrefilled`, `DrainDecoded`, one entry each; then `EndIteration` | `_process_last_data`, `_flush_abort_acks` |

`Overlap = FALSE` is `normal_loop`: the batch drained is the one just launched.

How data are represented:

* A request is its `uid`. `req[u]` is its newest `Req` object, numbered `n`;
  a chunked prompt makes a new object per chunk and a batch entry remembers
  which one it is of. `table_idx = NoTable` is the code's `-1`. An outgrown chunk
  object shares row and handle with the newest one and is freed by nobody, so of
  it only its batch entries are kept.
* `handle` is the token sequence of the tree node it points at (see RadixTree).
* `kv[p][o]` is *the token sequence this slot was computed from*. A forward
  writes, at each new position, what its row holds before that position extended
  by the row's tokens. Reading somebody else's page therefore shows up as a
  wrong sequence. A multimodal request's tokens are tagged with its `uid`,
  because equal placeholder ids stand for different images.
* Freed pages and rows are blanked. The code does not clear them; the model
  does, so that reading one is visible, and so that equal states are equal.
* The sampled token is any token of `Vocab`. EOS ids and stop strings are one
  token, `Eos`. A chunk's sample is never read and is fixed to `Eos`.
* `page_table[t]` lists pages (the code stores token slots of a page).
* The device executes launches in order, and both loops make the two CUDA
  streams wait for each other, so a launch's writes take effect at the launch;
  its tokens reach the host at the drain.
* The token pool's row has `ConfigMaxSeqLen` columns; the code rounds the
  width up for alignment, which the last column (`-1`) only makes safer.
* `RebuildDone` is a resize the engine accepts, `RebuildRejected` one it rejects
  before any teardown. The engine decides by device memory and geometry, so the
  model allows both for any size.
* A request may be aborted at any time, once. Rebuilds: at most one unanswered,
  as the frontend's `_active_rebuild_id` ensures.
* Which unlocked nodes an eviction takes is any choice the bottom-up walk allows;
  the LRU choice is one of them and is modelled in `RadixCache`.

### RadixTree, PrefixCache, RadixCache

`split_at` keeps the original node object for the *suffix*; hence the token
sequence at which a node ends never changes while it lives. That is what lets
`RadixTree` name a node, and a handle, by that sequence: a tree is a function
from page-sized blocks to pages and one from nodes to ref counts.
`PrefixCache` is the contract with its user (`CacheManager`): acquire, commit,
release, evict. `RadixCache` has the node table with `parent`, `children`, `key`,
`value`, `ref_count`, `timestamp`, and the counters as separate state, and its
methods follow the code's steps (walk, split, relink, lock path, heap order).
`KeepsPromise` is the refinement: `AbstractTree` reads the tree value off the
links. Timestamps are kept as ranks, which preserves every comparison.

### Engine and SchedulerContract

`Engine` is the scheduler as seen from its two queues. `stage[u]` is `absent` (no
`UserMsg` yet), `held`, `closing` (aborted after its admission, its last token
perhaps still on the device) or `ended`. Its actions say when a message is
dropped by a tombstone, rejected or queued; that an iteration's tokens leave in
one step, followed by the acknowledgements of the aborts received before it; and
that a rebuild is executed when nothing is held. `ContractStage` computes the
stage from `Scheduler`'s inbox, outputs and pending acknowledgements, and `EngineSpec` is the refinement. It implies
what a reader would state separately: nothing leaves after a terminal message,
a prompt is accounted for once, an aborted request gets at most one more token.
`RequestFlow` splits acceptance and execution of a rebuild, so it keeps the id of
the queued one beside the contract (`rebuild_msg`).

### RequestFlow

* *Processes.* Client handlers (`http[u]`), abort tasks, the listener, dispatches
  of rebuilds and the stop barrier are coroutines of one loop: an action is what
  runs between two awaits. `new_user` and the send that follows it have no await
  between them, which is `LoopFree`; the supervisor thread does not care, and
  hands its two callbacks to the loop in `loop_calls`. A worker's turn drains up
  to `LocalBs` messages and forwards them by kind in the code's order.
* *Queues* are FIFO per sender and receiver. The frontend deals its messages to
  the workers in no order a client can rely on.
* *Time.* A timeout (of a rebuild's HTTP wait, of the drain, of the abort wait) may
  pass at any moment of its wait. The `sleep(0.1)` of `abort_user` is the gap
  between the task's creation and its step.
* *Failures.* With `SendFails` a send raises before or after its message left.
  `Dies` kills any worker or the scheduler, with what it held.
* *Abstractions.* A reply is its kind: admission, token, last token, error,
  rebuild result. `ack_map` and `event_map` are one set; what an entry holds is
  whether there is a reply and whether one is finished. The gate's waiters are the
  clients that have not been admitted.

### HybridCache

It is a scheduler of its own, since the second currency touches every phase; what
it leaves out of the loop (rebuild, tombstones of aborts, images) is in `Scheduler`.
Phases are recv, plan (a pending request a step), launch, drain (an entry a
step). The tree is `RadixTree`'s with `snap` (a node's state slot) and `mref` (its
snapshot lock); a node without a snapshot is a tombstone. `state[s]` is *the token
sequence slot `s` has absorbed*, `kv[p]` the sequence page `p` was computed from,
so resuming from the wrong slot shows up as a wrong sequence. A request holds a
live slot and two ping-pong slots. The forward freezes a prefix into a ping-pong
slot at the launch; the commit happens in the drain of the next iteration, and
donates the frozen slot, taking a free or evicted one in its place. Rows are a
count; the token of a tool call's opening is `Anchor`. Which unlocked snapshot or
leaf an eviction takes is left open (the code takes the least recently used).

### ServeManager and Daemon

A *generation* is one spawned serve. `op` is the transaction that holds the
`_lifecycle` lock, with its program counter; between two of its steps processes
exit, monitor threads advance and the daemon may crash. `monitor[g]` walks
`_reap`'s sections: read the intents, write the crash receipt (under the
accounting guard), drop the child, clear the state file, wake the waiters, ask
for a restart. `outbox` and `record` are on disk and survive `DaemonDown`, all
else is lost. History variables record what the code cannot know: `own` (the serves
this daemon spawned or re-adopted; a new daemon begins with none), `unaccounted`
(a crash receipt the outbox refused, which the code reports and which blocks the
automatic restart), `lost` (a serve alive when the daemon went down between its
spawn and its record) and `stopped`.

`Daemon` adds conversions. The routes run in a pool of one thread, so two calls
never overlap, but `checkpoint_start` makes two calls (stop the serve, start the
conversion) and others may run between them.

## 4. What the runs check

| Run | Instance | Properties | States |
|---|---|---|---|
| `sched_pages` | 3 prompts sharing prefixes, pages of 2, 5 pages, 2 rows, budget 3 | `TypeOK`, `PagesConserved`, `RowsHoldOwnKV`, `TreeHoldsPrefixKV`, `AllocationSucceeds`, `RefCountsExact` | 391k |
| `sched_overlap` | 3 prompts with equal ids, one an image, pages of 1, 7 pages, one rebuild to 4 | `ControlInv`, `RowsHoldOwnKV`, `HostFollowsDevice`, `TablesOwnedOnce`, `InFlightHolds`, `AckedIsGone`, `StopsExactly`, `EngineSpec`, `RebuildOnlyIdle` | 570k |
| `sched_live` | 2 requests, pages of 2, 4 pages, one rebuild to 1 page, fairness | `IdleIntegrity`, `RequestsEnd`, `RebuildsAnswered` | 13k |
| `sched_image_chunk` | as `sched_overlap`, no rebuild | `MultimodalFits`, **violated** (section 6) | - |
| `radix_pages` | 2 clients, pages of 2, 4 pages, partial last pages | `NodesConsistent`, `PagesAccounted`, `KeepsPromise`, `EvictsOldest` | 12k |
| `flow` | 2 requests (one with a bad prompt), 2 tokenizers and a detokenizer, gate of 1, sends that raise, one rebuild, one stop | `TypeOK`, `InFlightUntilLastToken`, `SealedTotalsFinal`, `RebuildOwnsGate`, `NoDecodeLeak` | 1.49M |
| `flow_live` | 2 requests, one shared worker, gate of 1, a stop, fairness | `GateBoundsBackend`, `ClientsAnswered`, `StopSeals` | 89k |
| `flow_death` | 1 request, one death, one rebuild, a stop, fairness | `ClientsAnswered`, `RebuildsEnd`, `AdmissionStaysClosed` | 212k |
| `hybrid` | 4 requests, pages and chunks of 2, 8 pages, 8 slots, 2 rows, one abort | `PoolsConserved`, `StatesMatchPrefixes`, `LeavesResume`, `SlotsSuffice` | 1.50M |
| `daemon` | 2 spawns, one daemon crash, 2 conversions, automatic restart | `EndsAreReceipted`, `StopIsFinal`, `OneOfEach` | 5.17M |
| `daemon_gpu` | the same | `GpuExclusive`, **violated** (section 6) | - |
| `daemon_crash` | the same | `NoUnrecordedGap`, **violated** (section 6) | - |

What the properties mean is stated above each one in its module. `ControlInv`
is checked where it is proved about, so that the theorem and the instances speak
of the same formula. `NodesConsistent` is links, counters and ref counts of
`RadixCache` together; `PagesAccounted` is what `PrefixCache` promises about pages
(`OnePagePerBlock`, `EvictableIsUnheld`, `EvictionPossible`), checked on the
detailed module through its refinement mapping. Each property of a passing run
has a *mutant*: a change to one definition, of the kind a bug would be (a free
that forgets the page's padding, a missing in-flight test, errors relayed ahead of
tokens, a restart that does not honour a stop, a slot released twice), under which
TLC finds it violated.

**Bounds, and why they are enough.**

*Scheduler.* Requests: two interact in every hazard listed, and the third makes
the two wait for each other's pages and rows. Rows: two, one fewer than requests,
so rows are reused. Pages: few enough that eviction, refusal and de-duplication
all happen (each is an action TLC reports as taken). Pages of two tokens with
prompts of three and four give partial pages, page-boundary ends and forks inside
a page. A budget of three (two in `sched_live`) chunks prompts and lets a pass mix
a continuation with a fresh request. Outputs of one to three tokens cover ending
at the first token, in overlap with the next step, and by EOS or length.
`RebuildLimit` is the one bound on a counter; requests arrive once each, so every
other quantity is bounded by `Prompt`, `MaxTokens` and the pool. All instances run with overlap, the
default; the loop without it differs in two expressions (`drained_batch`, `last_data`) and
is covered by the theorems, which hold for both. The code's bound of
65,536 tombstones is not reached and not modelled.

*Flow.* Two requests and a gate of one: the second waits for the slot of the
first, whose client may have left. Two tokenizers and a separate detokenizer make
every order of a request, its abort and its replies; batches of two (`LocalBs`)
put an abort and its request in one turn. A shared worker is the default set-up.
Two tokens (`MaxTokens`) separate a token from a last token. One rebuild is one in
flight, all the frontend allows; one death is fatal, a second changes nothing. The
three runs divide the features (sends that raise; deaths) so that each finishes.

*Hybrid.* Eight slots are `4 * MaxRunningReqs`, the least `_linear_pool_min_slots`
accepts, so the claim that it suffices is at its edge. Two prompts are equal, one
forks from them at a chunk boundary and one shares nothing and forces evictions; a
budget of seven cannot take two prompts of six in one pass, so chunks resume from
restored states. One request may be aborted.

*Daemon.* Two spawns are a serve and its restart or successor; one crash of the
daemon with two serves covers re-adoption, an orphan and a stale record. Two
conversions are a cancelled one and its successor.

**Deadlock** is checked in every run but `flow_live` and `flow_death`, where a
serve that has ended, or lost a worker, does nothing more. `Quiescent` names those
states in `Scheduler` and in `RequestFlow`; the deadlock check of `hybrid` is what
shows that a commit always finds a slot to replace the one it donates.

**Fairness.** `sched_live`: `WF_vars(Loop)`. `Loop` is everything the scheduler
does without waiting for a message: the loop is a single thread that runs on as
long as it has work, blocks only in phase `idle`, and waits for nobody else (the
device's results are awaited with `copy_done.synchronize`, which returns).
`flow_live`, `flow_death`: weak fairness of each handler, of the listener, of each
worker's turns, of the scheduler's steps, of the supervisor and of the barrier:
each is a thread, a process or a coroutine that nothing else can starve, and a dead one
has no steps. Nothing is assumed of clients, timeouts, deaths, the arrival of
messages or stops. That a stop is asked for again when its barrier timed out is a
hypothesis of `StopSeals` (`OperatorRetries`), not fairness of the code: the daemon
makes one call for each stop it is given (`daemon/proxy.py:73-86`), raises
(`daemon/serve_manager.py:366-380`) and answers 503 (`daemon/app.py:212-217`), so the retry is the
operator's. Without it a stop may stay unsealed for ever with admission closed.

**What the liveness properties leave out.** `ClientsAnswered` does not speak of a
client whose entry the stop barrier deleted (`api_server.py:511`); what ends it is
the exit of the process that follows the seal, which is not modelled.
`GateBoundsBackend` is claimed where no send raises: a send that raises after its
message left gives the slot back. `SealedTotalsFinal` and `StopSeals` are
claimed where no worker dies (see "Known behaviours" in section 6).

## 5. What is proved

The theorems about the scheduler hold for every value of the constants satisfying
`SchedulerAssumption` (finite or infinite sets of requests, any prompts of at
least one token, any sizes of at least one, finitely many sizes a rebuild may
ask for, with or without overlap) and `PageSizeAssumption`; those about the flow for
every value satisfying `RequestFlowAssumption` (any finite number of requests,
which the frontend numbers from 0; any budget, gate, batch size, number of
tokenizers, rebuilds and deaths; sends that may or may not raise); those about the
daemon for any bounds on spawns, conversions and crashes, with or without
automatic restart.

| Module | Theorem | Statement |
|---|---|---|
| `SchedulerProofs` | `ControlInvariant` | `Spec => []ControlInv` |
| | `ControlTypesHold` | `Spec => []ControlTypes`, the control half of `TypeOK` |
| | `TablesNeverShared` | `Spec => []TablesOwnedOnce` |
| | `InFlightKeepsItsRow` | `Spec => []InFlightHolds` |
| | `AckedRequestsAreGone` | `Spec => []AckedIsGone` |
| | `RebuildsAreIdle` | `Spec => RebuildOnlyIdle` |
| `StreamProofs` | `ContractInvariant` | `Spec => []ContractInv` |
| | `SchedulerImplementsEngine` | `Spec => EngineSpec` |
| | `StreamInvariant` | `Spec => []StreamInv` |
| | `HostNeverDiverges` | `Spec => []HostFollowsDevice` |
| | `StreamsStopExactly` | `Spec => []StopsExactly` |
| | `LengthsNeverOverrun` | `Spec => []LengthsFit` |
| `MemoryProofs` | `MemoryInvariant` | `Spec => []MemoryInv` |
| | `PagesNeverLeak` | `Spec => []PagesConserved` |
| | `LocksNeverLeak` | `Spec => []RefCountsExact` |
| | `TypesHold` | `Spec => []TypeOK` |
| | `IdleIsClean` | `Spec => []IdleIntegrity` |
| `ContentProofs` | `ContentInvariant` | `Spec => []ContentInv` |
| | `RowsReadOwnKV` | `Spec => []RowsHoldOwnKV` |
| | `CacheServesPrefixes` | `Spec => []TreeHoldsPrefixKV` |
| | `CapacityInvariant` | `Spec => []CapacityInv` |
| | `AllocationAlwaysSucceeds` | `Spec => []AllocationSucceeds` |
| `PrefixProofs` | `PagesAlwaysAccounted` | `PrefixCache`'s `Spec => []PagesAccounted` |
| `FlowProofs` | `FlowInvariant` | `Spec => []FlowInv` |
| | `FlowTypeOK` | `Spec => []TypeOK` |
| | `InFlightToTheEnd` | `Spec => [](dead = {} => InFlightUntilLastToken)` |
| | `SealedTotals` | `Spec => [](dead = {} => SealedTotalsFinal)` |
| | `RebuildOwnsTheGate` | `Spec => []RebuildOwnsGate` |
| | `DecodeStatusesEnd` | `Spec => []NoDecodeLeak` |
| | `GateBoundsEngine` | `Spec => [](dead = {} /\ ~SendFails => GateBoundsBackend)` |
| | `AdmissionClosedForGood` | `Spec => AdmissionStaysClosed` |
| `DaemonProofs` | `ManagerInvariant` | `Spec => []ManagerInv` |
| | `ReceiptsWhileUp`, `StopsStand`, `ServesAreAlone` | `Spec => []EndsAreReceipted`, `[]StopIsFinal`, `[]OneServe` |
| | `DaemonRefinesManager` | `SpecDaemon => Spec` |
| | `DaemonReceiptsWhileUp`, `DaemonStopsStand`, `OneOfEachHolds` | `SpecDaemon => []EndsAreReceipted`, `[]StopIsFinal`, `[]OneOfEach` |

**Who owns a request** (`SchedulerProofs`). None of the properties is inductive.
That an in-flight request keeps its row, for instance, depends on *why* nobody
frees it: an abort looks into the launched batch, a finish removes it from the
decode set, a continuation is only in the queue. `ControlInv` says who knows
about a request in each phase:

* `HeldOK`: an object that holds a row is known to somebody who will end it. An
  aborted one is in the batch still to be drained and not in the one just
  launched; a chunk is in the queue; any other one is in the decode set, in this
  pass's list, or in a launched batch, and the device is ahead of the host by
  exactly the number of launched batches it is in.
* `BatchesOK`, `LaunchedOK`: an entry of a launched batch is of the newest
  object or of an outgrown chunk, and if it has no row its end has been seen
  in the set the drain will consult.
* `QueueOK`, `PlanOK`, `RunningOK`, `UnbornOK`: the queue, a pass in progress,
  the decode set and requests that have not arrived or have ended exclude each
  other as the code expects.
* `AbortedOK`: an aborted request is in no queue, and its late `UserMsg` has its
  tombstone.
* `TablesOK`: each row is free once or held once.

There is one lemma per action, with a step per conjunct the action can disturb,
under lemmas on appending, removing and indexing sequences. Two facts carry
most of the weight: the drain's `ends` test (on the host's length) makes
"not running and nothing in flight" impossible for a request that holds a row,
and an abort's in-flight test sees exactly the batch that is still to be
drained. The theorems are temporal only in their last step.

**The contract** (`StreamProofs`). `ContractInv` adds what `ControlInv` leaves
open of the messages: a request has at most one reply on the list and no reply
after its end (`RepliesOK`), it is reported admitted once (`AdmittedOK`), an error
never meets a request that was queued (`EndedOK`), an abort received is pending or
acknowledged (`AbortsOK`), and a request nobody aborted is never forgotten
(`ServedOK`). Under both, each of the scheduler's steps is one step of `Engine` or
leaves `ContractStage`, the admissions, the counts of tokens and the queued
rebuild alone: the launch is `PromptsAdmitted`, the end of an iteration
`Published`, each message its own action, and everything between stutters.

**The streams** (`StreamProofs`). Four copies of a request's tokens exist: prompt,
row of `token_pool`, host copy and stream. `StreamInv` ties them together at every
step, not only where the property looks: `BudgetsOK` (prompt and budget fit the
row), `ChunksOK` (a chunk's host copy is the part of the prompt computed so far),
`HostOK` (host copy = prompt + stream, short of the budget, no EOS), `EndsOK` (a
stream that ended is complete) and `DeviceOK` (the row holds the host copy, then
the tokens of the launched entries, at the column the launch chose). The last is
the heart: the device writes a token up to two steps before the host appends it,
and only the count of launched batches in `HeldOK` says that it appends it at the
same column. `LengthsFit` says that no object outgrows its row.

**The memory** (`RadixTreeProofs`, `MemoryProofs`). The pool's
pages move between five places: the free list, the drain's lazy free list, the
tree, the rows of requests, and the evicted blocks of a launch. `MemoryInv` is:

* `TreeOK`: the tree is `WellFormed` (a cached block has the blocks before it,
  and lies in the key of exactly one node), and no page is in it twice.
* `HandlesOK`: a request's handle is a node of the tree, or the root, on the
  tokens it has computed.
* `RowsOK`: a row has exactly the pages its computed tokens need, and of its own,
  those after the handle's, each once.
* `FreeOK`, `PagesOK`: the free lists, the tree and the rows' own parts partition
  the pool.
* `LocksOK`: a node is locked once by each request whose handle is at or below it.
* `IdleOK`: the scheduler blocks only with nothing queued, running or launched.

`PagesConserved` alone is not inductive: that a commit frees exactly the
duplicates rests on the handle being a node of the tree *now*, after splits by
other requests, and that an eviction takes no page in use rests on the counts.
The lemmas of `RadixTreeProofs` are about any tree and any page size: `SplitAt`,
`insert_prefix`, `lock`, `unlock` and the removal of nodes keep `WellFormed`, and
each says what becomes of blocks, pages, nodes and counts. `MemoryProofs` cuts a
row where `cache_req` does (what the tree had, what it takes, the tail) and shows
the drain's six cases, the messages and a rebuild keep the partition;
its last part follows a batch's pages from the free list and the evicted blocks
to the rows of its entries, no two entries given the same page. The step
relies on the other three invariants: `ControlInv` for who holds a row,
`ContractInv` and `StreamInv` for the lengths and ids a commit hands to the tree.
`TypesHold` and `IdleIsClean` close what the run-time integrity check of
`run_when_idle` asks. Before the proof TLC checked `MemoryInv` on the instances of
`sched_pages`, with and without overlap, and of `sched_overlap`.

**The contents** (`ContentProofs`). Slot by slot, `kv` records the tokens (and the
image) a key was computed from. `ContentInv` is:

* `RowsShared`: the pages of a row under the request's handle are the tree's.
* `RowsHoldOwnKV`: a row leads, up to what is computed, to KV of the request's
  own tokens.
* `TreeHoldsPrefixKV`: a page of the tree holds KV of its block.

The three need one another. A prompt that hits the cache reads what the tree
holds; a commit files what the row holds, and re-points the row to the pages the
tree had, which is harmless only because those hold KV of the same tokens; and
what is under the handle stays readable only because it *is* the tree's, where
the request's lock keeps it from eviction. The proof goes by who reads:
`ContentStep` says that a request keeps reading its own KV if its row, its tokens
and the slots under them stay. That covers messages, a rebuild (nobody holds a
row) and the drain of other requests; `CommitContent` and `RepointedContent`
cover the request drained, `PathContent` the one admitted. The launch is the
step that writes: every slot it writes is in the writer's own part of its row, at
the writer's own position (`WriterOwns`), has no second writer (`SoleWriter`), and is
behind all that anybody has computed (`OldSlot`); no page a row or a locked node
needs is evicted or blanked (`ForwardPages`); so old positions stay, and the new ones
hold the tokens the row has there (`ComputedOwn`), the sampled token being written
one column behind them (`ForwardTokens`). All four earlier invariants are used:
`StreamInv` says that the ids handed to a commit are those the device computed on,
and a multimodal prompt, whose KV depends on its image, never enters the tree.
Before the proof TLC checked `ContentInv` on the instance of `sched_pages`, with and
without overlap.

**The promise to the admitted** (`ContentProofs`, second half). Admission reserves in
tokens, a launch takes pages, and between the two a request is admitted in
chunks, decodes, shares its prefix with others, or leaves. `AllocationSucceeds`
looks at one launch only; `CapacityInv` keeps the account through every step:

* `RoomForAll`: the pages that the running requests, and those in the queue with
  a row, may still take (`Needs`) are at most the pages no row leads to
  (`Unheld`).
* `PlanReserved`: what the pass has reserved, in tokens, covers the pages of the
  running requests and of those it has admitted.
* `ChunkFirst`, `PlanSpent`: an entry with a chunk computed heads the queue, and a
  chunk leaves nothing of the pass's budget; so when a *new* request is compared
  with the free pages, whoever else is promised pages has been reserved for.
* `DecodesNext`: a running request has one token to compute, so the last of its
  budget is never allocated for.

`UnheldCounts` equates `Unheld` with the free list, the lazily freed pages and the
evictable blocks, which is where `MemoryInv` (who owns which page) and `ContentInv`
(a row's pages under its handle are the tree's, which its lock keeps from
eviction) are used. Sums over requests are cardinalities of sets of pairs
(`Cells`), which makes them provable without an induction: `CellsPad` is the
conversion of tokens to pages, with the page less one token of slack that
`inflight_tokens` adds per request; `CellsUsed` says what remains when a batch has
taken its part. A launch moves pages from `Unheld` to rows and takes as many from
`Needs` (`LaunchTakes`, `LaunchNeeds`); a commit of a prompt swaps pages of the row for
pages of the tree and gives back as many as it takes (`SwappedPages`); aborts and
ends only give back (`Fades`); and the matched prefix an admission locks leaves
`Unheld` in the step for which `Fits` has counted without it (`FreshCapacity`). Before the proof TLC checked `CapacityInv` on the
instances of `sched_pages`, with and without overlap, `sched_overlap` and `sched_image_chunk`.

**The promise of the prefix cache** (`PrefixProofs`). For every pool, page size, set
of clients and inputs (`PrefixCacheAssumption`; the run's instance satisfies it):
handles are nodes of the tree and a node's count is the number of handles at or
below it, so nothing below an unheld node is held. The nodes nobody holds are
therefore closed downward and carry exactly what is evictable; of the downward
closed sets of them that are large enough, a smallest one is a set `evict` may
take, since removing its topmost node leaves too little. That every page is free or
backs one block needs what a commit does with its new pages: those of blocks the
tree had stay free, the others become theirs, and the commit asks only for pages
past its handle, all of them free and apart (`CommitSizes`). `RadixCache`, the linked
nodes, inherits the theorem as far as TLC checks `KeepsPromise`.

**The flow** (`FlowProofs`). Every property of the flow relates the frontend's
books to messages in three hops of queues, and none is inductive: whether a
request may leave the statistics depends on what is still behind its end in a
queue two processes away. `FlowInv` says what each queue may hold:

* `RepliesOK`: in the scheduler's replies, and from one hop to the next, nothing
  that is counted is behind an end of the same request; an end anywhere means
  that the engine is done with the request.
* `CountsOK`: per request, tokens counted plus tokens on their way are the tokens
  the engine sampled, and the same of admissions.
* `OrdersOK`, `InFlightOK`: a request on its way to the engine, served by it, or
  with something counted on its way is in flight for the statistics; one that is
  not is known to the engine already (a tombstone of its abort, or its stage).
* `SealOK`, `GateOK`, `DeathOK`: what stops admission is there before the
  barrier; a slot of the gate is free or taken by a uid handed out; the supervisor
  reports something only after a death.
* `DecodeOK`: behind every token on its way to the detokenizer, and for every
  decode status, there is an end to come.
* `RebuildOK`: at most one rebuild message exists, in one place of one queue, and
  it is the active one's.

A worker's turn is the hard step: it takes any number of messages from two queues
at once, sorts them by kind and forwards each kind to its queue, so messages
overtake one another. The lemmas on `At`, `OfKind` and `\o` say which messages
and how many arrive (`Has`, `Count`), and which orders survive (`EndsLast`); that
admissions go before tokens and tokens before error replies is what keeps
`RepliesOK` through a turn. `dead = {}` in two theorems is the code's own limit: after a
death `_fail_all` ends requests whose tokens are still on their way (section 6).
The gate is bounded where sends do not raise, for the reason given in section 4.
Before the proof TLC checked `FlowInv` on the instances of the three flow runs.

**The daemon** (`DaemonProofs`). `ManagerInv` says of every generation whether it
is watched, being forgotten or lost, what the transaction in progress knows, and
what survives a crash; the crux is `MonitorOK` (a generation passes "drop" only
with its receipt in the outbox or reported as refused) and `StoppedOK` (after a
stop whatever could start a serve is gone or honours the stop). The routes with
conversions are shown to use the manager only through its own actions, so its
theorems carry over. `EndsAreReceipted` needs `OwnOK` besides: what this daemon
spawned or re-adopted is in its hands or accounted for. It speaks of one daemon's
lifetime, which is all the code guarantees: section 6 has the rest.

**Model-checked only.** Of `RadixCache`, `NodesConsistent`, `EvictsOldest` and that
it keeps the promise; and everything of `HybridCache`. Liveness under fairness is
out of the prover's reach, and so is the refinement `KeepsPromise`: `RadixCache`
walks its links with recursive operators, which the prover's backends do not
handle. Of sums written as folds nothing can be proved without an induction over
data, so the sums of `Scheduler` (`PagesBefore`, `inflight_tokens`) are counted as
sets. The hybrid cache is within reach; section 7 says how.

## 6. Findings

**A multimodal prompt that fits is refused.** `scheduler/prefill.py:188-192` raises
`NotImplementedError("Multimodal prompts must fit in a single prefill chunk;
increase --max-extend-tokens or shrink the prompt.")`. The chunk is
`min(token_budget, remain_len)`, and `token_budget` is what earlier requests of the
same pass left. `sched_image_chunk` shows a multimodal prompt of two tokens, with a
budget of three, raise because another prompt of two tokens was admitted before
it in the same pass. The exception leaves the scheduler's loop, so every request
ends with it; one pass later the prompt would have fitted. The behaviour is
modelled as it is (`ChunkMultimodal` ends the process).

**A serve can be started beside a conversion.** `daemon/checkpoint.py:1-3` says
that GPU exclusivity "is enforced at the route layer (app.py)". The route that
starts a conversion stops the serve first, but `engine_start` and `engine_switch`
(`daemon/app.py:197`) do not look at conversions: `daemon_gpu` starts one, and
then a serve beside it.

**A daemon crash can leave a gap in the accounting.** `daemon/accounting.py:3-4` says that
a receipt reaches the outbox before a stop signals the engine, "so a
daemon/Desktop crash cannot create an unrecorded gap." The crash receipt of a serve
that ends by itself is written by the monitor thread of a daemon that is up.
`daemon_crash` spawns and records a serve, takes the daemon down, lets the serve end
and boots again: `readopt` (`daemon/serve_manager.py:727-731`) clears the record and
writes no receipt. The same happens if the daemon goes down between two sections of
`_reap`, after the exit and before the receipt.

**Known behaviours.** The models contain these, and the properties above are
stated so as not to deny them:

* After a worker's death a request whose client had left is in no `ack_map`, so
  `_fail_all` does not end it and it stays in flight in the statistics
  (`server/api_server.py:384-389`).
* If a worker dies while the very first request is being admitted, before
  `_loop` is published, the supervisor has nobody to hand the failure to and that
  client waits (`server/api_server.py:381-382`). `flow_death` starts with a
  listener that runs.
* Totals sealed after a death may still change when the listener reads replies
  that were queued (`server/api_server.py:397`, against `accounting.py:6-8`).
* `_reap` clears the state file outside its lock (`daemon/serve_manager.py:800`): a
  client's start that comes in between loses the record of the new child, and a
  daemon that then crashes leaves it to nobody.
* The daemon can crash between a spawn and its record; that serve is in `lost`, and
  no daemon writes a receipt of it.
* A stop whose barrier timed out is not retried by the daemon, though
  `server/accounting.py:55` says it "must"; admission stays closed until somebody
  asks again. A forced stop signals the serve with a degraded receipt and without
  a seal (`MayHaveReceipt`); the flow's models stop at the serve's barrier.
* A state file that cannot be written makes the start raise with the child
  installed and unwatched (`daemon/serve_manager.py:321`).

**Limits of the new modules.** Of the daemon: the acknowledgement and contents of
receipts, the totals read from a running serve, the bench route, the exit timer,
the single-instance lock, and a cancel that arrives while its conversion is being
spawned are not modelled. Of the hybrid cache: LRU order, multimodal requests, a
rebuild and `reclaim_all_slots`, running counters and the tensors' layout. At the
least pool size admission never lacks slots (`SlotsSuffice`), so the refusal for
want of them is never taken.

## 7. Plan

In order; each item names its modules, its runs and what to prove.

1. **The hybrid cache, proved.** `PoolsConserved` and `StatesMatchPrefixes` of
   `HybridCache`, by the partition and the contents argument of `MemoryProofs` and
   `ContentProofs`, with slots beside pages and a tree node's state as its second
   content.
2. **SwaTree**: window slots and window locks on `RadixTree`; locks released as
   taken while splits move boundaries, conservation of slots.
3. **OverlapStreams**: the two CUDA streams as queues with the four
   `wait_stream` calls; the refinement that justifies "a forward's writes take
   effect at its launch".
4. **OffloadMoeCache**: slots and double buffers against layers in execution; then
   the DSV4 pool.

# A TLA+ verification project for HDCS

HDCS is a client-side block cache for virtual machine volumes. This directory
models its core in TLA+, checks it with TLC on small instances and proves
properties of it with TLAPS. Paths below are relative to the repository.

## The system and its parts

| Part | Code | State | Operations |
|---|---|---|---|
| Request pipeline | `src/core/HDCSCore.cpp`, `BlockRequest.h`, `common/Request.h` | request queue, list of waiting block requests, per request `pending_requests`, per block `in_process`, `in_discard_process`, `block_ops_end` | `aio_read`, `aio_write`, `process_request`, `map_block`, completion |
| Thread pool | `common/tq.h`, `WorkQueue.h` | job queue, threads | `add_task`, worker loop |
| BlockGuard | `core/BlockGuard.h` | block map | split of a request into block requests |
| BlockOps | `core/BlockOp.h` | chains of ops | one class per step of a request |
| CachePolicy | `core/policy/CachePolicy.cpp` | entries, clean/dirty/free lists, flush timers, eviction thread | `map`, `process`, `flush_all`, constructor (recovery) |
| TierPolicy | `core/policy/TierPolicy.cpp` | block status | `map`, `flush_all`, `promote_all` |
| Stores | `store/` | cache file, mmapped block meta, backend image | block and byte I/O, `DataStoreRequest` (write barrier and replication) |
| SafeTimer, AioCompletion, LRU list | `common/` | schedule; count and waiters; linked list | add, cancel, expire; complete, wait; touch, remove |
| Controller, messenger | `HDCSController.cpp`, `libhdcs.cpp`, `Network/` | connections, pending calls | request dispatch, send and receive |
| High availability | `ha/`, `common/HeartBeat/` | status of cores, domain map | heartbeat, status change, map rebuild |

Clients, the flush timer and the eviction thread put requests on one queue. The
main thread splits a request and has the policy build a chain of BlockOps per
block; pool threads run the chains of different blocks concurrently and those of
one block in order. BlockOps move data between client, cache store and backend
and update lists and persistent meta. The last BlockOp of a chain answers.

What makes this hard: chains are linked by one thread while another finishes the
block; evictions run beside requests that need entries; a block in eviction makes
requests wait; an op may fail in the middle of a chain; the process may stop
between any two ops and rebuild itself from the meta; counters, timer, barrier and
throttle are shared by threads, and completions delete themselves. `PROJECT.json`
lists the hazards line by line.

## Modules

| Module | Models |
|---|---|
| `HDCSCore` | the pipeline: queue, main thread, deferral, chains, pool threads, completion, failure |
| `HDCSCoreProofs` | its inductive invariant and theorems |
| `Volume` | the abstract specification: a volume without a cache |
| `CachePolicy` | `map`, every cache BlockOp as one action, the stores, crash and restart; implements `Volume` |
| `CachePolicyProofs` | no cache entry is lost or shared: inductive invariant and theorems |
| `CacheThreads` | SafeTimer, the flush callback, the eviction thread, `UpdateLRU`, the throttle they share |
| `CacheThreadsProofs` | the throttle and its counter: inductive invariant and theorems |
| `BlockGuard` | `create_block_requests` as a function of offset and length |
| `TierPolicy` | tier mode from split to answer: `map`, BlockOps, `DataStoreRequest`, `AioCompletion`, replicas |
| `MCHDCSCore`, `MCCachePolicy`, `MCCacheThreads`, `MCTierPolicy` | instances for TLC |

**HDCSCore.** `todo` and `deferred` together are `block_request_list`: the part
the iterator of `process_request` has still to visit and the part it has passed
over. `chain[b]` is the linked list that ends at `block_ops_end`. What a policy
builds is reduced to what the pipeline sees of it: `io`, `noop` or `demote`.
`BlockRequestComplete` is two actions, since the code answers the request after
it has released `block_mutex`. A failed op answers its request and leaves the
block busy, as `BlockOp::complete` does.

**CachePolicy.** A block is a few sectors; a written value carries the sector it
was meant for, so that a misplaced copy shows. `map` fixes a request's ops when
it is mapped; each op is an action on the first chain of its block, which
`PipelineSerial` justifies. Any block may be flushed or evicted at any time,
which covers the timer and the eviction thread of `CacheThreads`. `valid[b]` is a
history variable: the contents a correct volume could have after the answers
given. `Restart` is the constructor. `write_back` is the configuration
(`timeout_nanoseconds` not 0), chosen once. The backend is a plain store: the
shipped build defines none of `CACHE_POLICY`, `TIER_POLICY`, `RBD`, so
`RBDImageStore` does no I/O there and `close`, `promote_all`, `flush_all` are
empty; the model is of the intended build. Nothing in the repository issues
`IO_TYPE_DISCARD`, which `map` handles and `HDCSCore::queue_io` would pass on;
`cache_modes` includes it.

**Volume** and the refinement. A block of the volume has a content and a queue of
requests; a request is applied once, in the order of its block, and answered
later. The mapping (`Vol`, `Queue` in `CachePolicy`): the content of a block is
in the entry its meta names, otherwise in the backend; an eviction or discard
moves it to the backend when it has written there. A write is applied by the op
that first changes that content: the write of the entry the meta names; on a miss
the meta update (write-back) or the write to the backend (write-through). The
mapping uses the disk only, so `Crash` of the volume changes no content:
`CrashVolumeSpec` says that a crash loses nothing that was applied.

**CacheThreads.** Completions are addresses that are live from `new` to `delete`
and may be handed out again; `reuse` is whether the allocator gives out one that
another entry still names. SafeTimer is one thread: it takes the due events,
calls them with `map_lock` held, and waits; the steps between unlocking and
waiting are separate, so that notifications can be lost. The eviction thread
reads the two lengths, the keys and the counter in separate steps; a slot that
`get_keys` did not fill holds some block or stops the process. A pool thread runs
a request to its next lock of the timer or of a list in one step; each list has
its own lock, so a block on its way from one to the other is on neither.

**TierPolicy.** A byte of the volume holds the number of the request that wrote
it. The main thread splits and maps a request in one step (nothing defers in tier
mode); pool threads run one BlockOp per step, with `prepare_request`, the
countdown, each send and write of `submit_request`, `notify_all` and the two
halves of `wait_for_complete` as steps of their own, and the release of the block
and the completion of the block request as two. Buffers are (allocation,
position) pairs, which is what the merge of `prepare_request` compares. The bytes
of an entry are read when they are used, so a buffer freed too early shows
(`Garbage`). Messages to a replica travel on 16 sessions, so `link` is a set of
which any member may be stored next; the replica itself is a store that answers
each write. `Init` is what the constructor leaves: it takes the status of each
block from the meta and moves no data, so a volume is either promoted in an
earlier life (cache and backend agree) or its cache file is empty (`Hole`), in
spite of the constructor's comment "promote all blocks when doing
initialization". `map` takes every block as present in both cases, since it
compares the entry's address with a status. FLUSH and PROMOTE are those
`flush_all` and `promote_all` issue.

## Runs

Each run is listed in `PROJECT.json`. The bounds and why they suffice:

- `pipeline`, `pipeline_deferred`: two blocks, two threads, four requests, one of
  them over both blocks. Two threads can meet on a block, a chain can be linked
  behind a running one, a request can have one block deferred and one running.
  `Repeat` reissues a request, so counts are reused and traffic can last. The
  theorems remove these bounds for safety.
- `cache_modes`, `cache_faults`, `cache_recover`: two blocks compete for one
  entry, so that entries are reused. In `cache_faults` and `cache_recover` a block
  is two sectors and writes (reads) may cover one of them. `MaxChain` bounds the
  chains of a block: with two, a request is mapped while another of its block
  runs; `cache_faults` uses one. Values are symmetric: the code never looks at
  them. `cache_recover` is write-back with no evictions and one entry, the only
  place where recovery is right: any real cache has a `cache_blocks_count` of at
  least 2, where `cache_mirrored` shows that a restart pairs entries and blocks
  wrongly, and with evictions `CrashConsistent` fails because the entry is punched
  before the meta forgets it. What the run shows is that nothing else is wrong
  with the order in which data and meta are written.
- `background`: two blocks, three addresses, a throttle of one, three client
  requests. Timer and eviction thread can both be let through, a flush can
  complete before it is counted (the counter wraps), an event can fire while its
  block is written, and an address can be reused. `CountRange` stands for 2^64;
  it only has to exceed the counts reached. `throttle` has a cache so large that
  nothing is evicted: the callback alone gets stuck.
- `tier`: three blocks of two bytes, three threads, three requests, in one of
  four profiles of clients: a read over block boundaries with writes of one and of
  all blocks; writes of one and of two blocks with a replica; writes of a block and
  inside it, reads and flushes of that block; promotion of one block beside reads and a write to
  another. Three requests are a write, one that meets it and a reader or a flush.
  The third profile starts promoted, the others with an empty cache.
  `CountRange` is the range of the `uint8_t` in `DataStoreRequest`; the instance
  stays below it, as requests of fewer than 256 blocks do. The profiles keep apart
  the requests that the early release of the barrier lets collide.
  `tier_early_release` puts them together and adds a write with a partial first
  and last block; `tier_extents` sends such a write to a replica.

Deadlock is not checked where the system may stop: all requests answered, a block
wedged by a failure, a wake-up lost, or the process gone.

What the runs show: the pipeline keeps a block's ops sequential and its counts
exact even when ops fail, and answers everything while traffic lasts and nothing
fails (`pipeline`); whole-block I/O through the cache is that of a volume without
a cache in both modes (`cache_modes`); in write-back mode with one entry and no
evictions this holds through crashes too (`cache_recover`), and not beyond
(`cache_mirrored`); entries, lists and meta stay consistent under failures and
partial writes (`cache_faults`), also for a block that a failure has stopped for
good; the timer survives stale addresses, the throttle is exceeded by at most one,
and a dirty block at rest has its event as long as addresses are not reused
(`background`; the event may still be served late, since the timer can miss a
notification); the barrier, which lets threads go before their data is written,
does no harm while requests that share blocks are all of whole blocks, or all
inside one block (`tier`).

Runs that show a disagreement with the documentation (see `findings`):
`pipeline_deferred`, `cache_partial_write`, `cache_mirrored`, `throttle`,
`tier_early_release`, `tier_extents`. Other constants show more, as noted at the
hazards:

- `ReadOnly = TRUE` in `cache_modes` breaks `AckedSurvive` (a write leaves the
  cached copy behind), `BadFlushRead = TRUE` breaks `CleanIsSynced` (the result of
  a cache read is ignored);
- evictions in `cache_recover` break `CrashConsistent`;
- in `tier`, `CountRange = 3` breaks `BarrierMatches` (the count is cut to eight
  bits); whole-block and inside-block writes together break `AckDurable` (a
  read-modify-write undoes an acknowledged write); inside-block writes with a
  replica do too (messages overtake each other), and a write with a PROMOTE of its
  block (the promotion drops it); a whole-volume write with a flush breaks
  `FlushDurable` (the flush comes before the data), and so does a flush of a partly
  written block that nobody promoted (the hole goes to the backend).

Fairness. `HDCSCore!FairSpec`: weak fairness of the main thread and of every pool
thread, which are operating-system threads blocked only on their queues. Clients
owe nothing; `CompleteUnderTraffic` names the traffic it needs, and asks that no
failure has left a block busy.
`CacheThreads!FairSpec`: weak fairness of the timer thread, of the eviction thread
and of the pool thread of each block; a thread that waits for a lock or sleeps on
a condition has no step enabled, so the fairness does not hide a deadlock.

## Proofs

All theorems hold for every value of the constants that satisfies the named
assumptions of the modules.

`HDCSCoreProofs`: `TypeOK`, `SingleRunner`, `PendingExact`, `NoUseAfterComplete`,
`DiscardLocksBlock` and, as an action property, `NoOrphan` (only a failed op
leaves a busy block with neither job nor thread), for every set of requests,
blocks and threads.
Assumed: requests and blocks are finite sets, a request touches a block at most
once (`SpanAssumption`; `BarrierMatches` checks it of the split), types of the
other constants. The invariant `IInv` adds to the properties:

- `WorkerOK`: a thread in a chain works on the first chain of its block;
- `QueueOK`: a request waits in the queue at most once and only while `queued`;
- `Places`: a block request is in exactly one of the list, a chain and a thread
  about to answer. `PendingExact` counts blocks, so it is inductive only if no
  block request is in two places.

One lemma per action shows that it preserves `IInv`; `FlightSame` and
`FlightRemove` say how an action changes the set that is counted.

`CachePolicyProofs`: `EntryPartition` and `MetaInjective` under `Spec`, for any
number of blocks, entries and sectors, in every mode and with any store operation
failing. The invariant `EntryInv` says of every block (`BlockOk`):

- what is left of each linked chain has one of the shapes that `map` builds, and
  the entry it was given is the block's entry as long as an op of it needs one
  (`Linked`);
- only the last chain of a block gives the entry back, and only with
  `in_discard_process` set, so nothing is mapped behind it;
- the meta names no entry but the one the block holds, or, between
  `ResetCacheEntry` and `UpdateCacheMeta`, the one it is giving back.

`EntryPartition` alone is not inductive: a chain mapped earlier could give back an
entry the block no longer has. `Partition` states it over `HeldNow`, which looks
at the first chain only; `HeldIsHeldNow` shows that this is `Held`. The lemmas go
by what an op does to the block: nothing to the entry (`Relist`, `MarkMeta`),
evict it (`Evicting`, `ForgetMeta`, `FreeEntry`), take one (`TakeEntry`), end.

`CacheThreadsProofs`: `ThrottleBound` and `CountExact`, for any number of blocks,
addresses and threads. `ThrottleInv` counts, beside the requests in flight, the
producers that were let through and have not enqueued yet (`Admitted`) and those
that have enqueued and not counted (`Uncounted`); a background request that runs
is in flight (`RunsOwn`), so no completion is counted twice. Assumed: `CountRange`
exceeds the throttle by more than three, as 2^64 does.

Only model-checked: liveness (fairness and `ENABLED` are out of the prover's
reach); the data properties of `CachePolicy` and its refinement of `Volume`;
recovery; `TimerSound` and `DirtyHasTimer`; all of `TierPolicy`; `BlockGuard`,
whose recursive function would need induction over data, which the prover cannot
do.

## Not modelled

- Start-up, shutdown and the destructors: they join threads and close files.
- `flush_all` of `CachePolicy`, which nothing calls, and the loops of `flush_all`
  and `promote_all` of `TierPolicy`, whose callers no build compiles (the requests
  they issue are modelled); DISCARD in tier mode, which nothing issues.
- Failures and short transfers of the tier store, short reads and writes of
  `SimpleBlockStore`.
- High availability (`ha/`, `common/HeartBeat/`): its maps are read and written by
  several threads without a lock. A race on a `std::map` may leave it in any state,
  so a faithful model allows every outcome and has no property to check.
- Networking: callbacks of `boost::asio` that move bytes; lost connections are
  not handled by the code above it, and `TierPolicy` takes a connection as a set
  of messages in transit.
- Configuration, logging, tools, the manager UI (a web front end with its
  libraries, by far the most lines of the repository), `single_patch`, the
  vendored CRUSH library (pure placement), `KVStore` (unused by the core).

## What could follow

A proof of the refinement of `Volume`, for which `EntryInv` would need the data
of every chain; a proof of `TimerSound`; failing writes in tier mode.

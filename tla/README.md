# A formal model of qMLX

TLA+ specifications of the concurrent and stateful core of qMLX (the Python
package `vllm_mlx`), the TLC configurations that model-check them on small
instances, and proofs, checked by TLAPS, that the main safety properties hold for
every instance.

    tlc -workers 2 -config SchedulerFaults.cfg MCScheduler    # one run
    tlapm SchedulerProofs.tla                                  # one proof module

`PROJECT.json` lists every run, which source lines every definition stands for,
the hazards, the findings and the theorems.

## 1. The system

qMLX serves language models on Apple silicon behind an OpenAI-compatible HTTP
API. One asyncio thread serves all clients. All GPU work of a model happens on
one worker thread per engine, because mlx streams belong to a thread. Most of
what is hard in this program is what happens between the two, and what is kept
from one request for the next: KV states in memory and on disk.

    HTTP route --> disconnect guard --> BatchedEngine --> EngineCore --> Scheduler --> mlx-lm
                                                           (asyncio) |   (worker)     ^
                                        DiffusionEngine  <-----------'       |        | wraps _step
                                        (asyncio + its own worker)           |        |
                                                    memory caches, disk <----+   MTP, suffix decoding

| Component | State | Operations | Talks to |
|---|---|---|---|
| **Scheduler** (`scheduler.py`) | request dict, waiting deque, running map, uid maps, the open BatchGenerator and its stop tokens, pending aborts, two cancellation ledgers and their counters | `add_request`, `step` (drain aborts, schedule, generate, recover), `abort_request`, `record_disconnect_abort`, `remove_finished_request` | called by EngineCore from two threads; calls mlx-lm, the caches, the disk checkpoints |
| **Engine core** (`engine_core.py`) | output collectors, finished events, idle event, the worker's job queue, cancellation hand-off of an add in flight | `add_request`, `_engine_loop`, `stream_outputs`, `generate`, `abort_request`, `_cleanup_request(_safe)` | drives the scheduler, feeds the clients' coroutines |
| **Output collector** (`output_collector.py`) | one slot and an event per call | `put` (merging), `get`, `clear` | loop writes, one coroutine reads |
| **Disconnect guard, abort plumbing** (`service/helpers.py`, `engine/batched.py`, `routes/health.py`) | flags of one request | forced abort, the `finally` blocks, the cancel route | calls `abort_request` up to five times for one request |
| **Diffusion lane** (`runtime/diffusion_lane.py`) | worker, its job queue, generation lock, per-job cancel and done events, stuck flag, admission counter | `start`, `stop`, `check_admission`, `release_admission_reservation`, `_stream_prompt_raw`, `_worker_loop` | one worker thread, many coroutines |
| **Disk KV checkpoints** (`runtime/disk_kv_checkpoint.py`, two methods of the scheduler) | body, tokens and sidecar files, delta chains, reference counts, the restore index, one lock | write, look up, verify, load a chain, soft-evict, quarantine, enforce the cap | the workers of all engines of the process |
| **Prefix cache** (`prefix_cache.py`: `PrefixCacheManager`) | a trie of KV states, LRU list, pinned set, byte counter | search, fetch, store, evict, pin, clear | scheduler: admission, clean-up, recovery |
| **Paged cache** (`paged_cache.py`, `prefix_cache.py`: `BlockAwarePrefixCache`) | blocks, reference counts, free queue, hash map, prefix index, block tables | allocate, share, store, fetch, release, fork, copy on write, pin, clear | the same |
| **Speculative decoding** (`spec_decode/mtp`, `speculative/suffix_decoding.py`, the wrappers in `scheduler.py`) | the caches of the batch, the staged token, a suspended generator, rollback tapes | the wrapped `_step` and `next`, the generator, hand-off to plain decoding | replaces a method of mlx-lm's GenerationBatch |
| **Model registry** (`model_registry.py`) | engines, owners | acquire, release, forced hand-over | start-up, tests |
| **Telemetry queue** (`telemetry/queue.py`) | bounded event queue, daemon, latches | enqueue, flush, start, shutdown | background thread |
| Memory-aware cache, routes, parsers, MCP client, download, CLI, supervision, kernels | | | see sections 7 and 8 |

What makes the modelled components correct:

* *Scheduler*: a request is in one place; every token reaches the request it was
  decoded for, under that request's stop tokens, numbered without a gap; a
  cancelled request leaves the batch and nothing revives it; cancellations are
  counted once; the batch keeps its bound.
* *Engine core*: a call that is over leaves nothing decoding and nothing stored;
  the loop never sleeps with work to do; every call ends; what the client sees
  is an initial part of the answer with a truthful end.
* *Diffusion lane*: the lock has one holder and the GPU never works for anybody
  else while a call holds it; slots are counted exactly; every call ends.
* *Disk checkpoints*: a lookup hands over rows that the request's own model
  computed for a prefix of its prompt, or nothing, whatever crashed, was evicted
  or damaged meanwhile; no committed delta loses its base to an eviction; nobody
  removes a chain while it is read; the disk stays within its cap; every operation ends.
* *Memory caches*: a request decodes on its own rows; a cached state is keyed by
  exactly the tokens its rows stand for; counters, lists and reference counts
  agree with what is stored; a shared or pinned block is not overwritten.
* *Speculative decoding*: nobody can tell it from plain decoding; the caches, the
  recurrent state and the tokens given stay in step through every accepted,
  rejected or unused draft.

What makes them hard: aborts and clean-ups run on the asyncio thread in the
middle of a step; an exception inside mlx-lm rolls a whole batch back or aborts
it; a coroutine may be cancelled at every await, also while the worker runs its
`add_request`; outputs are merged while a consumer is slow; a wait with a
timeout races with what it waits for; a checkpoint is three files, written and
removed one after the other, by a process that may die in between and by
engines that share them; a chain is resolved, pinned and read under different
holds of the lock; a freed block keeps its content, its hash entry and its place
in an index; a verify forward puts drafts into the caches before anybody knows
which of them will be given. `PROJECT.json` lists each of these under `hazards`
with the line where it bites.

## 2. The modules

| Module | Models |
|---|---|
| `Scheduler` | the scheduler; one action per operation, a step split where another thread can come between |
| `EngineCore` | EXTENDS `Scheduler`: the engine loop, the clients' coroutines, the executor, collectors, clean-ups |
| `ClientContract` | abstract: what a client may observe of one answer; `EngineCore` implements it |
| `DiffusionLane` | the diffusion engine |
| `DiskCheckpoint` | files, index, reference counts; writers, readers, evictions, crashes |
| `CheckpointStore` | abstract: a store that may lose anything and makes nothing up; `DiskCheckpoint` implements it |
| `PrefixCache`, `PagedCache` | the two tiers of KV states in memory, as operators and actions of their own variables |
| `PromptCache` | EXTENDS both: how the scheduler looks up, inserts, stores and clears |
| `SpecDecode` | MTP and suffix decoding of one request |
| `PlainDecode` | abstract: greedy decoding without speculation; `SpecDecode` implements it |
| `SchedulerProofs`, `EngineProofs`, `DiffusionLaneProofs`, `DiskProofs`, `SpecDecodeProofs`, `PromptProofs` | inductive invariants and theorems of these components |
| `ContractProofs` | `EngineCore` implements `ClientContract` |
| `SequenceLemmas` | what the proofs need to know of sequences and finite sets |
| `MC...` | the values of the constants for TLC |

### Scheduler

The variables carry the names of the attributes: `requests`, `waiting`,
`running`, `uidOf`/`ridOf` (the two uid maps), `pending`, `cancelled`,
`disconnected` and the counters. A request is its id. `out` is the number of
tokens it has, `status` its `RequestStatus`. The BatchGenerator is external:
`seqs` maps the uid of each sequence it decodes to its request, its tokens and
the prefill calls it still needs; uids restart at zero when it is reopened, and
a sequence that ends is dropped. `genCfg` is the pair of stop tokens and
`ignore_eos` it was opened with.

`pc` is where the worker stands in `step`: draining aborts (one `DoAbort` for each,
in any order), scheduling (one `ScheduleHead` for each head, with the refusal of a head
whose stop tokens differ while others run, and the insertion), generating.
`abort_request`, `record_disconnect_abort` and `remove_finished_request` may
happen between any two of these. An exception of the generator is one of three kinds,
which `step` tells apart (`FaultKinds`): it aborts the running requests, puts
them back and retries, or lets it through to the loop. What mlx-lm samples, and
whether a text matches a stop string, is a free choice.

### EngineCore

A call is `client[r]`, which steps from await to await: `adding` (its job is on
the worker), `serving`, the stages of the `finally` blocks, `over`. `jobs` is
the executor's queue; the loop's step job and the add jobs share its one
thread (`WorkerFree`). `orphans` and `callbacks` are the two stages of the
hand-off after a cancelled add (`_on_executor_done`, then
`_cleanup_request_safe` on the loop). `slot` is the collector's one output,
`Merge` what `put` does when it is full, without the error, as in the code.
`Disconnect` is the guard; it forces an abort and then cancels the stream,
whose `finally` blocks abort again.

### DiffusionLane

`worker` follows `_worker_loop` from load to job to `finally`, in which
`PutDone`, `SetDone` and `Heal` are three actions because coroutines look
between them. `phase[r]` follows a call: admitted, queued for the lock,
streaming, then `draining` or `closing` (its `finally`, before the drain wait
returns), `expired` or `closed` (the wait has given up in its thread, the
coroutine has not resumed), over. `Leave` cancels a call at any await it may be at; at
that of its `finally` the cancellation raises out of it, which gives the lock back and marks
nothing. `cut` remembers the calls whose drain was cut short like this while the worker
had not let go of their job. `holding` is what the admission counter
ought to count. Jobs, cancel events and done events are named by their call.

### DiskCheckpoint and CheckpointStore

A checkpoint is the path `<<model, tokens>>` (in the code, a directory named by
their hash) with three files: `body`, `tokens` and `side`, each the uuid of
the write it is from. `write_checkpoint` renames them into place one after the
other (`WriteBody`, `WriteTokens`, `WriteSide`), any of which may fail, under
`lock`; `Commit` registers the delta and the index entry, and begins
`enforce_disk_cap` (`Skip`, `Unlink`, `UnlinkSide`, `UnlinkTokens`).
`order` is the order of the bodies' mtimes. A delta's body holds the rows after
those of its base (`from`); `PlanFor` chooses the base and the keyframes. A write does not
need the index: `_maybe_disk_restore` returns before building it where restoring is off
or the request was found in memory, and `_disk_persist_boundary` goes on all the same.

A lookup resolves the longest indexed prefix, verifies its blob, and reads a full
checkpoint or a chain link by link, as `_resolve_chain` does; every
failure is `SoftEvict` (forget the entry and try the next) or a quarantine: `Quarantine`
forgets the entry, `Unregister` drops the edge and `SetAside` renames the files, each under
a lock of its own. A request that was served gives the body a new mtime
afterwards and without the lock (`Touch`): others may have written, evicted or begun a
pass in between. `edge`
is the delta's reference to its base in memory, which `Rebuilt` reads from the
sidecars again in the first lookup of a scheduler. `Crash` loses everything in memory, and
`boot` remembers which uuids are of this process.

The refinement maps the paths ever written and what each engine's last lookup
served to `CheckpointStore`, whose `Hit` must find, for the asking model, a
written key that is a prefix of the prompt, and hand over exactly its rows. A row
is the model and position it was computed for, so a wrong base, a link too many
or a body of another write shows as a wrong row.

### PrefixCache, PagedCache and PromptCache

A KV state is a sequence of rows, and a row is the whole token sequence it was
computed after: rows of another prefix are different rows. `PrefixCache` has the
trie's `nodes`, the entries and their states, the LRU list, the pinned set and
the byte counter. `PagedCache` has for each block its reference count, fill,
content, hash entry and place in the free queue, and for each request the
block table; the prefix index is a set of token sequences with their blocks.
`store_cache` is a step for each block (`StoreShared`, `StoreNew`), since it may
raise or stop after any of them. Loops that nothing can interrupt are given by what
they come to: releasing a table frees the blocks whose count it uses up
(`Freed`), in the order of their last places (`FreeOrder`); an eviction pass
drops the shortest head of the LRU list that lets the new entry fit (`TrieStore`).

`PromptCache` is the scheduler's side, one action per method: `Add` (lookup),
`Insert` (with what was found, or with nothing after a failed insertion),
`Decode`, `Finish` (stores), `Abort`, `Recover` (clears the tier, retries). The
calls an embedder may make and the scheduler does not are bounded by `MaxCalls`.

### SpecDecode and PlainDecode

One greedy request in the batch. `cache` is what the model's caches have seen: the
attention `rows`, the recurrent state `ssm` of a hybrid model, and the `tape` from
which a rollback restores it. The model predicts the request's own next token after a
prefix of its own stream, and anything after anything else: a state out of step
shows as a wrong token. Drafts are any tokens. The MTP generator is suspended
between two rounds (`round`) or between accepted drafts (`walk`), with the rejected
ones still in the caches; `MtpHandOff` is the batch growing in either state. A suffix
step verifies and hands over in one call; `Given` and `Unused` are what it does with
drafts beyond the end.

`PlainDecode` gives one or several tokens of the stream at a time, none after a
stop token or the limit.

## 3. The runs

Every run's bounds are the constants of its `.cfg`.

| Run | Instance | Distinct states | Shows |
|---|---|---|---|
| `SchedulerFaults` | 2 requests, batch of 2, all fault kinds, at most 3 faults, 1 retry | 450 000 | bookkeeping (`OnePlace`, `UidMaps`, `TokenOwner`), ledgers (`CountedOnce`), aborts (`CancelledIsGone`, `GoneForGood`) |
| `EngineFaults` | a stream and a plain call, either may be left at any await, cancel route, 2 faults | 2 638 000 | `NoZombie`, `NothingLeaks`, `NoLostWakeup` |
| `EngineContract` | three calls, one with other stop tokens, batch of 2, in-flight cap of 2, no faults | 1 188 000 | `OwnStopTokens`, `TokensInOrder` while generators are drained and reopened; `EngineCore` implements `ClientContract` |
| `EngineLiveness` | two calls, batch of 1, 1 fault, fair | 126 000 | `EveryCallEnds`, `AbortTakesEffect`, `FirstComeFirstServed` |
| `DiffusionLane` | 3 calls, one with stop sequences, one with these and an impatient client, cap of 2, a `stop()` with restart, fair | 678 000 | `HeadOfLine`, `LockedOnce`, `AdmissionExact`, `EveryCallEnds` |
| `DiskDelta` | two models with nothing in common, one with prompts of 1, 2 and 3 tokens; keyframe 3, cap 2, 3 writes, 1 fault (crash, failed file write, damaged blob) | 1 562 000 | `StoreSpec`, `BaseOutlivesDelta`, `ReaderKeepsChain`, `WithinCap` |
| `DiskShared` | two models with the same prompts, no deltas, cap 1, 3 writes, no faults, fair | 316 000 | `StoreSpec` with a shared index, `NewestSurvives`, `OperationsEnd` |
| `PromptCache` | 3 prompts that extend each other, either tier, 3 blocks of 2, caps of 2 entries and 6 rows, 1 fault, 3 embedder calls | 404 000 | `TrieAccounts`, `TrieOwnRows`, `KeyedByTokens`, `PagedAccounts`, `SharedIsStable`, `PinnedStays` |
| `SpecDecode` | MTP, MTP on a hybrid, suffix; drafts of up to 3, 6 tokens, every stream, 1 fault, company at any time | 332 000 | `InStep`, and `StreamSpec`: `SpecDecode` implements `PlainDecode` |

Why the bounds are enough.

* *Scheduler, engine, diffusion lane*. Two requests are what an interleaving of
  one request's abort with another's recovery needs; a third is needed where a
  request must wait while two others differ (stop tokens, the lock, the cap),
  and there it is given. Two tokens distinguish the first, the last and one that
  follows the end; one prompt needs an extra prefill call, so that a batch mixes
  the two. Three faults allow a corruption, its retry, and a fault of the retry;
  a fourth repeats them. In the engine two faults allow one that fails calls and one
that hits the retry of the other request. Each answer of the diffusion lane has up to two chunks
  (`MaxBlocks` and the last one), which is what a stop in the middle needs.
* *Disk*. Three nested prompts and a keyframe interval of three give a chain with a
  base, a delta in the middle and a leaf. With a cap of two, the third write must
  evict, with a chain of two on the disk that either must keep; the second model's
  engine evicts while the first reads. One fault is enough for each
  crash point and damaged file, and the process after it rebuilds its index
  with the writes that are left. A fault per write would repeat this.
* *Memory caches*. The prompts are built so that each is what the one before may
  have become: exact, shorter and longer hits all occur. Three blocks are fewer
  than the requests need together, so allocation fails and evicts; the last block
  of a table is full or half full. Two entries of six rows reach both caps of the trie.
* *Speculation*. Six tokens allow two full rounds of three drafts with their
  verdicts, or one, a hand-off and plain tokens; streams are all those over two
  tokens, with any end up to one past the limit (the two tokens may be exchanged, so
  the first is fixed).

Deadlock is not checked in the engine, the diffusion lane and the prompt caches,
where every client may have come and gone; elsewhere it is.

`ContractHolds` is stated for runs without faults, since the next section shows
how a fault can break it.

### Disagreements between the code and what it says

These runs check one sentence of the repository each, and TLC finds it broken.

| Run | Property | What happens |
|---|---|---|
| `EngineLostRequest` | `EveryCallEnds` | a head whose insertion raises has left the queue and is in no list: its client waits for ever |
| `SpecStored` | `StoredIsOwn` | a suffix request that its primary token ends drops its pending drafts without taking their rows back; the state stored under its tokens holds more rows than tokens |
| `DiskTorn` | `StoreSpec` | one engine, quantized caches, two crashes: a delta's body is unlinked and its sidecar is not; the same path is written again over another base, and only its body; the chain loader accepts the new body under the old sidecar, and a prompt is served with rows missing |

`EveryCallEnds` of the engine also belongs to a passing run, whose constants leave
out the one fault that breaks it (`InsertFaults` without `"generation"`).

### Known limits

What the code does not promise, or promises and does not keep; met while modelling,
and stated in the properties themselves or left to these notes.

Scheduler and engine:

* A request that ends at a stop string keeps its sequence in the generator
  (`scheduler.py:5390`); its slot is given away, so more than `max_num_seqs`
  sequences may decode. `BatchBound` is about the running map.
* After a cache corruption the retried request keeps its tokens and may get
  `max_tokens` more; its output is then stored under the prompt and both
  attempts, though its rows are those of the second one only. `PromptCache` with
  `RetryAfterOutput = TRUE`, `Tiers = {"trie"}` and `MaxOut = 2` violates
  `KeyedByTokens`.
* The output of a request aborted by a generation error carries no error
  (`scheduler.py:6666`); the loop's error output loses its error when it is merged into a
  buffered token (`output_collector.py:119`).
* `NoZombie` exempts a call the loop has failed that ends without an abort
  (`EndsUnaborted`): a `generate()`, or a stream whose error was merged away. Its
  request decodes on to `max_tokens`.
* The cancel route removes a call's entries but does not wake its consumer, so
  `EveryCallEnds` is checked without that route.

Diffusion lane:

* A call that is cancelled while its `finally` waits for the worker gives the lock back
  without marking the worker as stuck (`diffusion_lane.py:1279`). One cancellation is
  enough where the call stopped reading of its own accord, at a stop sequence or an error. The
  next call then holds the lock while the worker runs the job of the one that left,
  which the comment at `:1256` means to exclude ("else a queued sibling request acquires
  the lock while the worker is still burning GPU on this job"). `HeadOfLine` exempts these
  jobs (`cut`) and no others.
* A drain wait that expires just before the worker lets go sets the stuck flag after
  the worker has looked for it (`diffusion_lane.py:1287`): nothing clears it.
* `EveryCallEnds` and `AdmissionExact` are about behaviours up to the first
  `stop()`, which clears the job queue and the counter under calls in flight.
  The server stops it at shutdown only.

Disk checkpoints:

* A path whose body exists is taken for written (`scheduler.py:5613`). After a crash
  or a failed sidecar the body may be all there is: the key can be neither written
  nor restored until it is evicted. The same goes for a key the index soft-evicted.
* References of deltas to bases are rebuilt by the first lookup, and lookups are off unless
  restoring is configured. Until then an eviction may take the base of a delta that an
  earlier process wrote, whereas the docstring has it that the rebuild is "Called once at startup
  [...] so deltas a previous process left on disk protect their bases before the first
  eviction pass" (`disk_kv_checkpoint.py:467`). `BaseOutlivesDelta` is about the deltas
  this process knows of (`Known`): those it wrote, and all once an index was built.
* Between dropping the edge of a quarantined delta and renaming its files the base may be
  evicted (`Discarded`; the delta is lost anyway). If the first lookup of another engine
  falls in between, it counts the edge again; it then outlives its delta and pins the base until
  the process ends, which the comment at `disk_kv_checkpoint.py:2618` means to exclude.
* An engine that has restored a checkpoint touches it without the lock. When that comes between
  another engine's write and the listing of its pass, the checkpoint just written is not
  the newest, and may be evicted by the pass that follows its own write
  (`disk_kv_checkpoint.py:1361`). `NewestSurvives` says it is taken only then.
* `BaseOutlivesDelta` and `NewestSurvives` are about the eviction pass. A
  quarantine may still take a base away, and, on a verdict reached before another
  engine wrote the path again, an intact checkpoint (`disk_kv_checkpoint.py:2606`);
  chains that lost a link are misses.
* With deltas on, the newest checkpoint does not survive if all older ones are bases
  (`disk_kv_checkpoint.py:1362`); `NewestSurvives` is checked with deltas off.
* The index is keyed by tokens only: engines of two models with one prompt
  overwrite each other's entries, and a lookup that finds the other model's misses. A delta
  may even be planned on another model's base, whose `model_name` nothing checks
  for inner links: with `Prompts <- Shared` and deltas on, `StoreSpec` fails. The
  runs keep the two apart.
* The layers of a quantized chain are given the leaf's offset, so the offset check,
  which is to find a torn chain, finds nothing in them. With one crash what is
  checked before it suffices (`DiskDelta` passes with `Quantized = TRUE` too), with
  two it does not (`DiskTorn`); with `Quantized = FALSE` the offset check catches it.
* A quarantine does not look at pins, which `ReaderKeepsChain` survives only where no
  prompt of one model is a prefix of another's: then the one engine that may quarantine a
  path is the one that reads it.

Memory caches:

* The paged tier finds a block by the tokens it holds, not by those before it
  (`paged_cache.py:965`, `:1038`), against the "chain hashing" of its own heading. With
  `Prompt <- Crossed`, `Tiers = {"paged"}`, four blocks and no embedder, `OwnRows`
  fails: a request decodes on rows of another prompt. The run states `OwnRows`
  for the trie.
* With a cache that cannot be trimmed, an exact hit feeds the last prompt token
  on top of its own row (`scheduler.py:5036`); `Trimmable = FALSE` violates `TrieOwnRows`.
* The trie's search looks for a shorter entry only at the very node where it stops;
  one further up is not found (`prefix_cache.py:153`).
* The scheduler never releases a paged table, so the pool fills up for good and
  only `allocate` with its eviction goes on; a request fetched and then aborted keeps its
  references. `PagedAccounts` says that these are counted, not that they end.
* `cache_full_blocks` and `get_computed_blocks` have no caller, and nothing sets
  `block_hash`.

Speculative decoding:

* A hand-off between two rounds repeats one token, as the code says. A hand-off between
  accepted drafts leaves rejected rows in the caches for the rest of the
  request, where the comment (`scheduler.py:1246`) has it that the harm is
  bounded to one step. `StreamSpec` claims the stream up to that hand-off only (`torn`).
* A finished MTP request leaves caches one token behind, or some drafts ahead; with
  disk checkpoints they are stored under the full key. `SpecStored.cfg` with MTP
  modes shows it.

## 4. Fairness

* `EngineCore`: weak fairness of the worker thread (mlx calls return), of the
  engine loop, and of every coroutine whose await is over (asyncio runs ready
  callbacks in order). Cancellation, disconnects and the cancel route are never
  obliged to happen.
* `DiffusionLane`: weak fairness of the worker (load and generation return, or
  raise) and of each call's resumption, which includes its timers and the
  release of its slot. `start()`, `stop()`, arrivals and departures are free.
* `DiskCheckpoint`: weak fairness of each engine's worker in an operation it has
  begun: file operations return and the lock is granted. New writes and lookups,
  crashes and damage are free. A thread that waits for the lock is not always
  enabled, but the writes it can lose the lock to are bounded.

The safety-only modules state no fairness. Weak fairness suffices: an action
that is enabled stays enabled until it or another action of the same process is
taken, except for the locks, where a call that waits may be overtaken; the models have
finitely many calls, so each gets its turn.

## 5. What is proved

For every value of the constants that meets the assumption of its module
(`SchedulerAssumption`, `EngineAssumption`, `DiffusionAssumption`,
`DiskAssumption`, `SpecAssumption`, `PrefixAssumption`, `PagedAssumption`,
`PromptAssumption`: types, positive bounds, a finite pool of blocks, `NoCfg`, `NoReq`,
`NoOne`, `NoTok` being none of the real values, and that suffix decoding is refused
on a hybrid model). Sets of requests, models and prompts need not be finite. Where a
theorem needs more, its statement says so, and so does this section.

**Scheduler** (`SchedulerProofs`). `SchedInv` is inductive: types, `OnePlace`,
`BatchBound`, `UidMaps`, `TokenOwner`, `OwnStopTokens`, `UidsFresh`, and the
running map being finite. The properties are not inductive one by one.
`TokenOwner` needs `UidsFresh`, which says how the external generator hands out uids and is
a conjunct of the invariant only: without it an insertion could take over the uid of a
sequence left behind by a stop string. `UidMaps` needs `OnePlace`: a head that
were already running would be mapped twice. Theorems: `SchedulerInvariant`,
`SchedulerTypes`, `EveryRequestOnePlace`, `BatchIsBounded` (proved only: no run
repeats it), `UidMapsAgree`, `TokensReachTheirOwner`,
`StopTokensAreOwn`. A second invariant `LedgerInv`
(counters are the sizes of ledgers that name submitted requests) gives
`LedgersAgree` and `CancellationsCountedOnce`. `QueueIsFair` is `FirstComeFirstServed`: a head
is only taken off or put back, an abort takes one request out, and a recovery puts those
that were running in front, so that nobody gets ahead of an earlier request. `GoneStaysGone` and
`CancelledRequestsAreGone` follow from the step lemmas. `TokensNumbered` is
`TokensInOrder`, under `NoRetry`: no faults, no retries, or no corruption among the faults. It
needs that hypothesis, since a retried request keeps its tokens (section 3).

**Engine core** (`EngineProofs`). A step of the engine is a step of the scheduler,
or several of its calls from the asyncio thread at once (`Outside`), so that
`SchedInv` and `LedgerInv` hold here too, and with them `EngineKeepsScheduler`,
`EngineCountsOnce`, `EngineCancelledIsGone` and `EngineGoneForGood`. `EngineInv`
adds what the loop, the worker's queue and a call may be at once. `CallPhase`
ties a coroutine to its add job and to the hand-off after a cancellation; `JobQueue`
says that a job waits at most once, and only while its caller believes so;
`FinalOutputs` and `FinalSlot` that a final output, on its way or in a slot, is about a
request the scheduler has let go for good. `LetGo` carries that through the
`finally` blocks, which may be entered by an answer, an error, a disconnect or a
cancellation: past its last abort a call has released its request, or has a
callback registered that will, or is one of those `NoZombie` exempts.
`NoRequestOutlivesItsCall`, `NothingIsLeaked`, `NoWakeupIsLost` and `EngineTypes` follow.

**Client contract** (`ContractProofs`). `EngineKeepsContract`: without faults every
step of the engine is a step of `ClientContract` or a stutter. `ContractInv`
says where the tokens of a request are: those handed out are those delivered, followed
by those in the slot (`StreamRight`), a slot's text is all of them (`SlotRight`), and
an output of the running step is the one token not handed out yet (`OutputsRight`).
Merging then concatenates. The hypothesis `NoFaults` is that of the run.

**Diffusion lane** (`DiffusionLaneProofs`). `LaneInv` is inductive. The heart of
it is what a call may conclude about its job: an end mark, a done event or the
phases after them mean that the worker will not touch the job again (`Past`),
and every other way out of a call has cancelled it (`WaitInv`), or was cancelled itself in
its drain (`cut`). With jobs being
submitted once (`JobInv`) this gives `LockHasOneHolder` and `NobodyOvertakes`.
`AdmissionsAreExact` rests on `AdmissionInv`. `LaneTypes` is type correctness.

**Disk checkpoints** (`DiskProofs`). `DiskInv` holds through crashes, failed writes
and damage. `Listed`: the directory lists every body once. `Phases`: what a
worker may rely on at each label, and that it holds the lock exactly at the
labels under it. `Stamped` and `Fresh`: a write's uuid is in no file before that file
is written, so that a sidecar with the uuid of the body beside it was written with it. `Counted`: the
references in memory are those of the sidecars this process knows of, but for the delta just
being registered or being set aside. From `Counted` follows `BasesOutliveDeltas`. The other theorems have a hypothesis, or two:

* `WholeStoreKept` is the refinement `StoreSpec` where `NoDeltas`: `Keyframe = 0`, which is
  what the code runs with unless it is configured otherwise. Models may share prompts.
  The argument: every body holds all rows of its key (`Whole`), so whichever file a lookup
  arrives at, of whatever write, serves the rows of its name.
* `JustWrittenSurvives`, under the same hypothesis: the pass visits the checkpoint last, or after it
  another one that is younger by now (`NewestLast`), and it stops at the low-water mark, which one
  checkpoint is within. So when it takes the checkpoint that is not the newest any more.
  With deltas the older ones may be bases.
* `ReadersKeepTheirChains` holds where models are `Apart` (no prompt of one is a
  prefix of another's). Then a chain lies within one model (`OwnOnly`), nobody but the
  reader may quarantine its links, and eviction respects pins.
* `DeltaStoreKept` is `StoreSpec` with deltas, quantized or not, where models are `Apart` and as
  long as the disk is `Tidy`: no body lies beside the sidecar of another write, but while it is being
  written. A body starts where its sidecar, and before that the plan of its write, says
  that its base ends (`Continues`). While a model looks up, nobody else writes its files; they may
  only vanish (`OnlyVanish`). So the links a reader collected one after the other, at
  times of their own, are each the base of the next (`Joined`), and those still there
  when the chain is pinned add up to the rows of the candidate (`ChainAddsUp`, by climbing
  from the root). `Tidy` is not for free: `OneFaultTearsNothing` shows that tearing takes two faults, one to
  leave a sidecar behind and one to let it stay, hence `DeltaStoreSurvivesAFault` for
  `MaxFaults <= 1`, which is the instance of `DiskDelta`; `DiskTorn` is the case of two.
* `SettledDiskStaysWithinCap` needs `NoDeltas` or `Apart`, and that the disk is `Settled`: no
  edge in memory is of a body that is gone. Bases are of their delta's model and shorter
  (`Downward`), so the longest checkpoint of the model that evicts is the base of nothing,
  only that model reads it, and its pass may take it. A write adds one body (`Accounted`),
  and whoever leaves one too many behind has been killed. `DiskStaysWithinCap` shows that the
  disk is settled without deltas, and with one engine (`Alone`), which does nothing between
  the two halves of a quarantine. With several engines and deltas a first lookup may come
  between them (section 3): that case is left to the run `DiskDelta`.

**Speculative decoding** (`SpecDecodeProofs`). Every piece of state is a prefix of the
one stream: `Said(n)` is its first n tokens, `Known` how many were given. The
places differ only in how many tokens were fed, given and staged (`SyncedAt`):
plain and suffix decoding have fed what was given; a generator between two rounds lags one
token; while accepted drafts are yielded the caches are ahead by those
due and those to be dropped, and the tape has the recurrent states to go back
to (`Walking`). `Turns` says who may act. That accepted drafts are the stream's own is
shown by a least counterexample: the model predicts the request's next token
after a prefix of its stream, so the first wrong draft would have been rejected. From `SpecInv`:
`SpecTypesHold`, `TokensInStep`, and `SpeculationIsInvisible`, the refinement
`StreamSpec`, for all streams, draft lengths, limits, both methods and any number of
faults, with no hypothesis but `SpecAssumption`.

**Memory caches** (`PromptProofs`). Four invariants:

* `PagedInv`: the reference count of a block is the number of its places in tables
  (`CountedIn`), allocated blocks are those counted, and the free queue has
  the others, once each. `FlowInv` says which calls may be under way and that
  each still has its table. Every operation of the tier is shown to keep the count by
  one of three lemmas: a table is added (`NewTable`), dropped (`DropTable`) or changed
  at one place (`ChangeTable`). Together: `BlocksAreCounted`. What is written to is handed out, what is
  handed out is free and not pinned, and what is free is in no table: hence
  `SharedBlocksAreStable`, and the paged half of `PinsHold`.
* `TrieInv`: the LRU list and the pinned set share out the entries, the list has no
  repetition, there are at most `MaxEntries`, the dicts are the ways to the entries, and the
  byte counter is the sum over them. Evictions take from the list only, which gives
  `EntriesAreShared` and the other half of `PinsHold`. An eviction pass
  needs the cap on the pinned set too: without it the list could be empty and the cap exceeded.
  A removal takes the dicts that no other entry needs, and the bytes of its entry: `TrieIsAccounted`, and
  with the types of both tiers `TypesHold`.
* `RowsInv`: a request that waits has rows which its rest completes to its prompt, one
  that runs has the rows of its prompt and output, and an entry has those of its key.
  `EntriesKeyedByTokens` and `RequestsDecodeOnTheirRows` follow. Both have two hypotheses.
  `Trimmable`: otherwise the last prompt token is fed on top of its own row
  (section 3). `~RetryAfterOutput`: otherwise a request that is retried keeps its old
  output, and is stored under a key that does not name its rows (section 3).
  Both say where the code is known to go wrong; they are those of the run.

`SequenceLemmas` has the facts about `ToSet`, `RemoveFirst`, `SubSeq`, concatenation,
sets as sequences, cardinalities and least elements these proofs share. The library's
facts about `SelectSeq` and folds need induction, so the models the proofs are about say in
closed form, or by a recursive function over positions (`Live`, `Only`), what those would compute; that such a function
exists and what it returns is shown from a least counterexample.

## 6. What is only model-checked

* Liveness (`EveryCallEnds` of the engine and of the lane, `AbortTakesEffect`,
  `OperationsEnd`): fairness and `ENABLED` are out of the prover's reach.

Every safety property of a passing run is also a theorem, some of them under a hypothesis
that section 5 names. Beyond the hypotheses:

* `ContractHolds` and `TokensInOrder` are not claimed: a fault or a retry breaks them.
* `StoreSpec` fails with deltas for models that share prompts, and for quantized caches after two
  faults. For caches that are not quantized it takes more of them, since the offset check
  finds one torn link; how many is neither checked nor proved.
* `WithinCap` with deltas and several engines is checked by `DiskDelta`, and proved only as long
  as the disk is `Settled`.
* `NewestSurvives` is false with deltas (section 3).

## 7. Abstractions

* In `Scheduler` and `EngineCore` tokens are numbers, prompts have no content, and
  the KV caches do not appear: prefix sharing and memory pressure do not move
  requests between the lists. `PromptCache` has the contents and leaves out the queue:
  there a request may be inserted at any time.
* All requests have the same `max_tokens`; `stream_interval` is 1.
* Requests are submitted once, since ids are drawn from `uuid4`.
* A callback that asyncio has ready runs before a later one, but between a
  worker's result and its callback others may run.
* The collector's two consumer paths are merged into `StreamTakes`.
* In the diffusion lane the pump thread and its two queues are one FIFO. `Push` drops what a call that has stopped reading
  would drain unread.
* Disk: sizes are counted in checkpoints, a file is the uuid of its write, and a
  rename is atomic; the three renames of a quarantine, under one hold of the lock, are one step.
  Not modelled: several processes that share one root, the
  checkpoints taken at an interval during a prefill (`_maybe_disk_checkpoint`),
  media keys, checks of dtype and headroom, `cleanup_request` (it has no caller).
* Memory caches: a byte is a row; access counts only choose victims, which are
  chosen freely. Not modelled: `MemoryAwarePrefixCache` (the serving path never creates
  one), `handle_memory_pressure` (finds nothing to evict in an empty queue), the
  pin route's target, which no engine has.
* Speculation: which drafts are proposed, how many, and when a round is
  skipped is free (controllers, drafters, cooldowns). Not modelled: sampling with
  temperature, logits processors, the MTP head's own cache, DFlash, the purge of generators
  and the reuse of uids, a verify forward that raises after it has advanced some caches.

## 8. Plan and what is left out

Next, in order of importance.

1. `EngineCore` with `start`, `stop` and `stream_interval`; then the telemetry queue
   (its daemon, latch and shutdown budget), the model registry with
   `deep_reset`, and the admission counter of `engine/batched.py`.

Left out, and why: the HTTP routes and the parsers translate text and keep
little state; the MCP client, the mirror and the download gate are dominated by
I/O; KV compression, kernels and model patches are numeric code; command line,
launch, supervision, agents and evaluation are scripts and configuration.

# Formal models of expert_stream

expert_stream (package `paged-moe`) runs mixture-of-experts models whose experts
do not fit in memory.  The experts stay on disk; a cache keeps some of them in
memory, most of them in a *slab*, a few large arrays divided into slots of one
expert each.  The MLX (GPU) thread asks the cache for the experts the router has
chosen; reader threads fill slots straight from disk, also for experts that are
only guessed to be needed.  A slot that is handed out twice does not crash
anything: the model computes on the wrong weights.  That is what most of this
directory is about.

All paths below are relative to the root of the repository.

## 1. The parts of the system

| Part | State | Operations | Used by / uses |
|---|---|---|---|
| `ExpertCache` (`cache.py`) | LRU of residents, staged guesses, slot table, free list, pins, reads in flight, byte budgets; one lock | `fetch`, `fetch_groups`, `prefetch`, `prefetch_many`, `relieve_pressure`, `enter_prefill`, `leave_prefill`, `make_room_for`, completion callbacks | called by the layers on the MLX thread; callbacks on reader threads |
| Slot reads, latch path (`_SlotLatch`, `_ReadPool`, `_native_read.c`) | one counter per expert read, a job queue, worker threads | submit, count down, resolve | `_submit_slab`; resolves the Future that fetches, callbacks and the slab release wait for |
| Slot reads, executor path (`_read_slab_inner`, `_read_slab_legacy`) | two `ThreadPoolExecutor`s | hand out slices, wait | layouts without a read plan |
| `SlabStore` (`slab.py`) | the slab's arrays and views of them | allocate, release | allocated and released by `leave_prefill`, `enter_prefill` |
| Flow tables (`cache.py`, `streaming.py`) | expert-to-slot table per layer, pending updates, a snapshot | mark, reset, read | decode layers that gather without a sync |
| `StreamedSwitchGLU` (`streaming.py`) | per layer: route statistics | one forward call: decode, prefill, flow | calls the cache; taps routes for the ring |
| Native pool (`_native_read.c`) | a ring buffer of jobs that grows, worker threads, a stop flag | submit, run, shutdown, destructor | jobs of the latch path; workers read without the GIL and need it to call the latch |
| `PrefetchRing` (`streaming.py`) | one prediction not synced yet, predictions not compared yet, routing of the last flow token | predict, speculate, flush, drop, pump | `prefetch_many`; the sidecar's observer |
| Its governor (`streaming.py`) | tokens per second with and without prediction, the setting in force | token boundary, settle, hold, probe | switches prediction |
| `BufferPool` (`cache.py`) | free staging buffers | acquire, release, clear | reads outside the slab |
| Prefill (`adaptive_prefill.py`, `prefill_fused.py`) | measured rates, attention plan | choose the next chunk | server |
| Server (`server.py`), KV memory (`kvmem.py`) | the store of KV caches and its byte count, recent prompts, per-request state | resume, snapshot, prefill, decode, store; recovery from out-of-memory | loader, cache (`make_room_for`, `relieve_pressure`); wraps mlx_lm's server loop |
| Lookup decoding (`lookup_decode.py`) | none but the KV cache | draft, verify, roll back | server |
| Loader (`loader.py`) | the RAM budget and its division | load, budget | creates the cache, the slab, the ring |
| Sidecar service (`sidecar/service.py`) | the demand of the token under way, a history, a cost guard with five levels | note demand, end token, drop token, shed, persist | called by the ring and the layers; owns the heads |
| Wrap head (`heads/wrap.py`, `slot.py`, `governor.py`) | live and shadow weights, gate, lock, byte ledger | score, promote, demote, lock, train, issue, save, load | issues `prefetch_many` for the next token |
| Prefill, residency, prune heads (`heads/`) | the window of a prompt, a stretch of a token, hit counts | note, warm up, advise | advise prefill, eviction and pruning |
| Bank and pretraining (`bank.py`, `pretrain_sidecar.py`) | trajectories in memory and on disk, progress, slot file | collect, flush, merge, fit, resume | one session after another over the same files |
| Machine description (`machine/`) | device catalogue, ladder of settings | choose, step down | loader, server after a failure |
| Configuration, MLX hook, install and launch scripts | none that outlives a call | | everything |

What is hard in it:

* **Shared memory without owners.**  A slot is named by the slot table, the LRU,
  the staging area, reads in flight, the entries a fetch has collected and the
  graph the GPU has yet to evaluate.  No one place says who owns it.
* **Interleavings.**  `fetch` takes the lock several times and lets go of it while
  it waits; the completion callback of a prefetched read runs on a reader thread in
  between, and may stage, install, trim and evict.
* **Lending the slab.**  Before a long prefill the slab's memory is given back, while
  reads that write into it may be in flight; afterwards it is rebuilt, perhaps smaller.
* **Failing reads.**  One component of an expert, or one expert of a fetch, fails;
  the others do not.
* **One cache, many keys.**  A KV cache is resumed, cut, converted, forked and stored
  again, turn after turn, and a turn can end between any two of these.  A cache that
  holds other tokens than its key says reads as fluent, off-topic output.
* **Abandoned passes.**  A forward call can end at any layer; the ring and the sidecar
  carry routing from layer to layer and from token to token, and must not take what an
  abandoned pass left for the next one's.
* **Weights that act.**  The sidecar's networks may issue reads only once they have earned
  it; training, promotion, locks, saves, edits of the file and restarts all touch that.
* **Files across sessions.**  Serving and pretraining write the same files, may be
  killed between any two writes, and must neither lose nor count twice.
* **Liveness.**  A fetch and the slab release wait for Futures which only reader
  threads resolve, and those need the cache's lock.

`PROJECT.json` lists every component with its status, and every hazard at the line
where it bites, with the properties that cover it or the reason why none does yet.

## 2. Modules

| Module | What it is |
|---|---|
| `ExpertCache` | the cache: one action per critical section, or per iteration of a loop under the lock; the MLX thread and the reader threads interleave |
| `SlotStore` | what a slab promises, abstractly: claim, land, fail, vacate, hand back |
| `ExpertCacheInvariant` | the inductive invariant `IInv` of the cache, part by part |
| `ExpertCacheProofs` | the theorems about the cache, that it implements `SlotStore`, and the theorems about flow decode |
| `FlowDecode` | flow decode, composed with the whole of `ExpertCache`: tables, tokens, pump |
| `SlotLatch` | how one slot read ends, jobs on a pool and a latch, Python and native |
| `SliceReads` | the other way it ends, two executors and slices |
| `SlotReads` | both ways side by side, and what a caller may expect of either |
| `SlotReadsProofs` | the theorems about them |
| `NativePool` | the native pool itself: ring buffer, workers, GIL, the two ways it ends |
| `JobQueue` | what a pool promises: jobs start in order, once, none after the shut-down |
| `NativePoolProofs` | the theorems about the native pool, and that it implements `JobQueue` |
| `Ring` | a forward pass through the layers with the prediction ring and what the sidecar hears of it |
| `RingProofs` | the theorems about it |
| `Governor` | the governor of prediction: windows, evidence, settling, holding, probing again |
| `GovernorProofs` | the theorems about it |
| `WrapHead` | the wrap head, its slot and ledger, and the cost guard that sheds it |
| `WrapHeadProofs` | the theorems about it |
| `SidecarBank` | the sidecar's files and the sessions that change them |
| `SidecarBankProofs` | the theorems about them |
| `Server` | turns of the server: the store of KV caches, snapshots, prefill, plain and lookup decoding |
| `ServerProofs` | the theorems about them |
| `MC...` | the instances TLC checks |

How they compose: `FlowDecode` EXTENDS `ExpertCache` and has every action of it.  `SlotReads`
instantiates `SlotLatch` and `SliceReads`, which open up the actions `ReadDone` and
`ReadFail` of `ExpertCache`; `NativePool` opens up the queue of `SlotLatch`'s native
build.  `Ring` has the calls the layers make in order, where `ExpertCache` lets them come
in any order.  `ExpertCache` implements `SlotStore`, `NativePool` implements `JobQueue`.

### 2.1 ExpertCache and the code

The MLX thread is sequential; `pc` is where it stands.

| `pc` | In the code | Lock |
|---|---|---|
| `idle` | outside the cache | free |
| `submit` | `_begin`, the misses still to be submitted (`todo`) | held |
| `wait` | `_finish`, the `as_completed` loop over `due` | free |
| `install` | `_finish`, the install loop over `todo` | held |
| `spec` | `_prefetch_locked`, the guesses still to be submitted | held |
| `drain` | `_release_slab`, waiting for `due`; this is `_slab_frozen` | free |

| Variable | In the code |
|---|---|
| `lru`, `raw`, `slotOf`, `free`, `pinned` | `_lru`, `_raw_ready`, `_slot_of`, `_free_slots` (with multiplicity), `_pinned` |
| `inflight`, `dest`, `st` | the keys of `_inflight`; the entry and the state of the newest Future of a key |
| `cb`, `now` | the reads whose `_attach_staging` callback has not run; those with `install_now` |
| `got`, `used` | `_finish`'s `materialized`; the experts the last fetch returned, which the pending graph reads |
| `bytes` | the contents of slab memory: which expert's weights a slot holds |
| `slab`, `budget`, `saved` | `self.slab` and `_slab_pending`, `budget_bytes`, `_decode_budget` |

| Action | Code |
|---|---|
| `FetchBegin`, `SubmitToSlot`, `EvictForSlot`, `DropForSlot`, `SubmitLoose` | `_begin` with `_submit_slab`, `_alloc_slot`, `_submit_run` |
| `Consume`, `Abort`, `FinishBegin`, `InstallOne` | `_finish` with `_install`, `_evict_to_budget`, `_release_slot` |
| `Prefetch`, `SpecToSlot`, `SpecStop`, `SpecLoose` | `prefetch`, `prefetch_many` with `_spec_blocked`, `_prefetch_locked` |
| `ReadDone`, `ReadFail` | a read on a reader thread (how it ends in detail: `SlotLatch`, `SliceReads`) |
| `CallbackIdle`, `CallbackInstall`, `CallbackStage` | the callback of `_attach_staging` |
| `RelievePressure` | `relieve_pressure` |
| `ReleaseBegin`, `Drain`, `ReleaseEnd`, `ShrinkBudget` | `enter_prefill` with `_release_slab`, `_release_slab_locked` (also by way of `make_room_for`) |
| `RebuildSlab`, `RebuildFails`, `RestoreBudget` | `leave_prefill` with `_slots_that_fit` |

What is abstracted, and why that is sound:

* An expert is a key.  All experts have one size (a slab requires it), so byte budgets
  are counted in experts.
* The order of the LRU and of the staging area is left open: the victim of an eviction
  is any unpinned resident expert, the "oldest" guess any other staged one.  The code's
  choice is one of them, so what holds for every choice holds for the code's.
* Run reads (several neighbouring experts in one `pread`) are one read per expert.
* A decode fetch begins when the graph of every earlier layer has been evaluated: the
  router's output is needed to know what to fetch (`_begin`, `_alloc_slot`).  A prefill
  group is evaluated before anything else runs.
* `fetch_groups` begins the next group before it finishes this one; the model does
  one at a time.
* Statistics, the Metal cache and the clearing of it are left out.

Two constants switch on orders of steps that the code allows and that break it (the proofs
cover every value of both, see section 4):

* `CallbackLag`: `concurrent.futures` wakes the threads waiting for a Future before it
  runs the Future's callbacks, so a fetch may consume a prefetched read before the
  callback of that read has run.  With `FALSE`, as in `cache_all`, the callback is first;
  `cache_race` has it `TRUE`.
* `SoftOnSlab`: a prompt below the shrink threshold is prefilled with the slab up.  `FALSE` in
  `cache_all`, `TRUE` in `flow`, where nothing is trimmed.

### 2.2 Slot reads: SlotLatch, SliceReads, SlotReads, NativePool

`SlotLatch` opens up `ReadDone` and `ReadFail`.  The MLX thread pushes the jobs of a
read with the cache lock held (`lock`); the pool's queue is first in, first out;
reader threads take a job, read its components, count down the latch, and the last
one runs `on_done` (verification only, under the cache lock), resolves the Future and
runs the callback of a guess (under the cache lock).  The step between the last count
and the resolution is outside the latch's lock, as in the code.  `build` is chosen at
the start: the Python pool, one job per component, or the native pool, one job for
the expert, whose submission may raise.  `Parts` are numbered because jobs are pushed,
and a native job is read, in plan order.

`SliceReads` is the path of `_read_slab_inner` and `_read_slab_legacy`: a read waits in the
queue of the expert executor (`jobs`); a thread takes it, hands large slices to a second
executor (`tasks`), reads small ones itself, then waits for the large ones in order; the
first exception ends the read.  Both queues are first in, first out.

`SlotReads` puts them side by side: `path` is settled when the cache is made.  Its
properties are the two modules' together.

`NativePool` is what `_native_read.c` adds: `q` is the ring buffer (`cells` with `head`,
`tail`, `len` and `cap`, grown to twice the size and laid out from the head when full),
`pc` and `job` are the workers, `gil` says who holds the GIL.  A worker sleeps, takes,
reads without the GIL, takes the GIL and calls the latch.  The Python side submits (holding
the GIL, which it may let go of between two calls), and ends the pool by `Shutdown`, which
releases the GIL while it joins, or by `Dropped`, the destructor, which does not.

### 2.3 FlowDecode

`FlowDecode` extends `ExpertCache`: every action of the cache is an action here, together
with what it does to the tables (`Mark`, `Reset`) and when the layers call it.

| Variable | In the code |
|---|---|
| `row`, `uploaded`, `dirty` | `_flow_rows`, `_flow_tables`, `_flow_dirty` |
| `step`, `at` | the layer the forward pass has come to; where its first flow layer stands: before the table is read, before the pump, after it |
| `warm`, `recs` | `_flow_tokens` (capped where it no longer matters), `_flow_recs` (the experts routed to) |

| Action | Code |
|---|---|
| `TokenStart`, `SyncLayer`, `SyncGuess`, `Sample` | a decode token on the ordinary path: `flow_token_start`, `fetch`, `flush` and `speculate`, the sampler (external) |
| `FlowFirst`, `Pump`, `PumpNothing`, `FlowNoted`, `FlowLayer` | `_flow_forward`, with `flow_table`, `flow_pump` and `flow_note` |
| `PrefillLayer`, `PrefillBig`, `PrefillShrinks` | a prompt: `flow_drop`, then `fetch_groups` or `enter_prefill` |
| `Rebuild`, `RebuildFailed`, `Restore` | `leave_prefill`, called by a layer on the ordinary path |
| `WorkOn`, `ReadEnds`, `CallsBack`, `Relieve` | the rest of `ExpertCache` |

`WorkOn`, `ReadEnds` and `CallsBack` are each the corresponding actions of `ExpertCache`
with the marks they make: a callback that stages makes none, and one that installs, with
`PREDICT_INSTALL`, makes those of `Mark`.

A flow layer's routing is not known before the token is evaluated, so its graph counts
as reading every slot its table names (`used`).  All layers of a token take the same
path.  Which experts a layer routes to, and which of them pruning drops, is left open.

### 2.4 Server

Streamed models are served one request at a time, so `Server` is sequential; what
is hard is the sequence and where it can break off.  A KV cache is the sequence of
tokens it was computed from, whether it is quantized, and `via`, which remembers the
two known ways in which a cache and its key come apart: it, or a cache it descends from, was
in a turn whose snapshot raised after it had fed something (`refed`), or was stored by a
lookup turn that the reader stopped inside or between verify passes (`lookup`; where one token
of a pass is left to hand over, the cache is what was handed over, and no `via` is set).
A fork too big for the store is skipped or not (`SnapshotStore`): the store's own limit is data.

| Variable | In the code |
|---|---|
| `store`, `bytes` | the trie of `LRUPromptCache` with its entries, `_n_bytes` |
| `recent` | the last of `_recent_prompts` |
| `ctx`, `cached` | `_req_ctx.tokens`, `_req_ctx.cached` |
| `kv`, `rest` | `kwargs["prompt_cache"]`, `kwargs["prompt"]` |
| `done`, `bounds` | `processed` and the boundaries left in `_snapshot_user_segment` |
| `out`, `feed` | what the generator has yielded; the rest of a verify pass |
| `lent` | the cache is on its prefill budget |

| Action | Code |
|---|---|
| `FetchHit`, `FetchMiss` | `_fetch` with `take_nearest_cache` or mlx_lm's copying fetch, `_dequantize_kv_cache` |
| `BeginTurn` | `_snapshot_boundaries` |
| `SnapshotPrefill`, `SnapshotStore` | `_prefill_remainder`, a chunk a step; `_fork_prefix_snapshots`, a boundary a step, with the handoff |
| `SnapshotFails` | the `except` clause around it in `_stream_generate` |
| `Prefill`, `First`, `Emit` | `generate_step`: chunks, the last token of the prompt, mlx_lm's loop |
| `Verify`, `HandOver` | `lookup_decode.generate_step` with `_verify` |
| `EndTurn`, `FailTurn` | the end of `_stream_generate`, `relieve_pressure`, and mlx_lm's final insert |

mlx_lm's part is external and modelled from how this code relies on it: what the trie
finds, that a trimmable entry pops its own prefixes, that the store is asked for one
insert at the end of a turn under the request and the tokens yielded, and that its loop
feeds a token before it yields it.  Which entry the LRU gives up is left open, as are
the places of message boundaries and think tokens, and which tokens a model picks.
Not modelled: the draft model of speculative decoding, dense models, models whose cache
is never quantized.

### 2.5 Ring

What a router picks is data; the model keeps of a list of experts only the pass it came
from, a number (`label`).  A pass is a token on the ordinary path, a flow token, or a chunk
of a prompt, and runs the layers in order; it may stop at any of them (`Abandon`,
`DecodeReadFails`, `PrefillReadFails`), and the next pass finds what it left.

| Variable | In the code |
|---|---|
| `pass`, `slab`, `warm` | the forward call; the cache's slab, up, owed (released for a prompt) or lost (`leave_prefill` could not rebuild it); `_flow_tokens` |
| `pending`, `predicted`, `depth` | `_pending`; `_predicted` per layer; `predict_depth` |
| `recs` | `_flow_recs` |
| `token` | `_token_open`, `_token_demand` and the residency head's `_cur` |
| `history`, `chunk` | the service's `_history`; the prefill head's counts, `_prev_hot`, `_warm_pending` |

| Action | Code |
|---|---|
| `StartToken`, `DecodeLayer` | `flow_token_start`; one decode call with `flush`, `note_demand`, `speculate`, `end_token` |
| `Pump`, `FlowLayer` | `flow_pump`, `_flow_forward`, `flow_note` |
| `StartPrefill`, `PrefillLayer`, `PrefillEnds` | a prompt's call: `drop_pending`, `flow_drop`, `drop_token`, the prefill head's window, the demand of the last positions |

### 2.6 Governor

`_token_boundary`, `_window_done` and `_settle`.  Rates are data, so which side wins, once the
evidence suffices, is a choice; how much evidence there is, is exact, also when it is
halved for the next probe.  Evidence is counted in units, of which one trial is `Unit`;
`grain` is what all evidence is a multiple of, and a probe, which halves it, may begin while
it is even.  `mixed` is a history variable: the
window under way has tokens of both settings.  A prediction that fails (`speculate`, `flush`)
switches the setting in the middle of a window.

### 2.7 WrapHead

One action per decode token, and in it the order of the code: score the reads of the last
token, gate (promote, lock, demote), train, issue, shed or recover.  `earned` says that the
live weights passed the gate, `same` that the shadow is a copy of them, which is all the
model keeps of the networks.  `Persist` saves the slot, `Unlock` and `UnlockFile` are a
user's unlocking in the process and in the file, `Restart` loads what the file holds.
Scoring and training are skipped at the higher levels of shedding except every few tokens.

### 2.8 SidecarBank

A token's demand frame is its number over all sessions, a trajectory an interval of
numbers.  A session serves (`Serve`, `LiveToken`, `LivePersist`), pretrains over a corpus
(`Pretrain`, `Prompt...`, `Interrupt`) or fits what is banked (`FitOnly`); each ends in
`Closed`, or in `Kill` at any point.  A save is the steps it has, listed in `todo`: open,
fill and, for the bank and slot, rename; `SaveFails` is an exception in one of them, after
which the rest goes on as the code does.  The progress file is written in place and can be
torn, which its loader takes for no progress.  `Scales` is how many samples a frame gives the
dense fit (`expand_trajectory`).  An interrupt is noticed after a token, so one may still be
collected.  Not modelled: `--start-at`, which skips prompts on purpose, and `--no-resume`.  One
process at a time.

## 3. Runs

Passing runs:

| Run | Instance | What it shows |
|---|---|---|
| `cache_all` | 3 experts, 3 slots, 2 wanted at once, staging for 1, reads fail, install_now, slab lent and rebuilt with 2 or 3 slots; `CallbackLag` and `SoftOnSlab` `FALSE`; symmetric; 540 000 states | slots are never shared, what is resident or read by a pending graph is intact, no write after the slab is freed, and the cache implements `SlotStore` |
| `flow` | 2 experts in 2 layers, 2 slots, one warm-up token, prompts short and long, failing reads, fair; 219 000 states | a flow layer gathers only from slots that hold what its table says until the token is sampled; nothing is held back over a prompt; tokens end and fetches return |
| `reads` | 2 reads of 3 components on 2 workers, both pools, failing components and pushes; or of 3 slices (the second inline) on 2 expert threads and 1 slice thread; fair; 102 000 states | a Future resolves once, when its read is quiet, whole or failed; every read resolves; no thread waits for itself; the release ends |
| `pool` | 6 jobs, 2 workers, a ring of 2 cells that grows to 8, shut down by a call at any time or by the destructor while no job is being read; 50 000 states | the ring implements `JobQueue`; what was accepted is finished; stopping ends |
| `ring` | 6 passes of 4 layers, 2 followed by the prefill head, strides of 2, one warm-up token, history of 2; any pass abandoned at any layer; the slab may fail to come back; 900 000 states | a prompt drops the routing and demand held from before it; a prediction is compared once; no token is in two frames of the history; a prefill window is of one prompt |
| `governor` | 3 probes (`Unit` is 4), windows of 2 tokens, passes of 1 or 2, one failing prediction; 400 000 states | both sides get equal trials, credit is honest, every probe ends |
| `wrap` | thresholds of 1 or 2, at most 2 reads in a window, all verdicts; 18 000 states | weights that issue reads passed the gate; the ledger judges its own window; work that was shed comes back |
| `bank` | 3 sessions, 6 frames, 2 prompts, a bank of 2 trajectories, 2 samples a frame; killed between any two writes; 4 500 000 states | bank and slot are never torn, nothing is banked twice or out of order, progress only over finished prompts, the newest frame trained on is banked |
| `server` | 7 processes: caches that can and cannot be trimmed, plain and lookup decoding, moving and copying store of 1 or 2 entries, snapshots that raise; requests of up to 3 or 4 tokens over 2 symmetric tokens; 683 000 states | a stored cache holds its key; cache and rest of the prompt are the request; prefill never meets a quantized cache (each for caches without `via`); an insert takes no reuse away |

Runs that end in a violation, each a disagreement between the code and what it says
of itself (see "findings" in `PROJECT.json`):

| Run | Property | What happens |
|---|---|---|
| `cache_race` | `ResidentIntact` | with `CallbackLag`: fetch consumes a prefetched read, the late callback stages the same slot, the staged copy is trimmed, the slot is freed under the resident expert |
| `server_handoff` | `HandoffWholeEver` | a snapshot raises after it has fed a chunk; the generator feeds the whole prompt on top of it |
| `bank_fresh` | `FreshStartsOver` | `--fresh` gives the service a new slot; the wrap head keeps the old one, trains it and saves it again |

More of the kind, reachable by changing a constant or adding a property to these
instances.  Each was found so; none is among the runs.

| Property | With | What happens |
|---|---|---|
| `GuessSlotsComeBack` of `ExpertCache` | `cache_all.cfg` | a guess lands, `relieve_pressure` drops it while its slot is still pinned; the slot is lost until the slab is rebuilt |
| `NoWedgedRead` of `ExpertCache` | `cache_all.cfg` | a demand read fails, `_finish` raises before it removes the Future; every later fetch of the expert raises the old error |
| `NoStaleSlot` of `ExpertCache` | `CallbackLag = TRUE` | a callback stages an entry of a slab that has gone |
| `NoSharedSlot` of `ExpertCache` | `SoftOnSlab = TRUE` | a soft fetch does not pin the read it joins, and the trimming callback frees its slot |
| `ComputeIntact` of `FlowDecode` | `PredictInstall = TRUE` | between the first layer's reading of its table and the pump, a callback installs a guess and evicts an expert the table names, and the pump reads into its slot |
| `AskedIsComputed` of `FlowDecode` | `flow.cfg` | flow tokens miss an expert; it is read and staged, but only a fetch claims what is staged, and flow tokens do not fetch |
| `FreedQuiet` of `SliceReads` | an instance of `SliceReads` | a failed slice ends the read while its siblings are still writing, and the slab is freed under them |
| `ReadsResolve` of `SlotReads` | a native build that verifies | the submitting thread takes the cache lock it holds |
| `StopEnds` of `NativePool` | `DropsBusy = TRUE` | the last reference to a pool goes while a job is being read: the destructor joins with the GIL that the worker needs |
| `OncePerToken` of `Ring` | `ring.cfg` | an abandoned token and the next one are one to the residency head, which then counts an expert twice |
| `LastResortIsQuiet` of `WrapHead` | `wrap.cfg` | at the last level of shedding the head still issues |
| `StoreHoldsKey` of `Server`, without its condition on `via` | lookup decoding | the last token handed over was never fed, unlike in mlx_lm's loop, so a cache stored after a whole pass is one token short of its key, and ahead of it when the reader stops with two or more left |

### Bounds

Three experts and three slots with fetches of two are enough for: a hit, a claim,
a join and a miss in one fetch; a full slab; a victim that is pinned and one that
is not; a guess beside two residents; a staging area that overflows; a slab rebuilt
smaller than it was, with a reserve of one slot.  Staging for one guess while two
reads are in flight makes the trimming happen.  `MaxWant`, `SpecCap`, `Staging`,
`DecodeBudget`, `PrefillBudget`, `Reserve` and `MinSlots` are the code's parameters,
small; none bounds a counter of the model, all of whose variables are finite by
nature.  One guard is a bound of the model: no second read of an expert starts before
the callback of its first one has run.  Without `CallbackLag` it never holds anything
back, and with it only after a race (`Overtakes`, section 4) has been lost.

In `flow` staging is as large as the set of experts, so that nothing is ever trimmed: what
trimming does to a soft fetch is in the table above.  One expert a layer is enough for a
layer whose expert was evicted for the other's; that tables name residents is proved for
any number.

In `reads` the number of reads in flight is bounded by the identities in `Reads`, which
are reused.  In `pool` six jobs on a ring of two make it wrap before it grows, grow twice and
wrap again.

In `ring` six passes are a prompt, warm-up, flow, another prompt and an abandoned pass between
any two of them; four layers with strides of two have a prediction that crosses a stride
and one that would leave the model.  In `governor`, three probes halve evidence twice, which
is where rounding would show; `Failures` bounds the predictions that fail, `Unit` the probes.  In `wrap` the
thresholds are the code's, scaled down; `MaxIssued` bounds the reads of one window.  In
`bank` three sessions are a collecting one that is cut short, one that resumes it, and one
that serves or fits; `MaxFrames` bounds the tokens of all of them: six are enough for the
live stretch to overflow and, in three trajectories of two frames, for the bank to drop its oldest.

In `Server` a request of four tokens is long enough to resume from one, to fork at a
boundary before the last and to leave a token for the generator; two entries are enough to
evict one, and to resume from the wrong one.  `Reply` and `conf.req` bound the tokens of a
turn, `Drift` how far a cache may have come away from its key and still be resumed.
Thresholds (`MinSnapshot`, `MinGain`, `Fp16Ctx`) are the code's, scaled down.  `StoreHoldsKey`,
`HandoffWhole`, `PrefillUnquantized` (in the generator) and `ConditionedOnEmitted` exempt caches
whose `via` names a known fault: a snapshot that raised, which `server_handoff` is about, or an
earlier lookup turn stopped inside or between its passes.  So of a conversation in lookup mode
only the turns that resume from a snapshot or from a clean stop are covered.
`SlabBackBetweenTurns` covers every way a turn ends once its generator has begun; a failure between
the fetch, which may lend the slab, and the generator is not an action.

Deadlock is not checked where the model really stops at a bound (`ring`, `governor`, `bank`)
or at its natural end (`pool`).

Each property has a mutant: a definition of the model changed as a plausible bug
would change it, under which the run must find the property violated.  They stand
before the definition they change and are listed under "mutants" in `PROJECT.json`.

### Fairness

`ExpertCache` in `flow`: weak fairness of the call in progress, of each read and of each
callback.  Threads that can run do run, and a `pread` returns.  Nothing forces the
model to call the cache.  The forward pass has strong
fairness, since a layer makes finitely many guesses before it goes
on; nobody has to ask for another token.

`SlotLatch`: weak fairness of the MLX thread inside a call
and of each worker, and strong fairness of the two steps that take the cache lock: it
may be free and taken again any number of times, and a thread that waits for it gets it
in the end.  `SliceReads`: weak fairness of each read and of the release; its queues are first in,
first out, so no strong fairness is needed.  `NativePool`: weak fairness of each worker, and
strong fairness where it waits for the GIL, which the interpreter hands over on its switch
interval; the Python side ends the calls it has begun.

`Governor` and `WrapHead`: tokens keep coming, which is what their promises are about
(`ProbeEnds`, `WorkComesBack`); the latter also assumes that tokens stay cheap, in the
property itself.

## 4. Proofs

Every safety property the passing runs check is also proved, for all values of the constants
that satisfy the modules' assumptions; so are both refinements.  Each theorem module extends
the module it is about.

### The cache and flow decode

`ExpertCacheProofs` proves, for all finite sets of experts and slots and all values of
the other constants, `CallbackLag` and `SoftOnSlab` included:

* `OwnershipInvariant`: `Spec => []IInv \/ <><<Race>>_vars`;
* from it, in the same form, `SlotsNotShared`, `EntriesIntact`, `PendingGraphIntact` and
  `NothingStaleAfterRelease`;
* without any exception `TypeCorrect`, `HandedBackMemoryIsFree` and `ResidentsInSlab`.

`Race` is one of two steps, each of which the code allows:

* `Overtakes`: a thread that waited for a read takes its result, or drains it, before the
  read's callback has run.  It takes `CallbackLag`, and `cache_race` shows what comes of it.
* `Snatches`: while a prefill on top of the slab waits, a callback gives away a slot of what
  the prefill waits for or has collected, which it does not pin.  It takes `SoftOnSlab`;
  section 3 shows what comes of it.

A behaviour may stop after any step, so a theorem of this form says more than that a race
is lost some time: in every behaviour that violates the property, a race is lost no later
than in the step after which the property first fails.  No other late callback and no other
prefill on the slab does harm, and with both constants `FALSE` neither step exists.

None of the properties is inductive by itself.  That the slot of a resident expert
holds it depends on every reader knowing its own slot, on nobody else being able to
free that slot, and on what a fetch has collected being protected until it is
installed.  `IInv` says who may refer to a slot:

* `Stages`: what each value of `pc` says about the loops; a thread about to submit an
  expert finds it neither resident, staged, in flight nor collected.
* `Futures`: a read has a Future exactly as long as someone refers to it, and an expert
  is resident, staged, collected or in flight, but only one of these (a collected one
  may become resident through its install_now callback).
* `ReadsOwn`, `GotOwns`, `UsedPinned`: each referrer owns its slot, and what a decode fetch
  waits for, has collected or has returned is pinned (`Held`), which is what stops callbacks
  and evictions from giving it away.  A prefill pins nothing; what it reads is evaluated before
  it is over, and until then nothing is read into those slots.
* `NoSlab`: without a slab nothing names a slot.
* and the properties themselves.

`UsedPinned` stands apart: all the rest, `Owned`, is inductive without it, which is what
makes `Owned` of use where a graph pins nothing, in flow decode.

The proof of the step has one lemma per action; the operators that several actions use
(freeing a set of slots, `Install`, `ReleaseSlot`, `DropGuesses`) have lemmas of their
own.

The same module proves `CacheImplementsSlotStore`: unless a race is lost, every step of
the cache is a step of `SlotStore` or a stutter.  The holder of a slot in the abstract store is
a choice among the experts that refer to it; a lemma shows from `IInv` that there is at most
one, so that it can be computed before and after a step.  Then there is one lemma per
action: which slot changes hands, and that all others keep their holder.

About `FlowDecode` it proves, also for all constants, `PredictInstall` included, and without
exception:

* `TablesFollowCache` and `TablesNameResidents`: what a flow layer gathers through is
  what is resident.  The invariant `TablesAgree` speaks of the rows also of layers that
  are dirty, since an upload copies the whole row.
* `WarmupHoldsNothing`: after a prompt no older routing is waiting.  The invariant
  `HeldWhileFlowing` says where the MLX thread can be while the first flow layer pumps;
  without it a prefill or a rebuilt slab could come between.

and, unless a race is lost or a guess installs itself on the way (`InstallsOnTheWay`),

* `FlowGraphIntact`: the slots the graph of a flow token reads keep their experts until the
  token is sampled, though nothing pins them.  `FlowInv` replaces `UsedPinned`: between the
  first flow layer and the sampler (`OnItsWay`) no fetch is under way and no guess installs
  itself, so nothing leaves the LRU and what the graph reads is still resident.  The exception
  takes `PredictInstall`, and section 3 shows what comes of it.  The run `flow` checks the
  same property with `SoftOnSlab = TRUE`, on an instance where nothing is trimmed, so that
  `Snatches` cannot happen there.

### The reader pool

`SlotReadsProofs` proves for any number of reads, components, threads and slices, on both
pools, whichever component or push fails:

* `ResolvedIsQuiet` and `ResolvedOnlyOnce`, from `LatchInv`.  A job that is not counted down is
  at one place only: still to be pushed, in the queue, or with one thread.  The latch counts
  exactly these jobs; the thread that counts the last one is the only one that ends the read;
  and what has been counted has landed, or the failure is remembered.
* `ResolvedIsWhole`, from the same invariant for the latch, and for the executors from
  `SliceInv`: a slice that waits in the slice executor's queue is there once and is not
  yet in, so that none of a read that ended well can still be taken.

The assumption is that an expert has finitely many components and not none.

`NativePoolProofs` proves for any number of workers, any capacity to begin with and any number
of jobs:

* `JobsAreApart`, that `PoolInv` is inductive: the ring is well formed, a job is in one place
  only, with its number below the counter.
* `PoolIsAQueue`: the pool implements `JobQueue`.  `Contents` is the sequence a ring stands
  for; lemmas show that a push appends to it, a pop takes its head, and a growth leaves it as
  it is, wherever the ring wraps.

### The ring and the governor

`RingProofs` proves for every number of layers, stride, lead, warm-up, history and passes:

* `PromptReplacesRouting`, from `HeldInv`: what is held back (a prediction waiting for its
  sync, flow routing, demand) is no older than the pass that noted it, and the first layer of a
  prompt drops all of it.  Predictions already handed to a layer are not dropped: the prompt's
  own demand counts them.
* `WarmUpHappensOnce` and `WindowIsOfOnePrompt`, from `WindowInv`: while a prompt runs, the
  layers behind it hold its own label in the window and those before it nothing.
* `PredictionsAreCompared`, from `PredictInv`: a prediction that waits in layer `l` was
  made by the pass under way, or by one that was abandoned before it reached `l`; the next
  pass outside flow that goes through `l` compares it, once, with its own demand.  So the
  prediction of an abandoned token is compared with the demand of a later one, in the model as
  in the code (streaming.py:638-641); what is proved is that none is compared twice or piles up.
* `TokensAreLearnedInOrder`, from `PastInv`: no token is in two frames of the history and the
  frames are in the order of the tokens.  (One frame may hold two: the demand of an abandoned
  token joins the next one's.)  A token that has not been learned from is younger
  than all that is remembered, whether its demand is collected on the ordinary path or waits in
  `recs` for the pump; and routing waits there only while every token runs under flow.

`GovernorProofs` proves

* `PredictionCreditedHonestly`: a window that is mixed ends with
  prediction off, so what is booked on the side of prediction was measured with it.  The
  converse is not claimed: evidence against prediction may contain predicted tokens.
* `SidesTriedEqually`, from `Mix`: as long as no prediction has failed, prediction is never
  behind and never two windows ahead.  All evidence is a multiple of `grain`, which is what a
  probe halves with it; so the bounds can be stated with the grain, and halving does not
  round them away.  No power of two is computed, and any number of probes is covered.

### The sidecar

`WrapHeadProofs` proves `LiveWeightsEarned` and `LedgerComparesLikeWithLike` for all thresholds
and bounds.  The invariant says of the head and of the file alike that enabled, unlocked
weights are earned (a lock, which the head sets by itself after a streak of good tokens,
asks no gate), and goes through a token stage by stage, as `Judged`, `Train` and `Issued`
do.

`SidecarBankProofs` proves for any number of prompts and samples, of sessions and of
kills between any two writes:

* `BankAndSlotNeverTorn`, from `FilesInv`: a rename is due only right after the write that
  fills its temporary file, so a temporary that is due for a rename is whole.
* `NoPromptSkipped`, from `ProgressInv`: the prompts before the one a session is at are
  finished, in memory, on disk and in what a save has still to write.
* `BankNeverRepeats`, from `OrderInv`: what a session has in memory comes after all that the
  bank on disk holds, for a fit until its save has put it there (`BankDue` says that the save
  is still to come); so a rename appends.
* `FittedDataIsBanked`, from `FitInv`: once its save is over a fit has nothing in memory that the
  bank does not reach, and it trains only then; weights in memory, in the file and in its temporary alike reach no
  further than the bank.  It speaks of the newest frame: of more trajectories than the bank keeps
  (256), the oldest are trained on and not banked (service.py:547-554).

The last two need each other's facts about saves: they are parts of one invariant, `BankInv`.

### The server

`ServerProofs` proves for any vocabulary, any length of requests, replies and chunks, any
thresholds and every process the settings describe:

* `Invariant`: `IInv` is inductive.  `Stored`: a stored cache holds its key, unless its `via`
  names a fault.  `Placed`: what each place of a turn says of the rest of the prompt, of the
  snapshot's boundaries and of quantization.  `Conditioned`: the tokens the cache of the turn
  was computed from, at each place.
* from it `StoredUnderItsTokens`, `HandoffComplete`, `PrefillInFp16`, `VerifiedOnEmitted` and
  `SlabBack`.
* The first four say two things: what the property says, with its exemption, always; and the
  property without any exemption, `\/ <><<Spoils>>_vars`.  `Spoils` is the step that may set
  a `via`: a snapshot that raises, or a lookup turn that ends inside or between its passes.
  `Clean`, that no cache has a `via`, holds until then, and `IInv /\ Clean` gives the stronger
  form.
* `StoreWithinBudget`, from `Counted`: the counter `bytes` is the sum of the sizes of what is
  stored, through takes, replacements and evictions, and so bounding it bounds the store.
* `InsertTakesNoReuse`: an insert into a store with room leaves every request served at least
  as far as before.  What the trie serves a request is reduced to `Reach`, the most any key
  shares with it where caches can be cut, the longest key that is a prefix of it where they
  cannot; an entry that a trimmable insert replaces is a prefix of the new key, which then
  shares as much.

The last two are about a sum and a maximum over a finite set.  `GreatestExists` and `LeastSet` stand
in for an induction: of the subsets for which a claim fails one is minimal (the
inclusion of finite sets is well founded), and taking one element out of it contradicts that
it fails.

### What is only model-checked

Liveness under fairness is beyond the prover: `TokenEnds`, `FetchReturns`, `ReadsResolve`,
`DrainEnds`, `JobsFinish`, `StopEnds`, `ProbeEnds` and `WorkComesBack` are checked by TLC only.
So is `ComputeIntact` of flow decode with `SoftOnSlab = TRUE`, which holds only where nothing
is trimmed.

## 5. Plan

In this order:

1. `ExpertCache`: the next group of `fetch_groups` begun before this one is finished.
2. `Server`: two layers of a cache converted one after the other, the draft model's cache
   beside the model's.
3. Algorithms against reference definitions: second-chance eviction with the residency
   advisor, choice of the next prefill chunk, division of the budget, the settings ladder.

## 6. Not modelled

Numerics (the networks of the sidecar, quantization, matrix products), file formats and
tokenization, formatting and logging, command lines, configuration, installation.
`BufferPool` is a free list under a lock of its own.

The loader and the machine ladder are arithmetic on measured sizes, done once.  Reading
the loader brought up one disagreement: the automatic choice of a mode compares with a
headroom that knows the KV cache, the check of the resident mode with a flat one, so a
model chosen to be resident can be refused.

Other things read in the code and left out of the models:

* The server and `--fit-only` read, merge and write the same bank file without a lock; the
  models run one process at a time.
* A session killed between its last progress save and its fit leaves progress past prompts whose
  trajectories were only in memory; with too few samples they are not banked either.
* The residency and prune files are written in place and can be torn; their loaders then
  start from nothing.
* A lock copies the shadow over the live weights without asking the gate; locked weights
  are exempt from `EarnedLive`.
* At a token boundary the governor adds the time of the pass that ended and the positions
  of the pass that begins (streaming.py, `_token_boundary`); after more than a second it
  drops both.
* `create_pool`, when a thread cannot be started, sets the stop flag without the mutex.

# Verification of the mini-sglang DeepSeek V4 server

The repository serves DeepSeek V4 on A100 (sm80) GPUs: an HTTP frontend, tokenizer and detokenizer
processes, and one scheduler process per tensor-parallel rank that owns the GPU, the KV pool and the
prefix cache. This directory holds TLA+ models of the parts whose correctness depends on the order
in which things happen, the TLC configurations that check them on small instances, and TLAPS proofs
that hold for every instance. Paths below are relative to `src/python/minisgl/`.

## 1. Inventory

| Component | State it keeps | Operations | What makes it hard | Correct when |
|---|---|---|---|---|
| Phase policy `scheduler/phase_policy.py` | conflict flag, last phase, decode run | `choose`, `record_scheduled`, budgets | fallbacks and resets in the middle of a conflict | prefill tried in time, decode protected, no idle iteration |
| Prefill manager `scheduler/prefill.py` | pending list, chunked requests, granted-token ledger | add, select and reserve, divide a budget, rotate, abort | selection uses what was granted before; admission counts tokens, the cache pages; rotation | chunks usable, budget not stranded, nobody starves, what is admitted can be allocated |
| Scheduler loop `scheduler/scheduler.py`, `core.py`, `decode.py`, `table.py` | batches in flight, lifecycle per request, running set, retirement owners, table rows | receive, admit, abort, schedule, forward, process, commit, retire | results of forward N are handled after forward N+1 was issued; aborts at any point; the device lengths run ahead of the host | nothing released while in flight, nothing leaked, no request lost, tokens in order, idle is clean |
| Cache manager `scheduler/cache.py` | free full pages, free SWA pages, component pages, lazy-free list | match, lock, allocate, evict, cache a request, release | pools that are short in different mixtures; two requests with one prompt; SWA tail release | every page owned once; eviction suffices |
| Prefix cache `kvcache/radix_cache.py` | radix tree, reference counts, tombstones | match (splits nodes), insert, lock, evict, SWA eviction | a node split or evicted under a handle | evictable + protected sizes exact, no locked node evicted |
| KV pool `kvcache/deepseek_v4_pool.py` | page and component ownership, sequence slots | acquire, release, map pages | several page kinds per logical page | slots and components exclusive |
| Scheduler IO `scheduler/io.py` | queues, CPU group | receive (single, rank 0, other ranks), reply | ranks must see the same messages in the same iteration | all ranks schedule alike |
| Tokenizer/detokenizer `tokenizer/` | per-uid decode offsets | tokenize, detokenize, forward aborts | a worker regroups messages by kind; several workers | finals delivered, state freed |
| API frontend `server/api_server.py` | per-uid reply list and event, availability | new user, send, listen, stream, abort, shutdown | reply listener, disconnects, aborts and shutdown interleave in asyncio | each client gets its replies; no map entry leaks |
| Process supervisor `server/supervisor.py`, `launch.py` | children, ready roles | start, wait for readiness, watch, shut down | a child dies or repeats its readiness; timeouts | startup ends, no orphan |
| Offline LLM `llm/llm.py` | in-process queues | generate, receive, send | the same scheduler with an in-process source | every prompt answered |
| Reasoning state and sampler `reasoning.py`, `engine/sample.py` | reasoning state per request | advance, prepare, sample | overlap: the sampler prepares N+1 before N's token is known | thinking ends as configured |
| Online compressor `attention/deepseek_v4.py`, `kernel/triton/deepseek_v4.py`, `kvcache/deepseek_v4_pool.py` | ring of a table row, carry of C128, checkpoint of a page | pool a group, store, publish an entry, copy a checkpoint | a group is cut by chunks; rows of the table and pages change owner without being cleared; parallel stores | each entry is reduced from its own text |
| Decode metadata `attention/deepseek_v4.py` | cached page tables per table row, ownership version | refresh, gather, launch eager or by graph | a table built for one owner of a row is read for the next; pages move between building and launch | each forward reads its own context |
| CUDA graphs `engine/graph_policy.py`, `engine/graph.py` | buckets, captured graphs, one input buffer, one set of surfaces per context class | resolve, capture, pad, replay | nothing is cleared between forwards; three places decide whether a batch is replayed | every batch has a bucket, a replay works on its own batch |
| Memory plan `engine/engine.py`, `engine/graph_memory.py` | free memory of the ranks, number of pages | complete the configuration, plan, allocate | the plan precedes the graphs and the release of raw weights, starts from the freest rank, and counts every buffer in a second form | what is allocated fits every rank |
| Prefill metadata `attention/deepseek_v4.py`, `models/deepseek_v4.py` | surfaces of all rows of a batch, what each layer has stored | build, store tokens, publish entries, attend | rows are per token, tables per request, locations compact; pages move after building | each row finds its window and its entries, each layer stores before it attends |
| Model, other kernels, distributed wrappers | tensors | numeric | GPU code | outside a model checker's reach |

How they interact: the frontend sends `TokenizeMsg`/`AbortMsg` over ZeroMQ to a tokenizer worker,
which sends `UserMsg`/`AbortBackendMsg` to the scheduler of rank 0, which broadcasts to the other
ranks. In one iteration the scheduler receives messages, asks the phase policy, lets the prefill
manager or the decode manager build a batch, takes table rows, sequence slots and pages, issues the
forward, and processes the results of the previous one; replies (`DetokenizeMsg`) go back through
the detokenizer to the frontend. `PROJECT.json` lists every component with its status, and under
`hazards` what can go wrong in each and which property watches it.

## 2. Modules

| Module | Models | State and actions |
|---|---|---|
| `PhasePolicy` | `MixedPhaseFairPolicy` | a record per policy object; operators `Choose`, `RecordScheduled`, `ResetMixedState`, `GrantedBudget` |
| `PhaseArbitration` | `_schedule_next_batch` over arbitrary queues | `policy` plus three observations; one action, a call with any queue flags and a prefill that may come back without a batch |
| `PrefillChunks` | `allocate_fair_prefill_chunks` | pure operators: first shares, rounds, the whole division; each loop is a function of the number of its passes |
| `PrefillForwards` | a sequence of prefill forwards of `PrefillManager` | pending list, prompts, prefix hits, the ledger; `AddOneReq`, `RunForward` (the selection loop `Scan`, the chunks, `Chunked`, `Rotated`) |
| `PrefillTurns` | the two above composed: the arbitration decides over the real pending list and its budget drives the forward | `Arrives`, `Turn` |
| `RequestContract` | what the scheduler promises each request | abstract: one record per request; `Refuse`, `Admit`, `Issue`, `CompletePart`, `Commit`, `Finish`, `Abort`, `Drain` |
| `Scheduler` | `overlap_loop`/`normal_loop` of one rank with its prefill, decode and table managers and the request lifecycle | see below |
| `RadixTree` | `RadixPrefixCache` | pure operators on a tree record: match, split, lock, insert, evict, releases of heads and of leaves |
| `CacheManager` | `scheduler/cache.py` over `RadixTree` and the page ownership of the KV pool, driven by forwards in flight | see below |
| `PagePool` | the ownership part of `deepseek_v4_pool.py` | pure operators on a record of named full, SWA and component pages: allocate, map, adopt, retain, release, with the pool's own checks in `raised` |
| `DecodeTables` | cache manager, tree and pool on named pages, with the decode metadata of the attention backend and the launch of a forward | see below |
| `GraphPolicy` | `graph_policy.py` | pure operators: the ladder of buckets, the refusals, the resolved list |
| `RuntimeConfig` | how `engine.py` completes its configuration, the widths of the context classes | pure operators on a record of settings |
| `MemoryPlan` | the plan of `engine.py` and `graph_memory.py`, and what the pool allocates | pure operators; see below |
| `GraphRunner` | `engine/graph.py` and the launch decisions around it | see below |
| `Compressor` | the online C4 and C128 compressors, their ring, carry and page checkpoints | see below |
| `EagerSurfaces` | the index surfaces of one row of an eager forward in `attention/deepseek_v4.py` | pure operators |
| `DecodeSurfaces` | the surfaces of a decode row, eager and inside a graph (`kernel/triton/deepseek_v4.py`) | see below |
| `PrefillSurfaces` | all rows of a prefill and what its layers store (`attention/deepseek_v4.py`, `models/deepseek_v4.py`) | see below |
| `Reasoning` | `reasoning.py`, the reasoning part of `engine/sample.py` and of the scheduler | host state, committed text, the device's token pool, one or two batches in flight; `Forward`, `ProcessLastData`, `Abort` |
| `ReplicatedInput` | what the receive path promises | abstract: one log of batches, each rank a position in it |
| `TPSync` | `scheduler/io.py`: rank 0, the other ranks, the broadcast and the barrier | see below |
| `Serving` | `supervisor.py`, `launch.py`, lifecycle of `FrontendManager`, over `TPSync` | see below |
| `Frontend` | `FrontendManager`, the streaming endpoints, the workers between them and the scheduler | see below |
| `TextStream` | `tokenizer/detokenize.py` and the reasoning splitter of `api_server.py` | one request token by token: `Detokenize` with its offsets, then the splitter |
| `TopK` | the indexer's top-k, `dsv4_topk_v1.cu` | see below |
| `SparseAttention` | both sparse attention kernels, one row and head | see below |
| `MoERoutes` | the route plan of the mixture of experts: masking, counting, placing, the two GEMMs and the sum | see below |
| `*Proofs` | theorems: `PhaseArbitrationProofs`, `SchedulerProofs`, `TPSyncProofs`, `EngineProofs`, `AnswerProofs`, `SurfacesProofs`, `TopKProofs`, `CacheProofs` | |
| `MC*` | instances for TLC | sample prompts, symmetry sets, an abstract scheduler for `TPSync` |

Composition: `Scheduler` uses the phase policy and the chunk division; `CacheManager` and
`DecodeTables` both stand on `RadixTree`, the first with counts and every chunking, the second with
names and whole prompts; `Serving` contains `TPSync` unchanged, so that ranks die in the middle of a
collective; `MCDecodeTables` takes its graph sizes from `GraphPolicy`. `RuntimeConfig` EXTENDS
`GraphPolicy`, and both `MemoryPlan` and `GraphRunner` stand on it, so that the plan and the runner
derive their widths from the same settings. `DecodeSurfaces` and `PrefillSurfaces` both EXTEND
`EagerSurfaces`.

### Scheduler

`Scheduler` EXTENDS `PhasePolicy` and `PrefillChunks` and INSTANCEs `RequestContract` under a
refinement mapping. Its actions follow one iteration of the loop:

| Action | Code |
|---|---|
| `RejectUserMsg`, `AcceptUserMsg` | `_process_one_msg` for a `UserMsg`, `decide_max_sequence_admission`, `add_one_req` |
| `AbortBackendMsg` | `_process_one_msg` for an abort: `abort_req` of both managers, `_live_reqs`, `_commit_terminal`, release |
| `EndReceive` | the end of `receive_msg`; a blocking receive returns only with a message |
| `SchedulePrefill` | `_schedule_next_batch` with a prefill batch, `_prepare_batch`, `allocate_paged`, `issue_batch_refs`, `complete_one`, `filter_reqs`, `record_scheduled` |
| `ScheduleDecode` | the same with the running requests |
| `ScheduleNothing` | no batch: `forward_iterator` yields nothing, the policy is reset |
| `ProcessLastData` | `_process_last_data`: complete references, commit tokens, terminal states, retirement, release |
| `AllocationFails`, `CommitFails` | the assertion of `allocate_paged` and the RuntimeError of the commit, which end the process (`pc = "raised"`) |

Abstractions of `Scheduler`: a token is its position and its value only matters as "is it EOS",
chosen freely; prompts share no prefix, so a page is held by one request or is reclaimable, and a
cached page counts as free; which free row the table hands out is any of them; there is no
sliding-window pool and no `ExitMsg`; a frontend uses a uid once. The two assertions that hand out
rows and slots (`\A u \in new : slotOwner[row[u]] = NoOwner`) and the ValueErrors on a chunk's length
are guards of `SchedulePrefill`: if one failed, the loop would have no step, which TLC reports as a
deadlock. `Quiescent` is the only stuttering, when every client has spoken or the process has died.

`CacheManager` EXTENDS `RadixTree`. It follows the pages of each request through the same loop, with
less of the loop: which requests a forward takes, and how long their chunks are, is any choice that
the admission, the budget and page alignment allow, and an EOS may come with every token.

| Action | Code |
|---|---|
| `TryAllocateOne` | `match_req` (which may split nodes), both capacity checks, `lock`, the row and its first indices; without room only the split remains |
| `PrepareChunk` | `_add_one_req` for a prompt that is half read; it copies `swa_evicted_seqlen` from the last `ChunkedReq` |
| `BeginPrefill`, `BeginDecode` | the batch is complete and goes to `allocate_paged` |
| `ReleaseEvictableSwa`, `EvictNodes` | one round of `_evict_for_dsv4_component_capacity`, in its two forms |
| `AllocationFails` | the assertion of `evict`, and with it those after the loop: the process ends |
| `Issue` | the pages enter the rows, the forward is in flight, `complete_one` |
| `CompleteEnded`, `CompleteChunk`, `CommitToken`, `CommitLastToken` | one row of the oldest forward in `_process_last_data`; `CommitToken` caches the prompt (`cache_req`) or releases the pages that left the window; the last one retires (`cache_req(finished=True)`) |
| `Abort` | an abort between two iterations |

The state: `tree` is the radix tree by paths of page contents, each with a reference count and
whether its full and its SWA page are still held; `free` counts the free pages of the three pools; a
`row` says of each page of a request whether its location was allocated for it, copied from the tree,
or is -1; `ownSwa` are the pages for which the pool maps its full page to an SWA page; `handle`,
`cached`, `host`, `evicted` are the lengths of the request's newest `Req` object, and `flight` keeps
the length and the frontier of the objects of older forwards.

Abstractions of `CacheManager`: pages are counted, not named, and a full page, a group of component
pages (C4, C128, indexer) and an SWA page belong to each page of a request; tree nodes are evicted in
any order rather than by timestamps; frees take effect at once, as nothing is allocated inside
`lazy_free_region`; forwards may also be processed without a successor, so that the model has the
behaviours of `overlap_loop` and of `normal_loop`. Each of these adds behaviours and removes none
that the properties tell apart. The window of the instance is not longer than a page, as with the one
page size that the engine accepts (256, `engine.py:867`) and the model's window of 128. Of the theorems
of `CacheProofs` only the two about what a forward reads have such a bound, `Window <= PageSize + 1`.

### DecodeTables and PagePool

`DecodeTables` EXTENDS `RadixTree` and `PagePool` and repeats the life of a request on named pages,
so that it can be asked which page a forward reads and what is in it.

| Action | Code |
|---|---|
| `Admit` | match, lock, the row of the page table; the request takes a table row |
| `BeginPrefill`, `BeginDecode` | the batch goes to `allocate_paged` |
| `ReleaseEvictableSwa`, `EvictNodes`, `AllocationFails` | one round of the eviction loop, or its assertion |
| `Prepare` | pages are taken and mapped, the cached component tables of the batch's rows are refreshed where the signature changed (`_refresh_decode_component_page_tables`), the ownership version is read |
| `Launch` | `forward_batch`: graph or eager, the check of the ownership version; entries of the new tokens are written |
| `CompleteEnded`, `CommitToken`, `CommitLastToken`, `ReleaseActive` | one row of the oldest forward: release of pages that left the window, `cache_req`, retirement |
| `Abort` | an abort between two iterations |

Abstractions: a prompt is read in one forward; `swa_evicted_seqlen` is left out, as it only skips
pages that have been released; one kind of component page stands for C4, C128 and indexer, which are
taken and released together; the ownership version is "moved since it was read", and as no page moves
between the step that reads it and the one that checks it, `PoolStaysSound` does not show what that
check is worth (in `PrefillSurfaces` pages do move there: `WindowsStayCurrent`); two requests never
share `id(req)` and uid; padding rows of a graph are only the choice of a bucket; the cached SWA
table of the code is written and never read, and left out.

### Compressor

Forwards are atomic and happen in stream order: there is one stream, and a table row is given on only
after its forwards are done (`NoUseAfterRelease`). A layer's projection of a token depends on all
tokens up to it, so the model stores the prefix itself, and an entry is the sequence of rows it was
pooled from. `Admit` matches any number of cached pages (a match may stop early). `Join` is one pass
of the loops of `allocate_paged` and `_make_positions`: it gives a request of the batch that is being
prepared its new pages and its rows. Until the forward is launched only an eviction can come between
the passes, and a forward of those that have joined so far is that of a smaller batch. `Forward` runs a
batch of chunks of any length or of decodes, pools and publishes (`ShortPooled`, `LongPooled`,
`PublishEntries`) and stores (`StoreRing`, `StoreCarry`, `StoreCheckpoint`). `CachePrompt`, `Retire` and
`Evict` move pages between the requests and the cache. Nothing is cleared when a row or a page
changes its owner; new memory is `Stale`, and a place two programs of a launch store to is `Torn`.
Attention and indexer compressors run the same code on state of their own. Padding rows store to a
table row of their own. Groups of 4 and 128 tokens in pages of 256 are scaled to 2 and 4 in pages of
4. The property is what `debug/dsv4/benchmark/offline/deepseek_v4_c4_compact_checkpoint_proof.py` tests with
poisoned buffers, for every chunking and every reuse at these sizes.

### Reasoning

A decode batch is any subset of the requests that can decode (the code takes all that run), and
chunks that sample nothing are left out. The host is at most one forward behind because the loop
processes the previous batch in each iteration, which is `Scheduler`'s `HostFollowsDevice`.

### TPSync

| Action | Code |
|---|---|
| `Begin` | the rank's own decision whether `receive_msg` may block |
| `BlockingGetSilent`, `BlockingGet` | rank 0 waits for a first message and publishes it, before the count |
| `Drain`, `BroadcastCount`, `Publish` | rank 0 pulls what is there, broadcasts how many, publishes them |
| `BlockingRead`, `TakeCount`, `Fetch` | the same on the other ranks |
| `Iterate`, `LeaveBarrier` | one iteration of the loop with the batch; on an `ExitMsg` the barrier |

A rank's scheduler is a deterministic machine `Step`, `Idle` over its batches: the constants of the
module. Subscriptions are taken to be in place before the first message, which `Serving` shows the
start to wait for.

### Serving

The parent spawns (`Spawn`), waits (`CheckReady`, `TakeAck`, `NoAck`, `StartupTimeout`), serves
(`StartServing`), watches (`HealthTick`, `ListenerFails`), stops (`Stop`, `ShutdownAsync`, `AsyncEnds`)
and shuts down in stages (`AskToExit`, `GraceEnds`, `Terminate`, `JoinTerminated`), which three
callers may start; children are built, acknowledge, run, crash, are interrupted, lose a peer or are
killed. Workers never leave by an `ExitMsg`, so with workers the grace period always elapses.
Children that are not `Stubborn` die within the termination grace; uvicorn's drain ends; the exit
hook of `multiprocessing` that joins children is outside the model.

### Frontend

Everything between two awaits is one step of the event loop: `Submit`, `SendOne`, `StartStream`,
`Wake`, `Yield`, `Finish`, `WaitAgain` are the handler and its generator, `Cancelled`, `NoticedGone`,
`Collected`, `SendFails`, `SendCancelled` the ways out of them, `AbortStarts`, `AbortSends`,
`AbortFails` the abort task, `Listen` the reply listener, `BackendFails` and `ShutdownAsync` the
two ends. `Tokenize`, `Detokenize`, `TakeRequest`, `TakeAbort`, `AcceptToken` are the workers and the
scheduler, as far as messages are concerned. There is one tokenizer and one queue to it.

### TextStream

A token is a sequence of bytes, a character one or two of them, so a token can hold the end of one
character and the beginning of the next. The tokenizer library is external: decoding is
concatenation with a replacement character for what is incomplete. `MCVocabulary` has tokens of all
kinds, also those that end one character and begin the next. Behind a CJK character (`Straddles`) the
code can then send text twice (section 5), so `SentIsPrefix` and `FinishedIsComplete` are stated for requests
in which no token has straddled; `SplitIsExact` needs no such condition.

### DecodeSurfaces

`DecodeTables` says whose pages a table lists; `DecodeSurfaces` takes the tables as they are and says
which location of the pool each column of a decode forward's surfaces names: the window, the C4
entries the sparse attention reads, all ended C128 groups, and where the row's own token and entries
go. The code does this twice. `RunEager` is `_build_metadata` for a decode batch (`EagerSurfaces`),
with tables that are as wide as its longest request. `Replay` is `_copy_raw_decode_graph_metadata_for_replay` into the
captured buffers, whose rows earlier batches have used, followed by
`_prep_decode_metadata_in_graph_kernel`. `Select` is `select_indexer_fp8`, which replaces the recent C4
entries by the indexer's choice, in either kind of forward, and `SelectNone` the same for a row whose
scores the top-k has rejected: no entry and the length -1. Positions, lengths and locations are
integers as in the code; one row is modelled, as the kernel has one program per row. Left out are the
full locations of the entries, which no attention kernel reads.

### PrefillSurfaces

A prefill flattens its requests to one row per token (`Rows`, `Pos`, `OutLoc`). `Prepare` is
`_prepare_batch` and `_build_metadata`: every row gets the page tables of its request, those that the
cache handle lists first and those that the pool maps where none is listed (`Filling`), the window is
looked up in the table of SWA pages (`PagedWindow`), and a request whose last window has no page is
refused (`Missing`). Then the layers run, each in the order of `DSV4Attention.forward`: `StoreTokens`
(`q_kv_norm_rope_cache`), `Publish` for the indexer's entries and for the compressed ones, as the
layer's ratio has them, and `Attend`, which raises when the ownership version has changed. Between any
two of these `Remap` may move pages. `Publish` takes one row of kv per token and locations of the rows
that end a group only, and decides by their number which rows go with which locations.

Left out: the indexer's choice, which is the one of `DecodeSurfaces`; what a layer computes; the
cached SWA tables and the compressor's form with one row per ended group, which no caller reaches
any more. The entries' content is `Compressor`'s question.

### RuntimeConfig and MemoryPlan

`Adjusted` is `_adjust_config`: what a recipe, explicit settings and defaults make of each other, and
what is refused (`Unsupported`). `PolicyRequest` hands the result to `GraphPolicy`. `MemoryPlan` has
two halves that the code keeps apart: what `_determine_num_pages` and the estimates charge for a page,
the request slots, the page table and the graphs (on Ampere devices by the widths of the classes, on
others by `EmptyEstimate`), and what the engine then keeps: the pool with its dummy page, the page
table, and what no plan counts (`SideBytes`):

| Term | Code |
|---|---|
| `BookkeepingBytes` | reference counts, mappings and free lists of the pool |
| `ManagerBytes` | the token pool and the free list of the scheduler's managers |
| `TableCacheBytes` | the backend's cached page tables |
| `SurfaceBytes` | the surfaces of both captured classes, built before the free memory is read that the capture is measured from (`graph.py:242-296`) |
| `FusedOutsideCapture` | the fused `wqa`/`wkv` weights when graphs are disabled (`graph.py:237`); with graphs they are built behind that reading and belong to what the capture takes |

`FusedWeightBytes` of a model with 43 layers, 4096 columns and ranks 1024 and 512 is the 541,065,216
bytes that `graph_memory.py:25` reports as measured. Not counted are what a forward takes for its
duration, for which the code's allowance (`non_graph_activation_allowance_bytes`) is 0 as well, the
warm-ups that end before the pool exists, and the rounding of the device's allocator. The number of
pages connects the halves. Sizes are integers in bytes with the code's own roundings; free memory
before and after the load are inputs.

### GraphRunner

| Action | Code |
|---|---|
| `InitCapture`, `Bind` | `_capture_graphs` up to its loop, one set of surfaces for each context class over one input buffer |
| `Capture`, `CaptureFails`, `Finalize` | the loop over classes and buckets, an error in it, the comparison with the plan |
| `Prepare` | `pad_batch` and `prepare_metadata`: the first two of the three decisions |
| `Replay`, `PrepareForReplay` | `_replay_to_buffer`: inputs, the graph's key, the copy into the surfaces of the class |
| `Eager`, `LaunchFails` | `forward_batch` without a graph; the errors of a launch |

A row stands for all that a request brings to a forward: token, location, position, tables and
reasoning state. Buffers keep what earlier forwards left in them. The capture status, which is only
reported, the logits buffer and what the graph computes are left out.

### TopK

One row of the indexer's scores and K slots. `FindBin`, `Look`, `PlaceGreater`, `Stage`, `PlaceTie`,
`Crosses`, `Pass` and `EndPass` are the radix selection with its atomic counters: threads place and
stage entries in any order, entries that the staging buffer has no room for are dropped, and the slots
are filled all the same. `Start` and `Choose` are the canonical second half, which recomputes the
choice from the worst score in the slots, and `Finish` writes the row, or its length as -1 when the
counts do not fit. Scores are an ordered set with a lossless key, digits are an arbitrary radix.

### SparseAttention

`Launch` takes one of two ways. The one-pass kernel goes through the columns of both sources with an
online softmax (`Accumulate`, `NextSource`, `Write`); a decode gathers the columns slot by slot
(`Gather`), gives blocks of them to up to `MaxSplits` programs (`LaunchSplits`, `Split`) and combines
their parts with the sink (`Combine`). A sum of exponentials is the set of its terms, each a column
with its exponent, so a column that is lost, counted twice or scaled by another maximum shows; what
rounds to zero is dropped, and other rounding is left out. The one-pass kernel takes every index of a
row to be in the cache, which `LegalRow` says and the decode kernel checks.

### MoERoutes

The routed experts of one layer and forward. `MaskRoutes` takes the rows that pad the batch out of the
routing, `CountRoutes`, `Offsets` and `FillExpert` are the kernels that sort the routes by expert into
blocks, `Up` and `Down` the two products over the blocks, `Reduce` and `ZeroRows` the sum over a row's
experts. Programs of one kernel are actions of their own and run in any order; a kernel starts when the
one before has ended. Buffers from `torch.empty` hold `Junk`; a value is the token, expert and weight
that it was made from.

## 3. Runs

| Run | Question | Bounds | States |
|---|---|---|---|
| `scheduling` | is prefill tried in time, decode protected, no iteration wasted; is each budget divided usably, completely, page-aligned and fairly; does the rotation starve nobody | decode limit 2, budgets 6 and 3, quantum 2, prompts 1 and 7, 3 requests; `RunBound` 3 ends a run of fallbacks | 40 thousand |
| `overlap` | all safety properties of `overlap_loop`, the contract, and that every request ends | 3 requests on 2 rows, 4 pages of 2, maximum length 5, prompts 2 and 4, output 3, budgets 3/2 | 340 thousand |
| `normal` | the contract in `normal_loop`, with `max_tokens = 0` and pages of 4, so that rejections and both fatal errors occur | 3 requests on 2 rows, 3 pages of 4, prompts 4 and 8, outputs 0, 2, 3 | 49 thousand |
| `admission` | does the allocation of what was admitted always succeed (it does not with pages larger than 2) | 3 pages of 4, prompts of 4, output 2 | |
| `cache` | page ownership, locks, sizes, the radix structure, the window of chunks, and the eviction loop | 3 requests, 2 rows, 7 pages of 2 with 5 SWA pages as the code plans them, window 2, forwards of 2 tokens; four kinds of prompt, in every combination | 160 thousand |
| `decode_window` | does a decoding request find its whole window (it does not, once another request extends its cached prompt) | as `cache` | |
| `decode` | is each named page in one place, do handles and mappings agree, does no check of the pool fail, does each forward read its own context | 3 requests on 2 rows, 5 full, 4 SWA and 5 component pages of 2, window 1, graphs for one row of 4 or 6 tokens, three loads of prompts that share and part | 102 thousand |
| `compression` | is each entry reduced from the rows of its own text | 3 requests on 2 rows and 4 pages of 4; ratios 2 and 4; texts of 6, 9 and 6, two with a common page and one repeated; forwards of up to 6 tokens | 411 thousand |
| `tp` | do the ranks process the same batches, is the receive path one replicated log, does the group settle | 3 ranks, 3 messages of two kinds and exit | |
| `serving` | does the server serve only when all are ready, end its children, and tell a stop from a failure | 2 ranks, one worker that outlives its termination, one message, one fault | 281 thousand |
| `frontend` | replies in order, tables without orphans, everyone answered, abandoned requests aborted | 2 requests with 2 and 1 replies; a disconnect, a failed send, a failure and a stop at any point | 370 thousand |
| `text` | do the increments add up to the decoded text unless a token straddles two characters, is the reasoning split at the delimiter | all requests of up to 5 tokens from 14, two of which end one character and begin the next | 1.16 million |

The bounds are the smallest at which each mechanism has its case. In `overlap`, three requests on
two rows give one that waits; a prompt of 4 needs two chunks or three, so an abort meets a request
before, between and after its chunks; an output of 3 puts several decodes in flight; a maximum
length of 5 cuts the output of the longer prompt to one token, which is never in the running set. A resident half-way
through its prompt while another request asks for room makes the reservation decide; a mixed budget
below the isolated one makes both be granted.

In `cache` the four kinds are a long prompt, a shorter one that is a prefix of it, one that parts
from both after the first page, and one that nobody shares. So a prompt can be matched in full and in
part, split a node that another request holds, be inserted twice, extend a cached path whose head has
been released, and compete with one that shares nothing. Requests are interchangeable, so `Sorted`
has one workload per choice of three kinds in place of symmetry, which liveness rules out. Five SWA
pages to seven full ones make the eviction loop run in each of its forms: SWA only, nodes for full
and component pages, nodes after all leaves have given up their SWA pages, and failure. In `decode`
four SWA pages to five full ones do the same; two table rows for three requests make a row change its
owner, and a graph for one row but not for two makes both ways of launching occur.

In `compression` the third text repeats the first, so a request is matched with pages that another
wrote, and starts in a table row whose ring holds something else; chunks of every length cut groups
at every place; six rows in one forward are more than the ring holds. In `text` five tokens are
enough for the delimiter to be cut in three, with text on both sides of it. In `tp` three ranks let
two followers differ from each other and not only from rank 0.

The passing runs between them fire every action. The mutants in `PROJECT.json` replace one definition each by
the form a plausible bug would give it (`ReadyAtOnce`: resources released although a forward is in
flight; `CountedAll`: the broadcast count includes the message published before it;
`NeverFromCheckpoint`: the rows of the page before are looked for in the ring; `KeepEntry`: a closed
stream leaves its table entry; ...) and every property is violated by at least one.

Deadlock is not checked where the system may stop: the processes of `serving` and `tp` exit, the
requests of `frontend` and `text` end. Elsewhere `Quiescent`, when every client has spoken or the
process has died, is the only stuttering.

### Fairness

- `Scheduler`: weak fairness of the loop only, as `WF_pc(Turn)`, because its steps are exactly those
  that move `pc`. It is what `run_forever`, a `while True`, gives; nothing is assumed of clients, of
  the order of messages or of EOS, and a blocked receive may wait forever.
- `CacheManager`: weak fairness of `Allocate` alone; the eviction loop is sequential code that
  nothing interrupts.
- `TPSync`: weak fairness of each rank. Messages need not arrive.
- `Serving`: weak fairness of each process's own code and of the operating system's side of a kill or
  an exit. Crashes, stops and interrupts may happen and need not.
- `Frontend`: weak fairness of each handler, of the event loop's tasks, of the workers and of the
  scheduler's tokens as long as somebody waits for them. Clients may leave and need not.

Finite uids mean finitely many arrivals: with an endless stream of short prompts ahead
of a long one the starvation bound is `WaitIsBounded`, which `scheduling` checks separately and
`WaitAlwaysBounded` proves for any number of requests.

## 4. Proofs

`PhaseArbitrationProofs` proves the invariants of `PhaseArbitration` for every limit, budget
and history. The inductive strengthening relates `passedOver` and `unprotected` to the policy's
record: a conflict's run is at least `passedOver`, and after a prefill in a conflict the last phase
is prefill. The scheduler's turns over a real prefill queue implement that arbitration
(`TurnsArbitrate`), so the same holds of them (`TurnsAreSound`).

The second half of the module is about the prefill queue, for every number of requests, page size,
budgets, prompts and prefix hits: `BudgetAlwaysDivided`, `RoundsAlwaysFair`, `WaitAlwaysBounded`.
The first includes that neither error at the end of the division (`prefill.py:111-114`, an overspent
budget or an empty grant) is ever raised. The chunks come out of three nested loops. `Loop` says that a function defined by its own passes has
exactly one outcome, and `UpTo` is induction along the passes in the form of a set that contains its
successors, which needs no operator parameter. A division that all first shares fit into stays `Even`
through every round: requests that are not finished hold whole pages, all as many, up to one page more
for those that lead once less than a page is left. A round that grants nothing leaves nobody whose
next share fits (`Stuck`), and the budget bounds the number of the others. The bound on waiting is not
inductive; what is, is that waiting pays: waited forwards plus place in the queue never exceed the
number of requests (`WaitingPays`). For that the selection has to be shown to split the queue so that
nobody it passes over falls back (`Splits`), and that everybody gets ahead when the budget holds a
page. Below a page a forward may pick only requests behind somebody, who then keeps its place; but it
finishes those it picks, which adds the number of finished requests to the bound.

`SchedulerProofs` proves the safety properties of `Scheduler` for every number of requests, rows
and pages, all lengths and budgets, and both loops. The only assumption is `SchedulerAssumption`.
The properties are not inductive one by one. Whether resources may be released depends on the
ledger being exact, that on the epochs of the rows in flight being distinct, and that a lost
request is impossible depends on where the device is ahead of the host; `IInv` is the conjunction of

- `TypeOK` and `LoopShape`: which of `last` and `ongoing` can be non-empty at each `pc`, when the
  loop may block, and that table positions are consistent;
- `RowsAreDistinct`, with `LedgerMatchesFlight`: epochs are below `nextEpoch`, and
  the outstanding epochs are those of the rows in flight;
- `RetirementIsOwned`, `SlotsArePartitioned`;
- `Residency`: which queue, state and lengths a request that holds a row can have;
- `Coverage`: pages held cover the positions written;
- `HostFollowsDevice`: the distance from host to device length is the number of rows in flight that
  sample a token.

`Init => IInv` and one lemma per action give `Spec => []IInv` (theorem `Invariance`), and each
property follows from it: `TypeCorrect`, `ResourcesOutliveForwards`, `LedgerIsExact`,
`RetirementHasOwner`, `SlotsPartition`, `RequestsAreKept`, `IdleLeavesNothing`, `TokensKeepOrder`.
`ContractKept` is the refinement: every request, watched by itself, follows `RequestContract`. Each
action of the scheduler is, for the request in question, one step of the contract or none. It needs one
fact more than `IInv`, `Reported`: what the client has been sent agrees with the request's state.

`TPSyncProofs` proves `RanksAgree` and the refinement of `ReplicatedInput` for every number of ranks,
every set of messages and every deterministic scheduler. There is one stream, what rank 0 has
published followed by what it has pulled and not yet published; it only grows. The broadcasts cut it
into consecutive batches: round k begins where round k - 1 ends, with the blocking message first if
the schedulers were idle, and the scheduler's state after it is `Step` of the state before. A rank
that has done k iterations stands at the end of the k-th batch and in the state those batches lead
to, and what it is receiving is what follows in the stream; rank 0 is in the last round. So two ranks
that have done the same number of iterations are in the same state, decide alike whether to block,
and cut alike. `IInv` is `Types /\ RoundsFit /\ RootFits` and `FollowerFits` for each other rank;
theorem `Alignment` is its invariance.

The module also proves the safety of `Serving`, for any number of workers and ranks. The invariant
`ServingInv` says where the parent, each child and the startup acknowledgments can be with respect to
each other: a ready message stands for a barrier that every rank has passed (`StartupAlwaysSound`), a
child that is alive after shutdown has survived SIGTERM (`NeverOrphans`), and whatever records a
terminal error was preceded by a crash, a failed listener or Ctrl-C (`StopIsNeverFailure`).

`CacheProofs` is about `CacheManager` and the `RadixTree` under it, for any set of requests, prompts
over any contents, page size, window, chunk and pools: no page of a pool is lost, freed twice or in two
hands (`PagesStayAccounted`), the tree, its reference counts and its two sizes agree with the requests
that hold handles (`CacheStaysSound`), and an allocation gives up only when the free pages and those of
all unlocked nodes together do not suffice (`EvictionStaysComplete`). These are the properties of the
run `cache`. The invariant that carries them:

- `TreeInv`: the tree is `SoundTree` for the paths of the resident requests. `Shape`: paths are closed
  under prefixes, every page lies on the way to the end of a node, and where two paths part there is
  an end. `Locks`: a page's reference count is the number of handles that run through it, and each
  handle ends at a node; without this an unlock might meet a node that it did not lock. `Sized`: the
  two sizes are the numbers of unlocked and of locked pages.
- `RequestInv`: a resident request's row has the pages of its cached tokens, those up to its handle the
  tree's and the others its own; the SWA pages it owns lie behind its handle and its eviction frontier.
  A request without resources has nothing (`Empty`).
- `BatchInv`: a batch extends each row within what was asked for, a prefill's within its prompt.
- `FlightInv`: the frontier that a row in flight hands on lies below every SWA page its request still
  has. Under overlap an older forward's row carries the frontier of an older `Req` object, and without
  this a late release could free a page again.
- `PagesAreAccounted`, which rests on the others and is one of them.

There are lemmas for each operation on the tree (`LockIsSound`, `UnlockIsSound`, `InsertIsSound`,
`EvictIsSound`, `ReleaseHeadIsSound` and their like say that it keeps `SoundTree` and by how much it
changes each count of pages), and one lemma for each action of `CacheManager`. A split only adds an
end (`SplitIsSound`): no page and no reference count changes.

Whether a forward finds what it reads is proved on top of that: under the hypothesis
`Window <= PageSize + 1` the SWA pages of the window of every chunk are mapped when it is prepared
(`ChunksAlwaysReadTheirWindow`), and a decode finds those of its window that are its own, and all of them
if no other prompt begins with the same page (`DecodesAlwaysFindTheirOwnPages`). The engine insists on
pages of 256 tokens (`engine.py:867`) and the model's window is 128, so the code is far within it, and a
window one token longer can already lose a page (section 5, `radix_cache.py:423`). The invariant behind it,
`WindowInv`, holds for every window (`WindowInvariantHolds`). It is not inductive alone but relative to
`IInv`, and has four parts:

- `KeptInv`: what a request has given up of its own SWA pages lies behind its window.
- `PrefillInv`: a prompt that is half read ends at a page, and if it has read no further than the prefix
  that was matched, it is in the batch that is about to be issued and the last page of that prefix still
  has its SWA page. This is where the bound enters: from a page boundary a window of a page and a token
  reaches back one page only, and the rest of the prefix may be gone.
- `OrderInv`: at most two forwards are in flight, one unless the older is being processed; before the
  last chunk of a prompt come only its other chunks, and the host is behind by no more tokens than
  forwards have been issued since. So when a prompt is cached, its request is at most one token further
  than what is handed to the tree, and the last page it hands over is still in its window.
- `AloneInv`: nothing of a prompt that begins like no other is in the tree before its own forward is
  processed, and from then on its row has the last page of its handle. It is what separates a decode
  that loses a page to another request (`decode_window`) from one that cannot.

The steps are sorted by what they do to the requests and the tree (`Steps`: a step is quiet, issues a
batch, or is one request's admission, early release, hand-over of its prompt, retirement or end), and each
part has one lemma for each kind that matters to it.

`EngineProofs` is about what the engine decides before and while it captures and replays, for every
configuration and model. Up to the largest bucket the ladder is never 16 or more rows above a batch
(`PaddingIsSmall`), a policy that is not refused captures no graph for more rows than may run
(`BucketsFitTheScheduler`), and a configuration that asks for no sizes gets one that is accepted
(`UnaskedGraphsAreAccepted`). Layers of one kind have buffers of their own (`LayersHaveTheirBuffers`),
the constructor allocates exactly what the plan charges (`PoolIsAsEstimated`), and the page tables of
the captures are never larger than those that were charged, although they are derived from another
number (`CapturedTablesAreCharged`). `PlanFitsEveryRank` puts these together: on every rank, all that
the engine keeps and an accepted capture fit what is free. Its hypothesis is what the code leaves to
`memory_ratio`, and does not check: that the share it keeps back covers the imbalance that is tolerated
(2 GiB), the dummy page and every term of `SideBytes`, for which no plan has reserved anything. The
page tables of the captures are in the estimate, but they are older than the reading that an accepted
capture is measured from, so that capture may take all of the estimate and its margin without them;
they are counted once more here. For the runner, `ReplaysOwnBatch` says that a
forward computes the rows of its own batch whatever ran before it, and `EveryLaunchSucceeds` that the
three decisions agree. The invariant `RunnerInv` says that the buffers have rows for the largest
bucket, that once serving there is a graph of every bucket and class, recorded over the surfaces of
its own class, and that what is prepared raw is exactly what is replayed. These modules have no run of
their own: sets of integers are better proved about than sampled, and the runner was tried on a small
instance before it was proved.

`AnswerProofs` is about what reaches a client. It proves for any number of requests, any mixture of
thinking and `ignore_eos`, any lengths and both loops that the committed tokens follow the grammar. The
host's state is at most one sampled token old, and the only token it has not seen is the one the device
is about to read. So the state the mask is made from, the host's advanced by the current input, is the
state of the whole text (`CorrectionSuffices`), and appending a token that this state allows keeps the
grammar (`GrammarOfAppend`). The invariant says so of each request (`Follows`), with the fact that
without overlap nothing is in flight when a forward is issued.

For `Frontend` it proves `RepliesAlwaysInOrder` and `TablesAlwaysSound`, for any number of requests and
replies, whoever leaves, fails or stops. The invariant follows the replies of one request through
the hands they pass: what the client got, what the generator has taken, what its entry holds and what
is under way in the workers are, put together, exactly the replies made so far in their order; and an
entry in the tables has somebody who waits on it or a step that will remove it.

For `TextStream` it proves `SplitAlwaysExact`: for every vocabulary, delimiter and length the reasoning
and the content are the text before and behind the first delimiter of what was sent, whatever the
increments are. The parser only looks at its pending text, so the point is that nothing it has passed
on can belong to a delimiter still to come (`DelimiterLiesAhead`): a delimiter that began there would
reach the end of the text, and its first part would be an end longer than the longest that was held
back (`NothingPending`). The detokenizer enters by its types alone: its loops compute texts
(`BytesAreText`, `ScanIsTyped`), its offsets stay within the ids. The assumption on the constants,
`TextAssumption`, says that tokens and the delimiter are finite sequences and the delimiter is not empty.

`SurfacesProofs` proves that a replayed forward agrees with an eager one in every column below
its lengths (`ReplayIsLikeEager`), that an entry is looked up where it was stored (`EntriesFound`), and
that no surface is too narrow (`NothingIsCut`), for every window, top-k, context class, pool, set of
batches and order of forwards. The hypothesis `Sensible` says that sizes are positive, that a class is
no wider than the context's page table and that a batch's rows fit its tables. The kernel's arithmetic
and the eager one agree on each location (`MappedIsTranslated`, `WritesAgree`). The copy in the capture
answers each lookup as its source does (`EntryIsComponentLoc`, `CopyLooksUpAlike`): it is at least as
wide, and what the source lacks is -1 whatever was there before. The alignments leave room for every
column that a length admits (`Widths`), and the token that ends group i stores where column i looks
(`LocIsWriteLoc`). The invariant ties the surfaces to their launch and each C4 column to an entry of
the row's own text, whoever chose it.

The second half is about `PrefillSurfaces`. Whenever a layer attends, whatever pages have moved, each
row finds its window and its own token where a decode of that token would find them now
(`WindowsStayCurrent`), and what has been stored since the batch began lies where it is looked up:
the tokens of the batch in a row's window (`ChunkFindsItsTokens`), exactly the entries of the groups
that end in it, at their own request's pages (`EntriesGoToTheirOwnPages`), and long-range entries in the
kernel's list as in the reference (`PrefillEntriesFound`). The last window of a request has no hole
(`LastWindowIsWhole`). The invariant `PrefillInv` has two parts. The surfaces are those of a mapping
that agrees with today's on SWA pages as long as the version is the same; and `LayerInv` says what a
layer has stored at each of its stages. That compact locations meet their rows needs the order of a
finite set of rows: the numbers of a row's predecessors are 0 .. n - 1, each once (`ListedInOrder`).
`Settled` is the hypothesis on a request, that its tokens lie in whole pages and its handle agrees with
the mapping; for whole prompts it is what the run `decode` checks. There is no run of either module: an
instance with more than one page of each kind needs hundreds of columns, and the theorems cover every
instance. Both were tried on a few batches first.

`TopKProofs` proves that top-k is right when it says so, for every number of slots, radix, buffer size,
row and order of the threads: `EverySlotIsFilled` (each slot an entry, no two the same, even when the
staging buffer has dropped some), `ValidRowsAreExact` (a row that is returned as valid holds exactly
its best entries in canonical order) and `FiniteRowsFit` (a finite row no longer than the buffer is
never refused). The invariant counts the entries above, in and below the current bin against the slots
that are left, by the cardinalities of finite sets. The exactness does not rest on the selection being
exact: the count of the entries above the threshold recomputes it, and this is why it stands up to
drops. `FiniteRowsFit` needs the other half, that without drops the threshold is the K-th score.

The third part of `SurfacesProofs` proves that both sparse attention kernels write the softmax over exactly the
columns and the sink of a row (`OutputsAreSoftmax`), for every row, block size and number of splits.
Each kernel, and each split, has the terms of the lanes it has seen relative to their largest score
(`OnlineInv`, `SplitInv`), which one step of the online softmax keeps (`OnlineStep`). The splits cover
every slot (`SplitOfSlot`), the gathered slots that are not invalid are the columns (`GatheredColumns`),
and the lanes without a column, which do add to a split's sum, vanish against any column or leave a
sum of nothing. `SensibleRows` says that scores lie further above -1.0e30 than the exponential reaches.

The last part of `SurfacesProofs` is about `Compressor`. Each compressed entry that a running request can
read is the one of a compressor that sees its whole text at once (`EntriesAlwaysExact`), for every set
of texts, any ratios that divide the page, any number of rows, pages and requests, however the forwards
are cut and whoever had the table row or wrote the shared pages before. The invariant `EntryInv`
(`EntryInvariant`) says what the next forward of a request may read and nothing more, since all else in
the state is whatever the last owner left. In the ring that is the last `2 * ShortRatio` tokens that
lie on the page the request goes on with (`RingRow`): a request that starts from cached pages has none,
and what its first group needs is the checkpoint of the page before (`OlderHalf`). In the C128 state it
is the group that has begun (`CarryRow`). The pages of a request, and each cached page, have the
entries and the checkpoint of their text (`FilledRow`, `CachedRow`), and a page that a request will
still write is in neither the cache, the free pages nor another request (`Private`). Three
facts about a forward carry the proof. Exactly the rows of the same request that are that far back are
in the same forward (`InForwardIs`). Of the rows that go to one place of the state exactly the
last is stored (`WritersAre`), as two positions of one batch with the same remainder are a
whole ring apart. And no other row of any request stores to the place of an entry or checkpoint
(`EndsAre`, `KeptAre`). Inserting a prompt may replace a request's page by a cached one with the same
text, which then has the same entries (`HeldByCached`). The only assumption is `CompressorAssumption`:
the ratios divide the page and prompts are not empty.

The last part of `TopKProofs` is about `MoERoutes`: whatever the order of the programs, the plan they
make is the one the CPU path gets by sorting (`PlansAlwaysAgree`), it fits the buffers that were sized
before anything was counted (`PlansAlwaysFit`), in no block does padding come before a route
(`RoutesAlwaysComeFirst`), and the output of each row is the weighted sum over exactly its experts
(`OutputsAlwaysRouted`). The hypothesis `PlanSensible` says that sizes are positive and that there are
at most 1024 experts, which is all the kernels take.

Neither `SparseAttention`, `MoERoutes` nor `TopK` has a run: the runs are for questions without a proof. Each
was tried on small instances first.

Only model-checked: everything about `DecodeTables`; `SentIsPrefix` and
`FinishedIsComplete` of `TextStream`, whose argument goes along the tokens and needs induction over data; all
liveness (`EveryRequestEnds`, `AllocationEnds`, `GroupSettles`, `EveryoneIsAnswered`, `AbandonedIsAborted`,
`FailureIsContained`), as the prover has no fairness; and `AllocationSucceeds`, which is false in general
and holds at the page size of `overlap`.

## 5. Findings

Runs that show the code to do other than it says:

- `admission`: the admission counts tokens while pages are allocated whole, so with
  pages larger than 2 two admitted requests can need more pages than exist and an assertion of
  `allocate_paged` ends the scheduler.
- `decode_window`: `release_dsv4_full_head` frees full pages of a path up to its last page without
  looking at reference counts. A decoding request that shares the path keeps their locations in its
  row, and the direct decode metadata finds SWA pages through the row only, so its window reads
  nothing or the pages of whoever got them next. What does hold is `DecodeFindsItsOwnPages`: pages of
  its own, and prompts that nobody shares, are always found; and `PrefillReadsItsWindow`: chunks look
  through the handle as well.

Met while modelling, without a run of their own:

- `max_tokens = 0` is admitted by the scheduler although a prefill always samples a token; the commit
  then raises (`scheduler.py:278`) and ends the scheduler. `normal` takes that step.
- `_planned_dsv4_swa_independent_pages` (`engine.py:580`) counts the pages of one prefill forward, but
  with overlap two are held at a time. With `max_running_req = 1` (shell mode, `args.py:282`) a prompt of
  two full chunks ends the process.
- The docstring at `prefill.py:42` gives the next quantum to the request with the least progress; the
  order is computed once per round (`RoundsAreFair` states what holds).
- With a budget below a page the first request that fits is taken past longer ones at the head, so a
  request can be left out of more forwards in a row than there are other requests, up to twice as many
  (`WaitIsBounded`). The comment at `prefill.py:347` excludes such budgets from releases.
- `sent_offset` is "length of sent out string" (`detokenize.py:60`), but `detokenize.py:106` sets it to
  the length of the new text even when `find_printable_text` gives less than was already sent. Take a
  token of a CJK character and the first byte of a letter, then one that ends the letter and begins
  another character: the CJK character is sent with the first, the offset falls back to 0 with the
  second, and the next commit sends the character again. `MCVocabulary` has such tokens: `SentIsPrefix`
  and `FinishedIsComplete` fail in `text` without their condition `~HasStraddled`.
- A streaming response that is dropped before its first chunk never runs its generator, so its table
  entries and its request on the scheduler stay (`NeverStarted`, phase "lost" in `Frontend`). The entries
  an abort leaves in `decode_map` of the detokenizer are never removed either.
- The top-k refuses a row of finite scores when more than 8192 entries fall in one half-precision bin
  (`dsv4_topk_v1.cu:197`): entries are dropped, the counts do not fit, and the length becomes -1, which
  both attention kernels read as a row without compressed entries. The reference of
  `tests/kernel/test_dsv4_topk_deterministic.py:31` knows no such case, and the longest rows of the tests
  are no longer than the buffer. `FiniteRowsFit` has the hypothesis that excludes it.
- `raise self.terminal_error` after a stop raises `None`, a `TypeError`, where no failure was recorded;
  the client is answered by an error all the same.
- The ranks agree on the number of pages although `source_bytes`, the raw expert weights each will
  release, enters the budget from the rank's own measurement and is never reduced over the group
  (`engine.py`, `_determine_num_pages`); nothing checks that it is equal.
- The plan charges neither the pool's dummy page nor anything of `SideBytes`, and starts from the largest
  free memory of any rank; without graphs it reserves nothing for the fused weights, about half a GiB in
  the model above. `PlanFitsEveryRank` says how much `memory_ratio` has to leave for that.
- The release's default list of graph sizes (1, 2, 4, 8, 16) is never used: `_adjust_config` has always
  set `cuda_graph_max_bs` before the policy is asked.
- `_build_swa_page_table_row` looks for missing pages only in the window of a request's last token. The
  windows of a chunk's earlier rows are whole because the cache manager keeps their pages
  (`PrefillReadsItsWindow` of `cache`), not because anything checks it.
- `release_dsv4_swa_out_of_window` (`radix_cache.py:423`) gives up the SWA pages at the head of a path
  without looking at reference counts, like its counterpart of `decode_window`. Another request that still
  reads its prompt behind the same prefix would lose pages of its window if a window could reach over
  more than one whole page: `PrefillReadsItsWindow` fails with `PageSize = 1`, `Window = 3` and three
  requests, and the attention backend notices only what the last token of the chunk lacks
  (`attention/deepseek_v4.py:1764`). With the page size that the engine insists on it cannot happen, as
  `ChunksAlwaysReadTheirWindow` proves for every window of at most a page and a token.
- A layer stores its tokens by the metadata's locations before the ownership version is compared
  (`q_kv_norm_rope_cache` precedes `_ensure_swa_metadata_current`), so a stale forward writes once to
  pages that may be others' before it raises and ends the process.

## 6. Not modelled, and the plan

Server arguments are checked one by one, without state. The offline LLM is the same scheduler
with a list for a queue; it numbers requests from zero in every call of `generate`, so identities that
`DecodeTables` assumes unique are only unique together with `id(req)`. `distributed/launch.py`, NCCL wrappers,
statistics, logging, formatting and request validation carry no state that anything depends on.

More than half of the implementation's lines are Triton and CUDA kernels, the model and the
reference kernels under `debug/`. What they carry from one forward to the next is modelled
(`Compressor`, `DecodeTables`, `DecodeSurfaces`), what they store and look up within one
(`PrefillSurfaces`), and the selection and summation whose control decides the result (`TopK`,
`SparseAttention`), and the plan that routes tokens to experts (`MoERoutes`); the rest is numeric.

Next, in this order:

1. `PagePool` and the invariants of `DecodeTables`, which name the pages that `CacheManager` counts.
2. A proof of `SentIsPrefix` for every vocabulary, if one is found that needs no induction over tokens.
3. Theorems about `RequestContract` itself: one final reply, no token after an abort.
4. Several tokenizer processes in `Frontend`, with aborts that overtake their requests.
5. The offline LLM.

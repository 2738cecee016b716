# A verification project for ssd-llm and ssd-index

`ssd-llm` runs language models larger than RAM by streaming their layers from an
SSD, with a zoo of key/value caches, an optional CUDA path and an HTTP server.
`ssd-index` walks a directory, cuts its files into chunks, has them embedded and
keeps the vectors in three files. This directory holds TLA+ models of the parts
that keep state and of the algorithms whose control is hard to get right, the
configurations that model-check them, and machine-checked proofs of the invariants
and refinements that matter most: the block caches, the layer and prompt caches, the
tiered and evicting caches, the index store and its walk, the batch and speculative
loops, the decode path.

Paths below are relative to `crates/ssd-llm/src/` or, where they say so, to
`crates/ssd-index/src/`.

    tlc -config PagedKv.cfg PagedKv   model-checks one instance
    tlapm PagedKvProofs.tla           checks the proofs of one module

## 1. The system

### Components

| component | state it keeps | operations | what makes it correct |
|---|---|---|---|
| paged KV cache, `inference/paged_attention.rs` | per layer a pool of blocks (`num_filled`, `ref_count`, contents) and a free queue; per sequence a block table per layer and a length | add, append, increment, fork, rollback, remove | a block is free or owned, never both and never neither; reference counts are exact; a sequence reads back what it appended, whatever its forks do |
| block swapping, `ssd/block_swap.rs` | slot map, queue of freed slots, end of file, LRU deque and set, set of swapped blocks | swap_out, swap_in, touch, remove, candidate lists | no slot has two owners; a block reads back what was last written; a failed write damages no one else |
| swap-aware cache, `paged_attention.rs:675` | both of the above | append with swap-out and retry, read with swap-in, prefetch, remove | a caller cannot tell that a block was on SSD; a dead block leaves no slot and no LRU entry |
| tiered cache, `inference/mmap_kv_cache.rs` | rows in RAM, rows in two mapped files per layer, bytes used | append, spill, read, rollback, clear | a row reads back from either tier; the budget holds |
| evicting caches, `inference/h2o_cache.rs`, `sliding_window.rs` | rows with scores and positions; a window with sinks | append, record scores, evict, rollback | sinks and heavy hitters stay; attention sees sinks and window |
| layer cache, `model/cache.rs`, with `ssd/memory_pressure.rs` | layers by id with sizes, `used`, LRU deque, prefetched copies, pins, budget; a level published by a thread | get, insert, insert_prefetch, pin, unpin, set_budget; measure, publish | `used` is what is held; the budget is passed only by pinned layers or by one layer too large; the order is LRU; the layer just loaded is there |
| adaptive pinner, `model/cache.rs:156` | access counts, decay counter, pins | record_access, apply_to_cache | counters and pins bounded; pins follow the accesses |
| batch scheduler, `inference/batch_scheduler.rs` | queue, batch, completed results, a KV cache per request | submit, step, take_result, has_work | a request is in one place, enters in order, gets a row per layer and position, and ends |
| prompt cache, `inference/prompt_cache.rs` | entries by hash, recency, `used_bytes`; a file | lookup, store, restore, save, load and merge | restores the longest stored prefix and never another prompt's state; bytes are accounted for; the file is whole after any crash |
| speculative decoding, `inference/speculative.rs` | two KV caches, the tokens, K | a round: draft, verify, accept, roll back, replay; batch and streaming form | rejected tokens leave both caches; the target samples from exactly the text |
| generation, `inference/transformer.rs` with `cuda/mod.rs` | host cache, device cache and its lengths, hidden state on host and device, pinned result, captured graph | prefill, sample, embed, capture, replay, resident pass, host pass | the rows of all layers are those of positions 0..pos-1; the next token is sampled from the last state; no write past a device buffer |
| API server, `api/server.rs` | a shutdown flag, the model behind a mutex, one connection | accept, read, handle, stream, signal | each client gets one whole answer; a shutdown is obeyed |
| model files, `pull/mod.rs`, `api/ollama_manage.rs` | a directory of models and `.part` files | pull with resumption, copy, delete | a model under its name is the one that was asked for, and whole |
| metrics, `api/metrics.rs` | atomic counters, latencies behind a mutex | start, end, fail, read, reset | what is read adds up |
| agent, `inference/agent.rs`, `tools.rs` | prompt, text so far, invocations | turns of free text, tool name, arguments, result | bounded turns; each call and its result are in the next prompt |
| JSON mode and grammar, `inference/json_mode.rs`, `grammar.rs` | an automaton with a stack | feed a character, filter a vocabulary | no continuation that is legal is masked |
| sampler, `inference/sampler.rs` | recent tokens, Mirostat's mu | sample | the likeliest token survives every filter; what is masked is not drawn |
| tokenizer, `inference/tokenizer.rs` | none between calls | four encoders, decode | the merges are those of the learning order; texts come back |
| LoRA, `inference/lora.rs` | adapters by name, active set, generation | add, remove, activate, scale | what is active is loaded; a weight takes each active delta once |
| quantised formats: `metal/compute.rs`, `ssd/streamer.rs`, `cuda/mod.rs`, `kernels.metal`, `model/gguf.rs` | none | unpack a block | all readers of a format make a weight from the same bits |
| CUDA kernels and buffers, `cuda/mod.rs` | shared memory of a block; device buffers by kind and size | launches | no thread and no launch reads what another has not written yet, or has overwritten |
| attention, feed-forward, experts: `attention.rs`, `flash_attention.rs`, `gqa.rs`, `moe.rs`, `tensor_parallel.rs`, `metal/gpu.rs` | a layer's cache | one step of a layer | every path turns, caches and reads alike; a result is added once |
| AWQ, `inference/awq.rs`; perplexity, `inference/perplexity.rs` | running statistics; sums | calibrate, quantise, read; score chunks | what is packed reads back; each token is scored once |
| index store, `ssd-index: store/file.rs` | vectors, records, id lookup, dirty flag; three files | open, create, put, remove_by_path_prefix, discard, flush, drop | row i is the vector of record i; the store is a map that survives what it can |
| directory walk and chunker, `ssd-index: walk.rs`, `chunk/text.rs` | a report; start of the next window | index_directory; chunk | nothing read is lost without an error; counters add up; chunks cover and overlap; it ends |
| quantised KV cache, mmap pool, chat formats, RoPE scaling, vision, configuration, GGUF header, command line | little or none | | section 6 |

### How they interact

- `main.rs` and `server.rs` open a model, build an `SsdStreamer`, a `LayerCache`
  and, with `--adaptive-memory`, start the pressure monitor's thread. The thread
  writes one atomic; everything else runs on the accepting thread, under one
  mutex. The concurrency is therefore between that loop and the monitor, its
  clients and signals, between the program and the files other processes change
  (`ssd-llm pull` beside the server), and on the device.
- `generate` and `StreamingGenerator` drive host and device caches; a tier that
  fails hands the token to the next tier with whatever it has already changed.
- `BatchScheduler` and the speculative generators use `KvCache` and the layer
  passes of `transformer.rs`. Of the three loops only the scheduler inserts into
  the `LayerCache`.
- The prompt cache is loaded when the server starts and saved when it stops.
- `run_agent` generates through a closure, one token at a time, and holds the
  tool's name to a `PrefixConstraint`; `generate` applies a grammar's mask before
  it samples.
- `index_directory` calls a chunker, an embedder and a store; `FileStore` is the
  store, `ssd-index-prune` opens the same directory later to remove prefixes.

Several parts are libraries the program itself does not reach: no handler uses the
paged, swap-aware, tiered, evicting or quantised caches or the batch scheduler,
none looks up or stores a prompt; `server.rs:104` builds the adaptive pinner but
no one feeds it; `apply_json_constraint`, `JsonValidator`, the LoRA deltas
(`transformer.rs:805`), the flash and grouped attention paths, the experts on the
device, `parallel_matvec` and AWQ have no caller outside tests. Their models take
the callers the unit tests and doc comments show, and say so.

### What is hard to test

`PROJECT.json` lists forty hazards at their lines. They come in eight families:
sharing and copy-on-write over long call sequences; bytes, slots and counts that
are changed in several places; failure half-way (a write, a layer, a launch, a
download); crash between two file writes; two copies of one thing (RAM and SSD,
host and device, draft and target, two readers of one format) drifting apart;
order (signals, launches, warps, tokens of a merge); boundaries of filters,
windows and chunks; and progress (a batch, a walk, a client, a shutdown).

## 2. The modules

| module | models | composition |
|---|---|---|
| `PagedKv` | `BlockAllocator`, `PagedKvCache` | |
| `BlockSwap` | `SwapFile`, `SwapScheduler`, `BlockSwapper` | |
| `SwapAware` | `SwapAwarePagedKvCache` | extends `PagedKv`, instantiates `BlockSwap` on its variables |
| `MmapKv`, `EvictingKv` | `MmapKvCache`; `H2oLayerCache` and the sliding window | |
| `LayerCache` | `LayerCache`, the loop over layers, the monitor | |
| `LayerPinner` | `AdaptiveLayerPinner` | |
| `PromptCache` | the cache, its file, the server's start and stop | |
| `BatchScheduler`, `Speculative` | the scheduler with a cache per request; a round of either generator with both caches | |
| `Decode` | `generate`, `StreamingGenerator` and `CudaGpu`'s part in them | |
| `Server`, `ModelFiles`, `Metrics` | the accept loop; the directory of models; the counters | |
| `Agent`, `JsonMode`, `GrammarMode`, `Sampler`, `Tokenizer`, `LoraManager` | what stands between texts and logits | `JsonMode` and `GrammarMode` run the code beside a reference recogniser |
| `QuantBlocks`, `Awq` | the readers of the block formats; AWQ | |
| `CudaKernels`, `CudaBuffers` | threads of a kernel; launches of an operation | |
| `Attention`, `FeedForward`, `Perplexity` | paths of a layer; the chunked score | |
| `IndexStore` | what a disk-backed `Store` promises | the abstract specification |
| `FileStore` | `FileStore`, its three files | implements `IndexStore` |
| `TextChunker`, `IndexDirectory` | the chunker's loop; the walk | the walk runs the chunker's loop for each file |

An `MC` module gives the constants of small instances. Where it extends several
modules (`MCOffload`, `MCIndex`, `MCCaches`, `MCLoops`, `MCServer`, `MCFront`,
`MCKernels`) it is their disjoint union: a variable `part`, chosen in the initial
state, says which one a behaviour runs, and the variables of the others stay where
they started. The parts share no variable in the code either; the union saves
configurations and hides no interaction.

The theorems are in seven modules, each of which extends the modules it is about:

| module | proves about |
|---|---|
| `PagedKvProofs` | `PagedKv` |
| `BlockSwapProofs` | `BlockSwap` |
| `SwapAwareProofs` | `SwapAware`, with instances of the two above |
| `CachesProofs` | `LayerCache`, `LayerPinner`, `PromptCache`, `MmapKv`, `EvictingKv`, `LoraManager`, `FeedForward`, `Attention` |
| `IndexProofs` | `FileStore` and its `IndexStore`, `TextChunker`, `IndexDirectory` |
| `InferenceProofs` | `Decode`, `Perplexity`, `BatchScheduler`, `Speculative`, `Agent`, `Sampler` |
| `ServerProofs` | `Server`, `ModelFiles`, `Metrics`, and `MCServer`, their union |

An eighth, `Collections`, defines what several modules need of queues and sums
(`Retained` is `VecDeque::retain`, `PartAt` the elements at some positions,
`SumOver` a sum over a set) and proves the facts about them that the others cite.
Operators that begin with a comment "Mutant:" are wrong versions of a definition,
each a plausible bug; replacing the definition by it must break the property
`PROJECT.json` names, and does.

### From code to model

**PagedKv.** A block's fields are functions of layer and block id; a payload is
one of two abstract values. `append` to one layer is one action, because the
method works on one layer and may return `OutOfBlocks` at the third layer of a
token: `cursor` is the caller's position in that loop and `log` what it has
appended, against which `ReadsBack` compares the reads. `FreeAll` gives the order
in which blocks reach the queue. With `SharedRollback = FALSE` callers do not
roll back into a block a fork shares; what happens otherwise is in section 5.

**BlockSwap.** Offsets count slots. A write that fails leaves garbage in the slot
it took, and the slot is lost, as in the code. Quantisation of the payload is
taken as exact.

**SwapAware.** Every operation of the wrapper is one action made of the parts'
operations in the code's order: `SwapAppendOutOfBlocks` is append, the swap-out
of every candidate with any subset of the writes failing, and the retry. The
runs keep callers from appending to a block on SSD (`AppendToSwapped = FALSE`).

**MmapKv, EvictingKv.** A row on file is two cells, so that a write cut in the
middle shifts what follows it; memory is counted in rows. A spill goes layer by layer
and may fail in each of them at three places: when it opens the files, when it writes
them, and when it maps them again. By the third the rows have left RAM: the old
mapping stays, which ends before them, and they read as nothing until a later spill of
the layer succeeds (`unmapped`). A failed second open leaves the keys file open
without the values file (`opened`), on which the next spill of the layer panics
(`SpillPanics`); the unwinding drops the cache, which is a clear. An H2O row keeps the
token it was made of, the position the code gives it and its score.

**LayerCache.** The loop's two steps (find or load a layer, use it) alternate with
the monitor's polls and with the public operations. A poll measures: `Platform`
chooses the arithmetic over page counts, which the code turns into a level and a
budget. `Spec` allows every operation; `Program` is what `main.rs` starts, where
none of them is called.

**BatchScheduler.** `step` takes `&mut self`, so it is one action; `StepFails`
ends it after any layer of the prefill or of the decode, with what was changed
so far. A tensor is the pair (position, layers gone through).

**PromptCache.** `Start`, `Load`, `Shutdown`, `WriteTmp`, `Rename` and `Crash` are the
server's life; two prompts share a hash in the instance.

**Speculative.** A cache is the sequence of the tokens whose rows it holds. Which
tokens are accepted, whether the target yields one more, and whether a token ends
the text are choices, for both generators (`streaming`).

**Decode.** The hidden state of position p after d layers is `<<p, d>>`, a row is
its position, anything else is `Junk`. A setup says which kernels, which tensors
and which output projection the device has. Each tier of a layer
(`LayerOutcomes`), the recording of the graph, its replay, the download that is
skipped, and every fallback are actions; a device call fails at most `MaxFaults`
times, before or after its effect where the code cannot tell. A fused kernel acts
as a whole or not at all (its inside is `CudaKernels`); feed-forward tiers give
equal results (that is `FeedForward`); an empty prompt and an I/O error that ends
the text are left out.

**Server.** Clients send a request in three pieces and may leave between any two;
the thread reads, takes the mutex, answers in the shape its handler has and
closes. A read fails when the client has left, when the request line or a header is
not UTF-8 (`text`; `api/server.rs:213`, `:226`), and, where accepted sockets take over
the non-blocking mode of `:152` as on Windows and macOS (`blocking = FALSE`), when its
bytes are not there yet: the connection is closed and nothing is answered. On such
sockets a write may fail too, behind any part of an answer (`"cut"`). Signals arrive between any two steps, one inside the registration of the
handler too, where the code's own thread holds the mutex it waits for.

**ModelFiles.** A file is an inode with a sequence of blocks, so that a mapping
outlives a name and a truncating copy does not. curl is external: it appends to
`.part`, may stop anywhere, and may deliver an error page. The `.part` file is named by
the file's name in its repository, so that files of one name in two repositories share
it, and the server and the command line may pull one model at the same time: a
download that does not resume writes at its own place, behind which there may be a
hole. Two history variables tell what became of an inode: which downloads have written
it since it was empty (`writers`) and whether two had it open at one time (`crowded`).
`NewNamesOnly` keeps copies off existing names.

**Metrics.** Every atomic operation is a step of its thread; the wrapping
subtraction of the active counter is modelled modulo `Wrap`.

**Agent.** Texts are token sequences; the four phases of a turn are the four loops
of `run_agent`, each with its bound. The tokenizer's marker, the detector's
buffer and the slot of the constrained name are as the code has them. Arguments are
what `serde_json` reads, any value: here an object or a text.

**JsonMode, GrammarMode.** A character stands for its class. The code's recogniser
and a reference (the grammar of RFC 8259; the derivatives of a GBNF rule) read
the same text, and every text within the bound is generated. The grammar's texts
are made as `generate` makes them (`transformer.rs:1456`): a token that the mask has
left is sampled and the acceptor moves on. Tokens have no, one or several characters,
and a character has its length in UTF-8, since `would_accept` compares the number of
characters it has taken with the token's bytes.

**Sampler.** Logits are small integers and exp(x) is 2^x, which keeps every order
and every tie. Thresholds are in quarters, surprise is in whole bits and eta is
1. The draw is any token with a share left; with `Rounds` the sums of floats may
stay below 1, as they can. min_p and tfs_z lie in [0, 1], to which the constructors
clamp them; the repetition penalty is a whole number here (the code takes any from
0.01), the other two penalties have either sign.

**Tokenizer.** A token is a sequence of symbols and its place is its id; `bos` and
`eos` are the ids the file gives or, by default, the second and third of the
vocabulary, and `decode` leaves out both. The text is typed one character at a time,
and all texts within the bound are encoded by all four encoders. The merges are
compared with what learning them in order means: one pass over the text per merge
(`InPasses`). **LoraManager.** A weight is the sequence of the deltas it took.

**QuantBlocks.** A reading is the list of stored bits a weight is made from, never
their value: two readers agree on all blocks exactly when their readings are
equal. `Spare` are the sums that Q8_K stores for another product, and `PartlyRead` the
two formats of whose scales the readers use a part (section 5). **Awq.** Weights are integers, scaled ones are counted in units of
1 / (4 * ClipSteps); alpha is 0 or 1.

**CudaKernels.** A block runs warp by warp between barriers; a value in shared
memory says which elements went into it. QK normalisation is always on.
**CudaBuffers.** A buffer holds (what, round); an operation is its list of launches
with what each reads and writes, and allocations and launches may fail.

**Attention.** A lane of a query or key is the angle it was turned by, a weight is a
position or, for the softmax, 2^score: the online sum is compared with the
two-pass one. `CacheUsers` says which paths share a cache. **FeedForward.** A device
step may fail after any launch; what is added to the hidden state is counted.
**Perplexity.** `times[t]` counts how often a token was scored.

**FileStore.** Each of the three writes of a flush is an action; `FlushFails` and
`Crash` leave any prefix of the write, the old file or nothing. These are crashes
of the process: the operating system's write order is not modelled. Ranking by
similarity is left out, and one handle is open at a time.

**IndexDirectory.** A text is its number of lines. Files change at any moment; the
entry, the read, the embedder and the store may fail at each call. The chunks
come from `TextChunker`'s own loop.

## 3. What the runs check

| run | instance | states | properties |
|---|---|---|---|
| `paged` | 2 layers, 2 blocks of 2 positions, 2 sequence ids, 3 positions | 380 k | `PoolInv`: each block free or owned, counted exactly, in one place of a table; `ReadsBack`: reads return what was appended and the next append lands on the next position; `SharedBlocksFrozen`: no step writes to a block with two owners |
| `offload` | swap: 3 blocks, 4 slots, 2 failed writes; mmap: 2 layers, budget of 6 rows, 9 appends, 2 failures to open, write or map, or crashes; evicting: 3 heavy hitters, a sink, a window of 2, 5 tokens | 56 k | `SlotInv`, `LedgersInv`: slots, their queue, the LRU order and the contents; `TierInv`: rows read back from either tier, those of a failed mapping never as another row, and RAM keeps its budget whatever fails; `EvictingInv`: sinks, order and the window attended to; `HeavyHittersStay`: an eviction drops the smallest scores |
| `swap_aware` | 1 layer, 2 blocks of 2, 2 sequences, 3 slots, 1 failed write | 483 k | `SwapInv`: what the swapper tracks is a block in use, and only failed writes lose slots; `SwapTransparent`: resident or not, a position holds its token |
| `index` | store: 2 chunks in 2 versions, 2 crashes or failed writes; walk: 2 files of any kind, windows up to 3 over 5 lines, 2 walks, 1 change | 367 k | `HandleInv`: rows, records and lookup agree; `ReportInv`, `ChunksInv`; refinement `ImplementsIndexStore`; `RunEnds` |
| `caches` | layers of sizes 2, 3, 3 and budget 6, four page counts; 3 layers with 2 pins; 5 prompts of sizes 1 to 6 in 5 bytes, one hash collision, 2 starts | 59 k | `CacheInv`, `EvictionSound`; `PinnerInv`, `StalePinsLeave`; `PromptInv`, `RestoresLongestPrefix` |
| `loops` | 3 requests, batch of 2, 2 layers, 2 failing steps; prompt of 2, K from 2, 5 tokens, contexts 14 and 16 | 43 k | `BatchInv`, `EveryRequestFinishes`; `RoundInv`: after a round the target's cache is the accepted text and neither cache has a rejected token |
| `decode` | 2 layers, device cache of 5 rows, context 7, prompts up to 6, 4 tokens, 2 failures | 1.07 M | `DecodeInv`: rows of all layers in step, a replay never passes the device cache; `SamplesLastState` |
| `server` | 2 clients, requests in 7 shapes of which 2 are not text, sockets that block or do not, 2 signals; one file name in 2 repositories, 2 pulls, 2 edits; 2 threads, 2 requests, a reading, a reset | 695 k | `ServerInv`: one whole answer, or nothing or a beginning of one where reads or writes fail, never a second one; a served file stays as it was mapped; counters add up. `EveryClientServed`, `ShutdownStops`. `PullDelivers`: what a download renames to the model's name is removed by its check, or has every block at its place in some file of this name that was downloaded into it, and is the requested file when all the attempts that wrote it were for that one |
| `front` | JSON texts up to 6 of 14 classes; 3 grammars, 8 characters in tokens of up to 3, one character of two bytes; 2 tools, 2 turns; logits of 3 tokens under 6 settings; 4 vocabularies, texts up to 6; 4 adapter changes | 610 k | `ConstraintInv`: no beginning of a document is masked, the validator is exact on texts without objects, numbers, `\u` and a space at the end, the acceptor takes exactly the language and the mask leaves exactly the ASCII tokens that continue it; `AgentInv`, `SamplerInv`, `TokenizerInv`: merges as learnt, texts come back; `LoraInv` |
| `kernels` | 15 formats, 2 x 2 blocks; 2 rows of 5 weights, 4 widths, 2 group sizes; 2 heads on warps of 4; 3 model shapes, 2 operations; 9 attention paths; 4 experts; texts up to 9 tokens | 70 k | `QuantInv`: readers agree, blocks tile (but for the scales of IQ4_XS and IQ2_XS, of which a part is read), AWQ reads back within half a step; `DeviceInv`: barriers and buffers suffice; `AttentionInv`, `FeedForwardInv`, `ScoredOnce` |
| `decode_logits` | as `decode` | - | `LogitsFromDevice`, which the code violates (section 5) |
| `shared_buffer` | as `kernels`, with as many KV heads as heads | - | `KernelSeesQKV`, which the code violates (section 5) |

### Why the bounds are enough to see the interesting cases

- *Paged*: two sequence ids give a fork; two blocks of two positions give a full
  block, a partly filled shared one, an exhausted pool, exhaustion at the second
  layer after the first has taken its token, and a rollback to a block boundary.
- *Swap*: with three blocks and four slots slots are reused after failures; in
  `swap_aware` the pool of two is exhausted with both blocks swappable, so that
  swap-out, failed write, swap-in, prefetch, fork and removal meet.
- *Tiered*: nine appends spill twice in each of two layers, with a failure of each
  kind in either file of either layer and a rollback behind each spill. Two failures
  make a mapping that fails and a spill after it that fails or mends it, and a
  half-open pair that the next spill panics on.
- *Evicting*: five tokens over three heavy hitters and one sink evict twice, with
  equal scores and a rollback in between.
- *Store*: two chunks make an upsert, a removal that moves a row, and cut writes
  of zero or one row. A second fault after the first shows recovery from a
  directory that is already damaged.
- *Walk*: five lines with windows up to three give one full window, several, and a
  short tail. One change at any moment covers vanish, appear and replace.
- *Layer cache*: two of three layers fit; at a quarter of the budget none does. The
  page counts reach every level of the macOS arithmetic; the other platform has
  its own configuration value.
- *Batch*: the third request waits for room; limits of 0, 1 and 2 tokens cover a
  request that is done at once. Two failures let a request fail twice.
- *Decode*: prompts of six tokens pass the device cache of five, and generation
  passes the context of seven; two layers are the fewest with a mixed state.
- *Server*: one client is in a handler while the other waits; the second signal
  comes after the flag is set. One client sends requests of every shape, the other
  two of them, one with an answer and one with a stream (`MCOfSecond`). *Model files*:
  the second pull resumes what the first left, of its own repository or of another
  one with a shorter or longer file, or runs beside it, with one copy or deletion
  between any two steps.
- *Automata*: six characters nest two containers, or a container with a key, an
  escape and a number; the reference is run to a decision after every one.
- *Sampler*: three tokens with two levels, one on each side of 0 since the repetition
  penalty divides the one and multiplies the other, and a masked one give ties at every
  cut of every filter; `MaxBits` is more than any surprise of these; two samples carry
  Mirostat's mu and the penalties over.
- *Kernels*: two warps per head and two heads per KV head are the fewest for a
  race between warps, and between blocks that append one row. Two rows of two
  blocks put a block boundary inside a row and at its end.

The counters that only bound a search (`MaxLen`, `MaxRuns`, `MaxEdits`, `MaxFaults`,
`MaxIoFaults`, `MaxAppends`, `MaxRecords`, `MaxStarts`, `MaxRequests`, `MaxFailures`,
`MaxSlots`, `MaxPuts`, `MaxPulls`, `MaxSignals`, `MaxReports`, `MaxResets`, `MaxChars`,
`MaxLength`, `MaxText`, `MaxSamples`, `MaxChanges`, `MaxBatches`, `MaxRows`, `Turns`) are
tested in guards. The deadlock check is off in all runs: every instance has a part
whose work is bounded, or that really stops. The blocks of `offload` are
interchangeable and it has no liveness property, so that it uses symmetry; no
other run does.

### Fairness

- `EveryRequestFinishes` assumes weak fairness of `Step`: a caller steps while
  `has_work()`, as the tests' loops do. Failing steps are bounded, not fair.
- `RunEnds` assumes weak fairness of the walk's own loop, which is sequential and
  whose calls all return: the embedder's client has a timeout.
- `EveryClientServed` and `ShutdownStops` assume weak fairness of the server's thread
  (`Main`, `Serve`), which the operating system schedules, and of each client, which
  sends on or leaves: the code sets no read timeout, so that it needs this of its
  clients. It sets no write timeout either: that a write returns, and a client that
  is there thus reads what it is sent, is part of `Serve`'s steps. `SilentClients` is the same server without that assumption.
- `StalePinsLeave` assumes that accesses go on and that the pins are applied again
  and again (strong fairness, since an application may be disabled between two
  accesses). Nothing in the program calls the pinner; the unit tests do it so.
- `Program` of `LayerCache` assumes weak fairness of the generation loop, and none
  of the monitor.

## 4. What is proved

Everything in this section holds for all values of the constants that satisfy the
named assumptions of the modules: any number of blocks, layers, sequences,
prompts, files, failed writes and steps. What a run checks on a small instance and a
theorem states in general:

| run | property | theorem | hypothesis besides the assumptions |
|---|---|---|---|
| `paged` | `PoolInv` | `PoolInvariant` | |
| | `SharedBlocksFrozen` | `SharedBlocksAreFrozen` | |
| | `ReadsBack` | `ReadsBackCorrect` | `SharedRollback = FALSE` |
| `offload` | `SlotInv` | `SlotInvariant` | |
| | `LedgersInv` | `LedgersBalance` | |
| | `TierInv` | `TiersSound` | |
| | `EvictingInv` | `EvictionsSound` | |
| | `HeavyHittersStay` | `HittersStay` | |
| `swap_aware` | `SwapInv` | `SwapInvariant` | |
| | `SwapTransparent` | `SwapIsTransparent` | `AppendToSwapped = FALSE` |
| `index` | `HandleInv` | `HandleInvariant` | |
| | `ImplementsIndexStore` | `StoreImplementsIndexStore` | |
| | `ChunksInv` | `ChunksAreSound` | |
| | `ReportInv` | `ReportIsHonest` | |
| `caches` | `CacheInv` | `CacheInvariant` | |
| | `EvictionSound` | `EvictionIsSound` | |
| | `PinnerInv` | `PinnerInvariant` | |
| | `PromptInv` | `PromptInvariant` | |
| | `RestoresLongestPrefix` | `LookupIsLongest` | |
| `loops` | `BatchInv` | `BatchSound` | |
| | `RoundInv` | `RoundsSound` | |
| `decode` | `DecodeInv` | `RowsStayInStep` | |
| | `SamplesLastState` | `SampledFromLastState` | |
| `front` | `AgentInv` | `AgentIsSound` | |
| | `SamplerInv` | `SamplerIsSound` | |
| | `LoraInv` | `AdaptersAreSound` | |
| `server` | `ServerInv` | `ServerIsSound` | `NewNamesOnly = TRUE` |
| | `PullDelivers` | `DownloadsDeliver` | |
| `kernels` | `AttentionInv` | `AttentionIsSound` | `Regulated` |
| | `FeedForwardInv` | `FeedForwardIsSound` | |
| | `ScoredOnce` | `ScoresAreOnce` | `Overlapping` |

The hypotheses are where the code, without them, does otherwise: section 5
has the counterexamples. They say that callers do not roll back into a block a fork
shares, that they do not append to a block on SSD, that copies of models are made to
new names, that a model's sizes
fit - heads in equal groups, one even head size for query, key and state - and the
paths that share a cache rotate alike (`Regulated`), and that the stride of the
perplexity is smaller than its context. The instances of the runs satisfy all of them,
so that no theorem is about an empty set of behaviours.

### The invariants and why they are needed

**PagedKvProofs.** Of the accounting invariants none is inductive alone: that a
removal frees only what nobody uses needs exact reference counts; these need that
a table lists a block once, and that a forked or fresh id owns nothing yet.
`PoolInv` is their conjunction: `TypeOK`, `TablesInjective`, `IdsFresh`,
`FreeListSound`, `RefCountExact`, `NoLeak`. One lemma per action shows that it
keeps `PoolInv`; lemmas about `BlocksOf` (append, tail, concatenation, replacing
the last entry) and about the queue after a removal carry the sequence reasoning.
From `PoolInvariant` follow `TypeCorrect`, `FreeListSoundness`, `RefCountCorrect` and
`NoBlockLeaks`. `ReadsBack` compares the blocks with the log of what was appended.
Its induction is `PoolInv` with `ContentsInv`: how many rows each block of a table is
filled with, the last one of a layer that the caller's loop has passed included,
and that they are those of the log; a step that writes to one block leaves every
other sequence's rows because `SharedBlocksAreFrozen`.

**BlockSwapProofs.** `SlotInv` joins `SlotsDisjoint`, `RoundTrip` and
`SwappedHasSlot` (the swapper's set and the file's map agree): a swap-out may
overwrite a slot only because the slot it takes is fresh (`TakenSlotIsFresh`).
From it `SlotsAreDisjoint`, `SwapRoundTrip`, `SwappedSetIsSlotMap`. It relies on
the callers' rule, a guard of `Next`, that no block is swapped out twice.
`LedgersBalance` adds `LostInv`, that the slots nobody owns or offers are as many as the
failed writes, and `LruInv`, that the deque lists each tracked block once.

**SwapAwareProofs.** `LinkedInv` is the pool's `PoolInv`, the swapper's `SlotInv`, the two
ledgers, and `LinkInv`: the flags of the pool, the slots and the tracker are about
blocks in use. None of the parts survives without the others, since a removal frees
blocks, slots and tracker entries in one call. For the caller's view `VisibleInv` adds
that a flagged block's stored copy is as full as the block. `Visible` puts that copy
in the place of the block's contents: with it every step of the wrapper is a step of
`PagedKv` or a stutter (`SwapImplementsPagedKv`), each of the parts' lemmas being
instantiated rather than proved again, and `SwapIsTransparent` carries `ContentsInv`
along that refinement. (The wrapper has no rollback, and needs no hypothesis on it.)

**CachesProofs.** *LayerPinner*: the induction needs that a decay by nine tenths, rounded
down, takes ten decay intervals' worth of accesses back under the bound
(`DecayShrinks`); `CountsStayBounded` and `PinsStayBounded` follow. *LayerCache*: `CacheInd`
adds to `CacheInv` that the deque repeats nothing; that `used` is a sum over the layers
goes through the sums of `Collections`. `EvictionIsSound` is an action property: the
eviction loop takes a prefix of the unpinned layers in LRU order, and no shorter
one would do. *PromptCache*: `PromptInd` has the cache in memory, the two files, and
which of them a snapshot is in while the server saves; it gives both the bounds
(`PromptInvariant`) and, with the longest stored prefix being unique, the lookup
(`LookupIsLongest`). *MmapKv*: `KvInd` says of
each layer that the rows in RAM continue where the cold ones end, and that the files
hold exactly the cold rows, two cells each and in order, unless a cut write or a
rollback has left something else there (the layers in `stale`, whose reads `TierInv` leaves
out). The mappings reach to the end of these files (`Mapped`), but for layers whose last
mapping failed: there they may end at any row, and a reader gets the row or nothing.
That the budget holds through a spill that fails is the argument the other way: memory is given back only
by a spill that succeeds, so that no row in RAM is uncounted (`RamRespected`). *EvictingKv*: `HeavyInd` and `WindowInd`
say of each place which token it can hold; an eviction removes the smallest
scores, so that order and sinks survive (`HittersStay` is its action property).
*LoraManager*: `LoraInd` is that the list is sound (names are distinct, every file loads) and the
active names are in it. Taking a name out of the list is `WithoutOne`; that
a weight takes one delta of every active adapter counts the places of the list against the
names, which needs the names to be distinct.
*FeedForward*: the device picks the experts one after the other and the host sorts them;
`GatingInd` says that those picked so far are the ones of the lowest ranks in the host's order,
equal weights by index, so that the next pick has the next rank (`RanksTaken`: each rank is
taken). Of equal logits the weights are equal and of greater ones greater because powers of two
increase. The row groups lie end to end from 0 to the number of rows (`BeginsFacts`), whatever
remainder the division leaves.
*Attention*: `Folded` is what the online softmax has reached over the positions it has seen:
the weights under their greatest score, and the sum of them. A greater score shrinks
weights and sum by the same power of two, which divides each of them exactly
(`FoldedOneMore`), so that they end where the two passes begin. Of the cache, each row is
its token's, turned as some path of this cache turns it; that the lanes a score
multiplies are turned alike needs `Regulated`, and that heads of equal groups find the row of
their own (`GroupsShare`) that the sizes fit.

**IndexProofs.** *TextChunker*: `ChunkInv` says where the next chunk starts relative to
the last one and that neighbours are a step apart; from it `NeverOutOfBounds`,
`OverlapIsExact`, `EveryLineIsCovered`, for any file, window and stride that
`TextChunker::new` accepts. *FileStore*: `StoreInv` is `HandleInv` with what the files hold
while no write is under way (`DiskSound`) and the bound on faults. One lemma per
operation shows that it is a step of `IndexStore` or a stutter: a flush is three writes
of which the last is the abstract one, a crash inside it is the abstract fault, and a
removal keeps the rows of the rest in their order. *IndexDirectory*: that the counters add
up to what the store holds is not inductive. `WalkInv` adds the chunks of a text in
closed form (`Cut`), that the chunker has cut the first of them, and that everything in
the store is one of some text; then two chunks of one text differ, an upsert never
merges them, and a file that is indexed has brought as many as it counted. For
`NoSilentFailure` it adds that a file which was read is at hand, indexed with every
line, or named.

**InferenceProofs.** *Decode*: `DecodeInd` says, as long as no call has failed (and for devices whose
caches the prefill fills as well, `Regular`), where the
token's state is in every phase of the loop (`Carried`), which layers have the row
of the position (`DecodeRows`, and `PrefillRows` before), and that a graph that is
captured is whole and lives for its replay (`GraphWhole`). With failed calls what is
left is `Control`: no recording is replayed past the device cache. *Perplexity*: `PplInv`
says how far the scores reach when a chunk begins, and that they reach the end of
the text when the loop does.
*BatchScheduler*: `SchedulerInv` is `BatchInv` with the types and shapes of the
requests. A step moves requests between four places at once; `Placed` states
`ExactlyOnce` place by place, so that queues can be split and joined, and the failing
step is the same with the rest of the batch untouched. *Speculative*: `RoundsInv` gives
the target's cache in closed form (`RowsFed`), the second row of the last prompt token
included, which section 5 reports; that no rejected token is left follows.
*Agent*: `AgentInd` has how far each turn is. In the slot of the name what is spelled is the
beginning of some name that is not complete (`ToolKnown`), or the constraint would leave no
token; the text of the turn that is under way is in `accumulated_text` and not yet in the prompt
(`PromptTold`), in some phases and not in others. The prompt is read through `FlattenSeq`, which is
proved to be the fold it is and to take what is appended (`FlattenAppend`), and arguments that
do not parse become the empty object, so that each call's are one whole value
(`ArgsAreValues`), though not always an object (section 5).
*Sampler*: each filter is shown to keep a list that begins with a most likely token so
(`Kept`); only a top_k of 0 leaves an empty one. That a power of two is positive and
does not fall, which the provers do not know of, comes from its being the number of subsets
of a set (`PowersOfTwo` in `Collections`). For Mirostat's mu it takes that a share among the kept tokens
is not less than one among all (`BitsFall`), so that what was drawn surprises by no
more than mu.

**ServerProofs.** *Server*: `ServingInd` says where the one connection that is served stands:
nothing is written before the lock is taken, then the frames of its stream in order, so
many that the tokens still to come fit (`Stage`); that clients in the backlog, the
one that is served and those that are closed are different ones (`Places`); and what a
closed one was left with (`Rightly`): a whole answer, or, where it had none coming
(`Due`), what a failing read or write cut it off at. `AnswersAreWhole` follows, whenever
clients leave and signals come. *ModelFiles*:
`ServedInd` adds to `ServedIntact` that no `.part` file and no open download is the
mapped inode (`ServedApart`); a rename takes a `.part` file, a copy to a new name a fresh
inode. `PullInd` speaks of each `.part` file and of each open download. No inode has two
names, one that is open has the `.part` name of its own download or none, and two downloads that
have one inode open have crowded it (`OwnFiles`). A file that is not crowded begins with a page, or
has each block at its place in a file that was downloaded into it (`Pieced`), and a download
that is alone in its file stands at its end (`AtItsEnd`), so that its next block, at its own place
or behind the last one, comes where it belongs whichever attempt wrote those before it
(`PiecesAreWhole`: when they were all for one file, this is the file). Nothing is assumed of
who downloads what: two repositories with one file name, two processes with one model,
and deletions in between are all among the behaviours. The proof found that an earlier
model let a
download resume a `.part` file that had been deleted after it was seen; curl finds none
then, and begins at the first block. *Metrics*: `MetricsInd` counts the
threads between two atomic operations (`Count`), for any number of threads below the
modulus of the counters, and that sorting keeps the number of latencies
(`SortedLength`). The parts share no variable, so `ServerIsSound` has the conjunction of
the three.

**Collections.** Sums and retained queues are defined by folds over finite sets. An
induction theorem of the library takes an operator as a parameter, which the provers
cannot instantiate; `SmallestMember` says instead that a family of subsets of a finite set
has a smallest member, and each induction is over the family of counterexamples.
`FoldUnique` and `FoldExists` do it for the fold that `MapThenSumSet` is; the facts about
sums, positions and queues follow from them without another induction. The powers of two
are got in the same way, from sets of subsets: that they double, increase and multiply
(`PowerDoubles`, `PowersIncrease`, `PowerOfSum`).

### What they assume

The named assumptions (`PoolAssumption`, `SwapAssumption`, `CacheAssumption` and so on) say
that sizes and bounds are natural numbers, that a number of layers or blocks is not
zero, that sets of files and layers are finite, and that the marker values (`None`,
`Garbage`, `Missing`) are none of the values they stand beside. Six say more:
`EvictingAssumption` has more heavy hitters than sinks, which `H2oLayerCache::new` asserts,
and `IndexAssumption` has texts no longer than the bound of the chunker's files, the
same constant. `MetricsAssumption` has fewer threads than the counters' modulus, which is
2^64 in the code, and `ModelFilesAssumption` a first block in every remote file that is not a
page's. In `AgentAssumption` no tool has an empty name, as the tools of
`inference/tools.rs` have. In `SamplerAssumption` `Floor` is below every logit that the levels
and penalties can give, which excludes no finite choice of them; it is the zero of the
exponents. TLC evaluates each of them in the run of the module.

### Only model-checked

- Liveness: `RunEnds`, `StalePinsLeave`, `EveryRequestFinishes`, `EveryClientServed`,
  `ShutdownStops`. The prover has neither fairness nor ENABLED.
- `ConstraintInv` and `TokenizerInv`: `JsonMode`, `GrammarMode` and `Tokenizer` use recursive
  operators, which the prover does not take; what they compute is checked against
  a reference over all inputs within the bounds.
- `QuantInv`, `DeviceInv`: not proved yet. `QuantInv` is mostly about formats that the code
  fixes, where a run already covers every one of them.

## 5. Where the code and its words disagree

Two of these have a run of their own and a finding in `PROJECT.json`:

| run | property | what happens |
|---|---|---|
| `decode_logits` | `LogitsFromDevice` | With a Q4K output projection the logits come from `hidden_dev` whenever the tensor is on the device, even when the last pass did not write it: after the prefill it is zero, after a host pass it is the token's embedding. `inference/transformer.rs:1411` says "hidden_dev still populated from the GPU-resident forward pass." |
| `shared_buffer` | `KernelSeesQKV` | Buffers are kept by dimension: with as many KV heads as query heads the value overwrites the query before the fused kernel of `cuda/mod.rs:1661` reads it. |

The others were found while modelling and confirmed by TLC. To see one, take the
configuration of the module's run, change the constants named, put the property in
place of its INVARIANTS and PROPERTIES (marked P: as a PROPERTY; then `MCOffload`
without its SYMMETRY).
The runs of section 3 exclude exactly these cases, by a constant or by a condition
stated in the property.

| configuration, changes | property | what happens |
|---|---|---|
| `PagedKv`: `SharedRollback = TRUE`, one layer, three blocks | `ReadsBack` | A rollback into a block a fork reads shrinks it for both: the fork's next append overwrites a position it has (`inference/paged_attention.rs:559`; README.md:57 promises copy-on-write). |
| `SwapAware`: `MaxFaults = 0` | `SwapOutFrees` P | The swap-out of an exhausted append returns no block to the queue, so the retry fails too (`:748`, "returns true if any blocks were freed"). |
| | `SharedStaysResident` P | Shared blocks are swapped out although the comment at `:763` says they are skipped. |
| | `Recoverable` | Removing a sequence frees swap slots its fork still needs (`:911`). |
| and `AppendToSwapped = TRUE` | `SwapTransparent` | A token appended to a block on SSD is lost when the block is swapped in (`:714`). |
| `MCOffload` | `RollsBackToLength` P, `ColdReadsBack` | A rollback into cold storage empties the layer and leaves its files, which later spills append to: the rows read back are the old ones (`inference/mmap_kv_cache.rs:443`). |
| | `FailedSpillKeepsRows` | The rows of a spill whose mapping fails have left RAM by then and read as nothing, though they are in the file (`inference/mmap_kv_cache.rs:354`). |
| | `SpillsNeverPanic` P | A spill that could open the keys file and not the values file returns its error; the next one unwraps the missing file (`:317`, `:327`). |
| | `PositionsAreOriginal` | The position of an evicted last token is given again (`inference/h2o_cache.rs:45`, "Original position indices"). |
| `MCIndex` | `EveryRowMatches` | A crash between `vectors.bin` and `chunks.jsonl` with an unchanged count leaves an index that opens with rows of one generation and records of another (`ssd-index: store/file.rs:216`). |
| | `OneCounterOrError` | A failed file is counted in `files_skipped` and listed in `errors`; `ssd-index: walk.rs:82` says exactly one. |
| `LayerCache` alone, SPECIFICATION `Program` | `BudgetFollowsPressure` P | Nothing in the program ever passes the pressure level to the cache's budget (`main.rs:855`; README.md:80). |
| `MCCaches` | `UsedIsSize` | Storing a stored prompt again counts its bytes twice (`inference/prompt_cache.rs:145`). |
| | `EvictsOnlyToStore` P | A prompt larger than the cache evicts everything and is not stored (`:133`). |
| `MCLoops` | `LayersAgree` | A step that fails at a layer leaves the earlier layers one row ahead, and the request in the batch (`inference/batch_scheduler.rs:237`; `kv_cache.rs:119` "same across all layers"). |
| | `RowsHoldTokens` | The first decode step feeds the prompt's final state through all layers again: its row belongs to no token (`batch_scheduler.rs:245`). |
| | `OneRowPerToken` | The first round feeds the last prompt token a second time (`inference/speculative.rs:352`). |
| | `DraftInSync` | A draft that ends at once leaves the draft cache one row longer than the target's (`:426`). |
| | `StopsAtEos` P | An end token sampled after a rejection, or as the bonus, is dropped and generation goes on (`:610`). |
| | `WithinMaxTokens` | The last round may pass `max_tokens` by up to K (`:354`). |
| `Decode` | `RowsSurviveFallback` | A fused attention that fails falls back to another tier (`inference/transformer.rs:131`); the device cache keeps or misses a row for the rest of the text, and with quantised attention tensors the prompt's rows are only on the host while later passes read the device's. |
| | `ExecsNeverOverlap` | A failed replay leaves its exec live while the next token captures one; `cuda/mod.rs` says near line 936 that two live execs are an illegal access. |
| | `FallsThrough` P | A graph that was not captured whole is announced as "falling through to resident path" but is replayed all the same, and the pinned result it did not write is read. |
| | `WithinContext` | `is_full` asks layer 0 of the host cache, which stays empty when that layer runs on the device: `kv_cache.rs:148` "Check if we've hit the context window limit". |
| `MCServer` | `EverySignalStops` P | A signal between the redirection and the storing of the handler is swallowed, and one inside the storing waits for its own thread's mutex (`api/server.rs:190`). |
| | `PresentAnswered` | A client that is there is closed without an answer when its request line or a header is not UTF-8 (`:213`, `:226`), and, where accepted sockets inherit the listener's non-blocking mode (`:152`), when its bytes are late or its buffer is full. |
| without the fairness of `ClientStep` (`SilentClients`) | `EveryClientServed` P | A client that falls silent holds up every other one: there is no read timeout (`api/server.rs:157`). |
| | `ExistingIsWhole` | "Already downloaded" is decided by the name alone (`pull/mod.rs`): a copy that failed, or a pull that died between rename and check, has left it. |
| | `WhateverWroteIt` P | The `.part` file of another repository is resumed, which is found by the file's name alone (`:137`, `:154`, `:163`): the model is put together of both, or is the other one when that is longer. |
| | `WhateverElseHadItOpen` P | Two processes write one `.part` file at the same time: what is renamed has blocks twice, or holes. |
| | `WhoeversItIs` P | A `.part` file that was deleted under its download is created again by another one, and the first renames the second's beginning. |
| `NewNamesOnly = FALSE` | `ServedIntact` | `fs::copy` truncates an existing destination in place, the mapped model's file among them (`api/ollama_manage.rs:305`). |
| `MCFront` | `OnlyPrefixesPass`, `ValidatorAgrees` | The descent of `inference/json_mode.rs` does not look behind a complete value and is lax on numbers; `validate_complete` takes `{"a"}`, and neither `{"a":1}` nor a document with a space behind its last bracket (`:87`). |
| | `LegalIsSampled` | A token with a character of several bytes is never sampled: `would_accept` compares the characters it has taken with the token's length in bytes (`inference/grammar.rs:514`). |
| | `OutputMatches` | Where only such a character may follow, the mask is empty and dropped (`:920`), and what is sampled is no longer in the language; README.md:224 says "ensuring output always matches the defined grammar". |
| `Grammars <- ForkedGrammars` | `AcceptsLanguage` | The acceptor commits to the first alternative that takes a character, and a repetition eats what must follow it (`inference/grammar.rs:763`): sentences of the grammar are masked. A rule at the end whose own end is optional is not taken for finished (`:801`). |
| | `SentinelFires` | Where the tokenizer puts a marker before what it encodes, the sentinel is never found in the text (`inference/agent.rs`, "until <<tool_call>> sentinel fires"). |
| | `ArgsAreWhole` | A brace inside a text counts, so that arguments end too early ("until the outermost object is complete"). |
| | `ArgsAreObjects` | A text with a brace in it ends the arguments too, is read by `serde_json` as a value and handed to the tool as it is (`inference/agent.rs:352`); `inference/tools.rs:3` says "Each tool takes a serde_json::Value args object". |
| | `TextWithoutCalls` | The sentinel stays in the accumulated text ("tool calls not included"). |
| | `AnswersOnce` | A turn without a call ends the loop, and a second answer is generated behind it (`inference/agent.rs:211`). |
| `Rounds = TRUE` | `NeverSampled` | When the sum of the rounded shares stays below the draw, the last token is taken, masked or not (`inference/sampler.rs:617`). |
| | `DecodesBack` | A character in two gpt2 tokens becomes replacement characters, a byte token its name `<0xNN>`, and the fallback to marked tokens puts spaces into words (`inference/tokenizer.rs`). |
| | `KeepsKnown` | A vocabulary without keys for bos and eos gets 1 and 2 (`inference/tokenizer.rs:133`); the ordinary tokens with these ids are left out of what is decoded (`:449`). |
| | `ChangesAreCounted` P | Loading a file that fails removes the adapter of that name without counting the change (`inference/lora.rs:225`, "incremented on any adapter change"). |
| `MCKernels` | `KeysWhole` | In a head of two warps or more, thread 0 scores the new key after a `__threadfence` alone, when other warps may not have stored their lanes (`cuda/mod.rs:525`). |
| `OutDim = 5` | `EveryRowComputed` | The grid is `out_dim / 32`, rounded down: rows past the last whole block are not computed (`cuda/mod.rs:1266`). |
| `ModelShapes <- WideModelShapes` | `NeverPanics` | Where `head_dim` is not `n_embd / n_head`, the cache's width differs from the tensors' and the append's assertion stops the program. |
| `CacheUsers <- BatchUsers` | `HeadsMatchRows` | The batch is prefilled with the model's rotation base and continued with another one, over one cache. |
| `Strides <- WholeStrides` | `ScoredOnce` | With a stride of the whole context the first token of each chunk is never scored (`inference/perplexity.rs:170`). |
| `Readings` with `<<f, "metal">>` for f = Q4_K, Q6_K, Q3_K | `ReadersAgree` | These shaders of `kernels.metal` unpack other bits than `metal/compute.rs`. |
| `Readings` with `<<f, "loader">>` for any format the loader does not know | `ReadersAgree` | The loader of `ssd/streamer.rs` yields zeros where the product reads weights. |
| `Readings` with `<<"Q3_K", "cpu">>` | `BlocksTile` | The type size of Q3_K is 174 bytes in `model/gguf.rs:120` and its readers step by 110. |
| | `BlocksUsedUp` | The readers of IQ4_XS and IQ2_XS use part of the scales that the layouts beside them give ("8xu16 scales_l (16B)", `metal/compute.rs:1227`; "uint8_t scales[8] (8B)", `:2381`): four bytes of the sixteen and four of the eight. |
| `Halves` with `"subnormal"` | `ReadersAgree` | The conversions of a half differ on subnormal scales: the CUDA kernels read them as zero. |

Read and not modelled: `MonitorConfig`'s thresholds are not used
(`ssd/memory_pressure.rs:325`); README.md:83 describes the adaptive pinner as at work;
a `top_k` of 0 samples token 0; `generate` runs start-up diagnostics with fixed
sizes (`transformer.rs:862`); `forward_layer_quantized` has no path for experts;
activating a name twice in the mmap pool counts its size twice
(`ssd/mmap_pool.rs:43`).

## 6. What is not modelled

- *Floating-point values*: dot products, activations, rotation angles and their
  scaling, the log-softmax, vision, and the SIMD lanes of the Metal and NEON
  kernels. The models follow which elements go into a number, which bits, in which
  order and how often, not what comes out.
- *Parsing and formatting*: the GGUF header, TOML, GBNF, chat templates, tool
  declarations, HTTP bodies, the output of the command line. They are pure input.
- *Mapping of files and `madvise`*: no state of the program depends on it.
- *Quantised KV cache and mmap pool*: small, without a caller; the blocks of the
  first are those of `QuantBlocks`, the eviction of the second is that of the layer
  cache.
- *Two handles on one index directory*: nothing in the code locks it, and a property
  could only say that the last flush wins.
- *Errors that end a text*: an I/O error inside `generate` or a speculative round
  ends the call; no state outlives it.

## 7. Plan

Modelled in this order: the block caches (the deepest sharing), the index store over
its abstract specification, the walk, the layer and prompt caches, the batch and
speculative loops, `generate` with its device; then the server with model files and
metrics, the front end from JSON mode to LoRA, the tiered caches, and the kernels.

Proved, in this order: the paged pool, the swap slots, the pinner and the chunker;
then the reads of the paged cache, the swap-aware cache as an implementation of
the paged one, the layer and prompt caches, the tiers and evictions, the index
store as an implementation of `IndexStore`, the scheduler, the rounds, the decode
path, the scores of perplexity, the report of the walk, the server with the
directory of models and the counters, the agent loop, the adapters, the sampler, the
feed-forward step and attention.

Next, proofs: `DeviceInv` of `CudaBuffers` for any shapes in which the
buffers of a launch differ, and of `CudaKernels` for any number of warps.

After that, models of the quantised KV cache and the mmap pool, and of two
handles on one index directory once the code takes a lock.

# Formal models of fastgemma

TLA+ modules for the parts of fastgemma whose correctness is a matter of order,
sharing and bookkeeping rather than of numerics, with TLC configurations that
check them on small instances and TLAPS proofs of the central invariants for
every instance. Paths below are relative to the repository's root.

## 1. What the system is

`fastgemma` (crate `fgm-serve`) serves text completions of one model. A listener
thread spawns a thread per connection; each encodes its prompt, hands a `Job` to
one engine thread through an mpsc channel, and copies the events it gets back to
its client. The engine thread owns a `Runner` (the forward pass, crate
`fgm-core`), a KV cache per slot and an optional prefix template. The runner
splits each kernel call over a pool of worker threads, and the kernels (crate
`fgm-kernels`) come in AMX, VNNI and plain versions.

```
 clients --TCP--> connection threads --Job--> engine::run --forward_multi--> Runner
                       ^                        | owns slots, caches, prefix   |
                       +-------- Event ---------+                         Pool -> kernels
```

### Inventory

| component | state it keeps | operations | what is hard | what makes it correct |
|---|---|---|---|---|
| **Scheduler** `fgm-serve/src/engine.rs` | slots, caches, prefix template, last prompt | admit, prefill in chunks, reuse / build the template, emit and retire, batched decode, return | interleaving of arrivals with decoding; slots and caches reused; a template replaced under way | every answer is the one the request gets alone; every job answered once and completely |
| **KV cache** `fgm-core/src/kv.rs`, layout in `model.rs` | per layer a linear or ring buffer, `len` | new, slot, clear, fork_from, window | rings that wrap, caches cleared without being erased, layers that read another layer's cache | what attention reads is the sequence's own |
| **Forward bookkeeping** `fgm-core/src/forward.rs` | scratch, row references | forward, forward_multi | all rows written before any attends; the row count chooses weights and kernels | rows of a batch do not see each other |
| **Streaming text** `engine.rs`, `tokenizer.rs` | `text`, `sent` of a slot | decode, stable_len, stop search | characters split over tokens; stop strings split over tokens | what was sent stays a prefix of the text |
| **Connections** `fgm-serve/src/main.rs`, `http.rs` | a request, an event receiver | read, admit, stream, answer | disconnects, clients that stop reading, engine death, limits | admission matches the engine; no truncated answer looks complete |
| **Worker pool** `fgm-core/src/pool.rs` | job cell, two barriers, stop flag | gemm, prep, attn, drop | barrier protocol, unsynchronised cell | each block done once, nobody runs ahead |
| **Grammar** `fgm-core/src/grammar.rs` | a DFA per tool set | compile, mask, forced_run, advance, parse_call | dead states, forced runs, parser and grammar out of step | what is generated parses |
| **Speculative decoding** `fgm-bench/src/main.rs` | drafts, cache, automaton | draft, verify, rewind | rejected rows left in the cache, accept inside a draft | same tokens as plain decoding |
| **AMX tile guard, backend choice** `fgm-kernels` | backend, retry counters | autodetect, guarded multiply | corrupted tiles, retries that run out | a wrong product is not used |
| **Attention slot runs** `fgm-kernels/csrc/ops.c` | none | split a window over a ring | groups of four, two runs meeting | each position counted once |
| **Download** `fgm-serve/src/fetch.rs` | `.part` file | ensure | crash, resume, two launches | a complete file is never a truncated one |
| **Tokenizer** `fgm-serve/src/tokenizer.rs` | vocabulary, merges | load, encode, bpe, decode | merge order, byte fallback | ids decode to the text |
| **Weight packing** `convert/quant.py`, `ops.c`, `model.rs` | none | pack, unpack, gather | index maps in two languages | the maps are inverse |
| **Numeric kernels, conversion, benchmark scripts** | | | floating point, SIMD | out of scope |

`PROJECT.json` lists all of them, what each hazard is and at which line it bites.

## 2. What is modelled

```
 KvCache  <-+
            +-- Runner <-+
 AttnRuns <-+            |
                         +-- Requests <- Engine <- EngineProps <- MCEngine
 Text <------------------+      ^            |
                                +--- Completions        (INSTANCE ... WITH)

 Runner <-+
          +-- Speculate <- MCSpeculate
 Mask   <-+
 Mask <- ToolGrammar <- CallParser <- Constrained <- MCGrammar

 Server    <- ServerProps <- MCServer     Fetch       <- MCFetch
 TileGuard <- MCTileGuard                 ParallelFor <- Pool <- MCPool

 proofs:  RunnerProofs <- EngineProofs      RunnerProofs <- SpeculateProofs
          BuilderProofs <- GrammarProofs
          TileProofs  PoolProofs  ServerProofs (of Server and of Fetch)
```

The composed modules are the ones whose code shares state: a scheduler or a
speculative loop over the runner's caches, a decode loop over a constraint.
`Server` meets the scheduler at the job channel and the event channels, so it
has those and takes the engine as what a connection can see of it; `Pool`,
`TileGuard` and `Fetch` are seen by the rest only through a call that returns.

### The layers under the scheduler

**`KvCache`** is `kv.rs` and the layout part of `model.rs`. A cache is
`[len, rows]`; `rows[l][s]` is what slot `s` of layer `l` holds. The content of a
row is abstracted to *what it was computed from*: the K and V of position `p`
depend on tokens `0..p`, so its right content is the prefix of the history up to
`p`. Two marks stand for a slot never written (`Zero`) and a row computed from
something other than its own sequence (`Bad`). Layers that slide and are read by
no shared layer have a ring (`SlotOf`, `Capacity`), others are linear; `Clear`
drops the length and keeps the rows; `ForkFrom` copies what `fork_from` copies.
`Holds(c, h)` says cache `c` holds history `h` at every position it must remember.

**`AttnRuns`** is the slot arithmetic of the attention kernels in `ops.c`. The
kernel cuts a window over a ring into at most two runs of slots (`Runs`), rounds
each out to groups of four (`Lanes`), clears the lanes no position fills and adds
up every lane of every run. `CountedOnce` says each position of the window comes
out once: two runs rounded outwards may meet in one group, and then its positions
would count twice.

**`Runner`** is `Runner::forward` and `forward_multi` without the numbers.
`Written` writes all rows of the batch before any attends, `Sound` says what each
row reads in every layer (through `KvSource` and the window, each position summed
once), and `Forward` gives the cache and the history the logits stand for, or
`Bad` if any row read a wrong one. The rows of one decode step belong to
different caches, so the scheduler applies `Forward` per slot with the batch's
row count. A history is a sequence of elements `[tok, arith]`: the *arithmetic* a
row went through is part of it, because `WeightSel` takes the int8 weights from
`WeightRows` rows on, and the attention kernel changes from `RowbatchRows` rows
and `RowbatchSpan` positions on. The integer products of one weight set are
exact, so below those thresholds the row count changes nothing; across them two
runs may disagree on a token. `Greedy` stands for the language model: *some*
function of the whole history. This is what makes "the same output" a real
claim: a run that feeds the same tokens through another arithmetic has another
history and may answer differently.

### The scheduler

**`Text`** is `Tokenizer::decode` (all bytes in order, lossy UTF-8 with
two-byte characters), `stable_len` and the stop search. **`Requests`** gives the
requests of an instance and the reference history `Alone(r, ids)`: a full prefill
in chunks followed by single-row decoding. **`Engine`** is `engine::run`. It is
one sequential thread, so its state is a program counter and its locals:

| variable | code |
|---|---|
| `open`, `queue` | the job channel: some sender alive, jobs not yet received |
| `status` | what the connection thread did with each request |
| `pc` | `admit` (151), `prefill` (184), `build` (225), `emit` (256), `forward` (292), `returned` (158) |
| `slots`, `caches` | `slots` (occupied ones), `caches` |
| `cur` | `i`, `job`, `reuse`, `off`, `first` of the admission loop |
| `prefix`, `lastToks` | `prefix`, `last_toks` |
| `build` | `share`, `o`, `kv` of the template build |
| `events` | what was sent to each job's `tx` |

| action | code |
|---|---|
| `Submit`, `Reject` | `completions`, main.rs 225-241 |
| `Hangup` | the last `Sender<Job>` dropped: `main` keeps one for good, so this is what `engine::run` promises any caller (115, 158) rather than what the server does |
| `Recv` | engine.rs 152-183: lowest free slot, `recv`/`try_recv`, reuse test, clear, fork |
| `AdmitBreak` | leaving the admission loop (152, 163, 164) |
| `Return` | 158 |
| `PrefillChunk` | one iteration of 184-191 |
| `AdmitDone` | 209-222 without a build, then 234-244 |
| `StartBuild`, `BuildChunk`, `BuildDone` | 222-224, one iteration of 225-229, 230 with 234-244 |
| `Emit` | 253-290: the emit loop, the retire loop, back to admission if nobody is left |
| `Step` | 292-306: the forward and the context check |

Only the channels are shared with other threads, so clients interleave between
any two of these actions. `Emit` and `Step` go over all slots at once: between
the sends of one loop the engine touches no state another thread reads, and no
job hears from two slots. Sends to a client that is gone fail and are ignored
(`let _ =`), so a disconnect does not change the engine.

**`Completions`** is the promise: every request answered as if alone, by a
record `answer[r]` that grows by the greedy token of its own history until it
ends. No slots, caches, queue, batch or template. Several answers may grow in
one step (a decode step moves them all).

### The connections

**`Server`** is `main.rs` and `http.rs`: one thread per client, reading one
request, answering it and closing.

| variable | code |
|---|---|
| `pc` | where the connection is: accepted, request read, stream to be opened, waiting for events, the end mark to be written, closed, aborted with the process |
| `wire`, `text` | the frames written to the socket; the text gathered for a plain answer |
| `chan`, `jobs` | the event channel of each job, the job channel |
| `active`, `sent`, `alive` | the jobs the engine works on, how far each has got, whether it runs |
| `gone` | clients that hung up: writes to them may fail |
| `req`, `unwinds` | the request; whether panics unwind (dev) or abort (release, `Cargo.toml`) |

| action | code |
|---|---|
| `Read`, `Reply` | `read_request`, the routes and refusals of `handle`, all that needs no engine |
| `Refuse`, `Panic`, `Submit`, `NoEngine` | the context check in `Word` arithmetic (wrapping in release, panicking in dev), the send to the engine |
| `OpenStream`, `Recv`, `EndStream`, `RecvError` | `sse_open`, one event copied to the client, `sse_done` after the final chunk, the channel's end without a `Done` |
| `HangUp` | the client |
| `Take`, `Send`, `Die` | the engine: a free slot, the next event of any job, a panic at any moment |

A request is what the handler tells apart (too few words, too large or cut short,
the route, a body that parses, a refused field, token count, `max_tokens`,
`stream`), the number of pieces of its answer, and whether its client goes on
reading. A frame is what one call of `respond`, `sse_open`, `sse_send` or `sse_done`
writes: a status, a body, a piece, the final chunk, the end mark. No socket has a
write timeout, so a client that is connected and does not read (`Stalled`) may block
its thread for good: its writes may happen, as long as there are buffers, and need
not.

### Launch

**`Fetch`** is `resolve` (main.rs) and `ensure` (fetch.rs). Each launch looks for
the weights, then the tokenizer: `Found`, `NotFound` (with `--no-download`),
`Start` (curl opened on `.part`, from where it ends), `Block`, `Ended` with
success or failure, `Rename`. `Crash` kills a launch at any point, `Relaunch`
starts it again, `Publish` puts a new version behind the URL. A file is told from
its name, because a transfer keeps writing to the file it opened after that is
renamed. `fetched` counts the blocks transferred for each name over all launches;
nothing in the code has it. Every version of a file has the same number of blocks, so
a `.part` longer than what is published now does not occur. curl is external: it appends blocks from the length it found, and to
resume what is whole already counts as success, as fetch.rs relies on.

### Constrained and speculative decoding

**`Mask`** is `Constraint` at work: `Allowed`, `Advance`, `ForcedRun`, the argmax
of masked logits. **`ToolGrammar`** is `GrammarBuilder` and `compile`: states with
literal edges, token edges and one byte class with its exit, built for strings,
numbers, booleans, enums, parameters and tools in the order the code builds them
(sharing prefixes, the optional spaces, the assertion of `lit_to`), then every
token's bytes walked from every state. **`CallParser`** is `render`, `parse_call`
and `valid_scalar`. **`Constrained`** is the decode loop: `Emit(t)` for *any*
token the mask admits (token 0 when it admits none), so it covers every model;
`WalkFrom` is the model-free walk of the bench's tools mode. Against them stands
a reference that builds no automaton: the sentences of a tool set (`Sentences`),
each with the call it stands for (`Calls`), and their prefixes (`Viable`). Which
string bodies and runs of digits it ranges over are constants, `StrWords` and
`NatWords`: words up to a length in the runs, all words in the theorems. In a text a
delimiter is one symbol of its own (`Opens`, `Closes`, `Quotes`), as it is one token.

**`Speculate`** is the decode loop of the bench's genfile mode over `Runner` and
`Mask`, one action per iteration: `Prefill`, `FeedRun` (a forced run in one
forward), `FeedDraft` (a draft from the prompt, verified and cut back),
`DraftPanics` (the assertion on logit rows), `Step`, `Finish`. The cache keeps
the rows of rejected tokens, as in the code; only `pos` goes back. `Plain` is the
loop without shortcuts, written as a function of the prompt.

### Kernels

**`Pool`** is `pool.rs`. Thread 0 is the caller, `1..NT-1` are the workers, and
every thread's step is its own action:

| action | code |
|---|---|
| `CallInline` | the early return of gemm, prep and attn: one thread, or a small prep |
| `CallPooled` | the store to the job cell (290, 306, 323) |
| `WaitStart`, `WaitDone` | the two barriers, by workers (245, 268) and caller (291, 294 and alike) |
| `CheckStop`, `Take` | the stop flag (246), the copy out of the cell and the split (249-267) |
| `TakeOwn` | the caller's split of its own argument (292, 308, 325) |
| `Work`, `Worked` | one piece of the share: `run_gemm`, `run_attn`, `run_attn_rows`, `run_prep`; its end |
| `Back` | past the done barrier: the call returns, the worker loops |
| `Drop`, `GoJoin`, `Join` | `Drop for Pool` |

`std::sync::Barrier` (`Wait`) is external: a thread blocks, and the last to come
releases all. A thread released but not yet gone cannot meet the next use of the
barrier, which needs all threads, so its generation counter is not needed. Steps
interleave as if memory were sequentially consistent: the barriers order the
store to the cell before its reads and the reads before the next store, which is
what `WithinCall` checks. Only one thread calls, since `Pool` holds an
`UnsafeCell` and is not `Sync`. A job is its shape; `tally` counts how often each
output (16-column block, row, or row and head) of the call's job was written.
**`ParallelFor`** is what a caller relies on: a call that returns has written
each output once.

**`TileGuard`** is the choice of backend and the guarded AMX kernels
(`fgm-kernels/src/lib.rs`, `amx_gemm.c`, in the order `forward.rs` and `pool.rs`
call them). `Backend`, `Autodetect`, `Probe`, `PoolNew` set up the backend, the
guard and the tile permission; `Enter` calls a GEMM; `Clear`, `Seed`, `Load`,
`Dp`, `Store`, then `Drain` or `Retry` are the steps of one block, a tile
instruction each; `Reset` zeroes the tile file between any two of them on a host
that does not preserve it. The loop nest (panels, row pairs, tails of one or two
tiles) is `Advance`. A tile has one value per row, standing for its 16 columns: a
reset takes a whole tile and `tile_intact` looks at one column. Products are a
constant of the instance and the scales applied outside tiles are left out.
Without tiles (VNNI) the product is one step.

### Properties

| property | says |
|---|---|
| `KvFaithful` | every cache in use holds its own sequence, as a lone run would have computed it, at every position attention may still read |
| `TemplateExact` | the template is whole chunks and holds what a full prefill of any prompt beginning with it would have left |
| `SameAsAlone` | the token a slot holds is the one its request would choose alone |
| `NoPanic` | no forward past a cache, no prompt or template longer than one, no slot taken twice |
| `OnePlace` | an accepted job is in exactly one of: channel, admission, slot, answered; `Done` is its last event |
| `StreamIsPrefix` | what was streamed is the first `sent` characters of the text decoded so far |
| `FinishHonest` | "length" only for max_tokens or a full context; no completion above max_tokens |
| `DrainedOnReturn` | the engine returns with nothing unanswered |
| `FlushComplete` | a job that ends has been sent all its text, up to a stop string |
| `ImplementsCompletions` | the scheduler refines `Completions` |
| `EveryJobAnswered`, `ClosedReturns` | liveness of the scheduler |
| `ResponseWhole` (Server) | no response is torn, doubled or mixed with another: a 200 has the whole answer, the final chunk follows every piece |
| `EveryConnectionEnds`, `StayersServed` (Server) | liveness: every connection whose client reads or is gone ends, also when the engine dies; a client that stays and reads gets its whole answer while the engine lives, whoever else hung up or stalled holding a job |
| `NeverTruncated` (Fetch) | a file under its own name has every block once, in order |
| `NeverRefetched` (Fetch) | the blocks transferred for a file, over all launches and crashes, are never more than it has |
| `GetsReady` (Fetch) | repeated launches get their files, from any crash |
| `MaskIsExact` | a token is admitted exactly when some call of the tool set continues with it |
| `DoneIsACall` | decoding ends exactly at a complete call |
| `RunIsForced` | every call that begins with the text so far continues with the whole forced run |
| `ParsesBack` | what was decoded renders and parses to the call it stands for |
| `WalkEnds` | the model-free walk reaches a complete call |
| `SameAsPlain` (Speculate) | the answer is that of the plain loop, up to one token after a drafted call (section 4) |
| `WindowIntact` (Speculate) | every position the next token reads holds the answer so far, never a rejected draft |
| `Exact` (TileGuard) | every output is its product, however many resets there were, unless its block ran out of attempts or a lossy host went unguarded |
| `CallEnds` (TileGuard) | a GEMM returns even if every attempt is hit |
| `WithinCall` (Pool) | a worker reads the cell and uses a job only inside the call it belongs to |
| `NobodyLeftBehind` (Pool) | between calls all workers are before the start barrier, after drop all have exited |
| `ImplementsParallelFor` (Pool) | every output of a call written once, before it returns |
| `CallReturns`, `DropEnds` (Pool) | liveness |

### Runs and bounds

| run | instance | states | shows |
|---|---|---|---|
| `engine_core` | r1..r5, two slots | 150k | all safety properties of the scheduler and the refinement |
| `engine_liveness` | r1, r2, r4, r5, r6 | 45k | the two liveness properties |
| `server` | 3 clients, 1 slot, `Ctx` 4, `Word` 8, both profiles, hang-ups, clients that do not read, engine death | 323k | the server properties, liveness included |
| `fetch` | a downloading and an offline launch, 3 blocks, 3 trips, 1 new version | 3k | the download properties, liveness included |
| `tool_grammar` | 4 tool sets, 32 tokens | 123k | the grammar properties, for every choice a model could make |
| `speculate` | 356 prompts, 3 constraints, drafts of 0 to 3, forced runs on and off | 65k | `SameAsPlain`, `WindowIntact` |
| `tile_guard` | 5 hosts, 5 environments, 6 GEMMs, 2 attempts | 677k | `Exact`, `CallEnds` |
| `pool` | 3 threads, 6 jobs, 2 calls | 14k | all pool properties, liveness included |
| `length_cut_short`, `stop_leaks`, `share_not_rebuilt`, `small_ctx_ring` | one to four requests | | four disagreements of section 4 |

*Scheduler.* The instance has five layers: 0 sliding with a ring, 1 sliding and
full length because layer 3 reads it, 2 full, 3 and 4 shared with one of each
type: every kind of layer Gemma's layout has. `Window = 2`, `Chunk = 3`, so a
ring holds 5 positions; prompts reach 8 tokens and histories 9, so the ring wraps
during a prefill, during decoding and in a template (6 tokens) that is then
forked; shorter prompts leave it unwrapped. `Batch = 2` with up to five admitted
requests makes slots, and with them caches, be reused by other sequences.
`PrefixMin = 3` is one chunk: templates of 3 and 6 tokens are built, reused, not
reused (r4 equals a template) and replaced. `WeightRows = RowbatchRows = 3` and
`RowbatchSpan = 4` are set so that whole chunks, last chunks and decode steps fall
on both sides of every threshold. r3 fills the context to its last position; r6,
in the liveness run, does not fit and is refused. Vocabulary: two plain tokens,
the two halves of a two-byte character (one followed by a letter), an end token.
`MCGreedy` hashes the whole history, the arithmetic included, so an answer
changes if any element does; it was chosen so that the requests end in all four
ways. Larger sizes add no new kind of event: every counter the code compares is
below, at and above its bound. Whatever the bounds are, the theorems of section 3
hold for all values.

*Connections.* One slot for three clients: a job waits in the channel behind
another, and a client that hangs up holds a slot others wait for. The first
streams two pieces, or one to a client that does not read; the second answers in one
body; the third makes any request, also those refused in every way, and does not read
a reply or an answer of one body. `Word = 8` with `Ctx = 4` puts sums below, at and
above the context, and one (7 + 6) past the word, which panics in one profile and in
the other is still too large. A sum that wraps to a small one is in `MCServWrap`
(section 4).

*Launch.* Three blocks make a beginning, a middle and an end to be cut at; two
files, so one may be whole while the other is partial; three crashes or failures
reach one in the transfer, one between transfer and rename and one more. One
launch downloads and one is offline; a new version may come at any time.

*Grammar.* The 32 tokens include single bytes and tokens that cross every border
the grammar has: the end of a name, of a number, of a value and the call. The four tool
sets hold every parameter type, names that begin one another, optional parameters
left out, repeated enum members. `MaxIdle = 1` bounds the bytes that leave the
automaton where it is (a string's body, a number's digits), since nothing new is
reached by more of them; the reference sentences go further (`StrWords` up to three
bytes, `NatWords` up to five digits), so no admitted token falls off their edge.
Strings may hold the first and the last character of the quote and hold them next
to it; the one between is no string byte here, so that no string spells the whole
(`MCSpelt`, section 4).

*Speculation.* All prompts of four and of five tokens over three of the
vocabulary (with the end token, with the token that closes a call), and those of
six over two: a draft needs a pair of tokens to recur. Three constraints (none, one that loops, one that closes a call), drafts of
up to 3, six tokens: the ring of 5 wraps during drafts. `LogitRows = 3` makes the
longest draft too long.

*Tiles.* Tiles of two rows with `m` of 5, 3 and 1: a full block of two row tiles, a
tail of two tiles and of one; two panels of columns. Two k steps with int4 groups of
one step and two attempts per block: every retry starts after either group. Sentinel
(2^30) and the largest term (127 * 127 * 12288 / 2) are the code's, so the margin of
the check is the real one.

*Pool.* Three threads are the fewest with two workers that can overtake each
other; the jobs have totals that three divides with a remainder, totals smaller
than three, a last block cut at `m`, and a prep below the inline limit. Two calls
put a worker that is late for one against the next, and drop may follow either or
come first. The theorems cover any number of threads, jobs and calls.

`CHECK_DEADLOCK FALSE` where the system may stop for good: clients that have made
all their requests, downloads that are done, an answer that is complete.
`TileGuard` has an explicit end and is checked for deadlock.

### Fairness

Everywhere it is that of threads the operating system schedules: a thread that can
go on does.

- `Engine`: `Fairness` is weak fairness of `EngineNext`, written with the explicit
  condition `EngineWaits` (the comment there says why). Its loops contain no wait
  but `recv`. Clients may never submit, and the channel may never be closed.
- `Pool`: each thread runs and barriers release whom they should; the caller owes
  neither a call nor a drop.
- `Server`: each connection runs, the engine takes jobs while a slot is free and
  goes on with every job it has (a decode step moves all slots, so each `Send(c)`
  is fair by itself). Clients owe nothing, neither a complete request nor to take the
  answer: the code sets no timeout on a socket, so reading a request is not fair, and
  writing is fair only while the client reads or is gone (a write to a closed socket
  returns). `Runs` are the steps that are: all of them, or those that write nothing
  when the client has stalled. The engine may die or not.
- `Fetch`: transfers and launches run. That someone launches again what ended is
  *not* the code's doing; it is the condition `GetsReady` is stated under.
- `TileGuard`: the thread goes on between preemptions. Resets are not bounded.

## 3. What is proved

The theorems hold for **every** value of the constants that satisfies the named
assumptions; TLC checks the assumptions on each instance.

**Attention.** `WindowSummedOnce` (`RunnerProofs`): in a ring with three slots to
spare over a window, each position of the window is summed exactly once. A ring
holds window + chunk slots, so `RingAssumption == Chunk >= 3` is what keeps the two
runs of a wrapped window out of each other's groups (the server's chunk is far
larger); with a chunk of one or two a position could be counted twice.
`LayersSumOnce` applies it to every layer of every layout.

**Scheduler.** `EngineProofs` proves `TypeCorrect` (`TypeOK`), `KvIsFaithful`
(`KvFaithful`), `TemplateIsExact` (`TemplateExact`), `BatchingIsInvisible`
(`SameAsAlone`) and `NeverPanics` (`NoPanic`); of jobs,
`JobsHaveOnePlace` (`OnePlace`), `FinishIsHonest` (`FinishHonest`),
`ReturnsDrained` (`DrainedOnReturn`), `EngineIsCompletions`, the refinement, and
`StreamingIsStable` (`StreamIsPrefix`) and `LeavingFlushes` (`FlushComplete`) of the
text a client receives.

The assumptions are `KvAssumption` (a sane layer layout: every shared layer has
a source of its type), `RunnerAssumption`, `RingAssumption`, `RowAssumption` (the
marks are no histories), `RequestAssumption` (prompts are not empty, `encode` adds
`<bos>`), `PieceAssumption` (every token stands for some bytes), `EngineAssumption`
and `BatchAssumption`: no decode step of up to `Batch`
rows crosses a threshold that a single row does not. The last is true of the
defaults (batch 8, thresholds 16) and is what the README's "byte-identical" rests
on; with `--batch 16`, or `FGM_WEIGHTS=auto:M` with `2 <= M <= batch`, it is false.

The argument, bottom up:

1. *Layout* (`RunnerProofs`). Positions closer than a layer's capacity have
   different slots (`SlotOfInjective`), and everything a row may attend to is
   closer than that to the last row of its batch (`ReadsLive`): the reason a ring
   holds window + chunk positions. Hence `ForwardHolds`: a forward on a cache
   that holds `h` reads no wrong row and leaves it holding `h \o e`. It also
   covers contexts shorter than window + chunk, where the ring never wraps.
   `ForkHolds`: `fork_from` copies enough, wrapped or not.
2. *Histories* (`RunnerProofs`). A chunk extends a partial prefill
   (`FullPrefillChunk`), and a prefix of whole chunks is prefilled the same way
   whatever follows (`FullPrefillShare`): the reason the share is floored to
   chunks. `AloneAppend`: a decoded row extends a lone run.
3. *Caches and tokens* (`EngineProofs`). `KvFaithful` is not inductive: a step
   needs to know that the token about to be fed is the right one and at which
   position. `IInv` adds, for each slot, `pos = prompt + |out_ids|` (one less
   between the emit loop and the forward, when the held token is already in
   `out_ids`), `|out_ids| <= max_tokens`, and `tok` as in `SameAsAlone`; for the job
   being admitted, that its cache holds the prefilled part, ending on a chunk
   boundary or with the prompt; the same for the template being built; and that
   every job in the channel fits the context. One lemma per action, `NextIInv`
   combines them, `Invariance` is the temporal step.
4. *Jobs* (`EngineProofs`). `JInv` adds where a job can be, in four places that never
   share one (`JobsInv`), that `Done` is the last event a job hears and tells the
   truth (`EventsInv`), what a returned engine left behind (`ReturnInv`), and that
   a slot between two steps still has room (`RoomInv`): without the last, "length"
   could be said of an answer that has reached neither bound. For the refinement
   each of `AdmitDone`, `BuildDone`, `Emit` and `Step` is shown to advance exactly
   the answers of the slots it moves (`InstallStarts`, `EmitGrows`, `StepGrows`)
   and every other action none.
5. *Text* (`EngineProofs`). The algorithm first: one more byte appends a character or
   nothing, or turns a last `Replacement` into the character it began (`LossyGrows`,
   by induction over the bytes), so the text of more tokens goes on where the text
   was, but for a last character that was not whole (`GoesOn`, `DecodeGrows`), and
   what `StableLen` counts never changes again (`StableGrows`). `StreamIsPrefix`
   speaks of what a client got, not of what its slot holds; `TextInv` connects the
   two: a slot's text is what its `out_ids` decode to, `sent` is the length of its
   stable part, the client has exactly that, and a request nobody decodes for has
   heard nothing. The exits of the emit loop differ in what they still send
   (`FinishSays`, `StopSays`, `AcceptSays`): a slot that ends at a token sends the
   rest, one that ends at a stop string what is left up to the match, and together
   they are `FlushComplete`.

**Speculation.** `SpeculateProofs` proves `TypeCorrect` (`TypeOK`),
`RejectedNeverRead` (`WindowIntact`) and `SpeculationUnseen` (`SameAsPlain`): the loop
with forced runs and drafts answers what the loop answers that feeds one token at a
time, for every model, prompt, constraint, layout and lookahead. The assumptions
besides those of the runner:

- `SpeculateAssumption`: context, forced runs and drafts have the sizes the bench
  gives them; prompts hold no padding token, which is what a walk past the call
  emits.
- `GrammarAssumption`: the grammars are constraints (`IsConstraint`: edges to states
  of their own, no way out of an accepting one, no end token forced). For what
  `build_with` and `compile` make of a tool set this is `CompiledIsSound`, below, as
  long as the end tokens are added tokens and no delimiters.
- `RowsAlike`, of the last two theorems: no forward of the loop crosses a threshold
  of rows that a single row does not. With `FGM_WEIGHTS` and `FGM_ROWBATCH` as they
  are by default it holds for drafts of up to 14; a draft of 15 breaks it, and the
  answer may differ (`MCSpecArith` in section 4).

`ForwardHolds` is about caches that hold everything a ring has slots for. After a
rejected draft that is false: the draft's rows have overwritten the oldest ones.
`Recent` asks only for the positions in the window of the next row, which is what
survives (a ring has window + chunk slots and a draft is no longer than a chunk), and
`CacheInv` says the cache is recent for the answer so far. `AnswerInv` says where the
plain loop is: after each iteration `out`, `tok` and `state` are those of one of its
iterations (`PlainAt`), a forced run or a draft being several of them, each row's
decision the same because its history is; or the loop has just fed a draft whose
accepted part completes the call, where the plain loop has no state left
(`PastTheCall`) and `SameAsPlain` allows the one token more.

**Grammars.** `BuilderProofs` (the pieces of an automaton) and `GrammarProofs` (the
whole, and decoding) prove `TypeCorrect` (`TypeOK`), `NeverStuck` (until the call is
complete the mask admits some token, so the argmax never falls back to token 0),
`CompiledIsSound`, and what the constraint is for: `MaskExact` (`MaskIsExact`: a token
is admitted exactly when some call of the tool set continues with it), `DoneRight`
(`DoneIsACall`), `RunForced` (`RunIsForced`) and `ReadBack` (`ParsesBack`: what was
decoded renders and parses to the call it stands for). They hold for every vocabulary
and every tool set it can spell:

- `VocabAssumption`: the delimiters are three added tokens, and each byte of the syntax
  (`{ } , : - .`, the space, `call:`, `true`, `false` and some digit) is the whole
  spelling of some token, as every printable ASCII character is in the tokenizer the
  program loads; that these bytes are not each other (no digit is a comma, `true`
  begins with no space); and that there are finitely many tokens.
- `ToolAssumption`: at least one tool, distinct names without `{`, enums that are not
  empty, names and values of bytes that are tokens, no parameter name that begins with a
  space. `build_with` checks none of these;
  with two tools of one name, or an empty enum, the assertion of `lit_to` may fail or a
  state be left without a token. A name of multi-byte characters is outside the
  theorem, since a lone byte of it need not be a token.
- `AllWords`, of the last four: the reference takes any string of string bytes and any
  non-empty run of digits. A reference cut off at a length, as in the runs, is the
  language of no automaton with a loop; there the bound on `idle` keeps TLC inside it.
- `Spells`, of `RunForced`: every digit and two string bytes are tokens of one byte. A
  run is forced when the mask admits a single token; in a vocabulary with only one
  string byte a string's content would be forced by the vocabulary, and
  calls that some other vocabulary spells would not continue with it.

- `Legible`, of `ReadBack`: the names a tool set uses are ones `parse_call` can tell
  apart. A tool's name is not empty and of letters, digits and `_` (grammar.rs:630); a
  key is not empty, holds no colon and has no space at its ends. Neither `build_with`
  nor its callers check this: a tool called `get-weather` is decoded and not read back.
  Of the syntax it asks that the first character of `<|"|>` does not come again in
  it and begins no number or literal, and that spaces are no digits, signs or commas.
  The instance of `tool_grammar` meets it.
- `Absent(TextOf(out), QuoteText)`, in `ReadBack`'s conclusion: the bytes of the call do
  not happen to spell the quote. It speaks of the quote alone: strings may spell the
  other delimiters and hold commas, colons and braces, and so may the members of an enum.
  `MCSpelt` (section 4) is the counterexample without it.

*No assertion, no dead end.* `GrammarBuilder` works by side effects on a growing list of
states, and calls itself
with closures (`maybe_space`). `Ok(b, d, open)` says what each call may rely on: edges
lead to states that exist, `d` alone accepts, and only the states in `open` may still
lack a way on. Each operation then has a lemma that says which state it fills and
which it leaves open (`Filled`, `Links`, `Sets`); an optional space fills one state with
what it has built from another (`JoinOk`). Two places need more. `lit_to` asserts that
its last edge is new, which for a closing `}` of a tool without parameters depends on
the names of all tools before it: `Trie` labels the shared states with the part of a
name that leads there, so an edge on `{` at the end of a name means the name was used
(`BraceStep`). And the members of an enum share prefixes, so the state after a member
may be one that goes on to another (`InsideStep`, `MemberOk`). At the end only the
accepting state is open, and a state with a way on has a token for it: a delimiter, or
the token whose spelling is that one byte (`LeadsSomewhere`).

*The language.* A function `R` gives each state the texts that lead from it to the
accepting state. `Reads` is what one row must satisfy: for each symbol, the language of
the state the row goes to is what the row's own language leaves behind that symbol
(`Goes` takes a literal edge before the exit of the class and the exit before the class,
as `Dfa::step` does). So an edge may hide another only if both lead to the same
texts. `Fit` joins this to `Ok`, and each operation extends `R` to the
states it makes and keeps it on those there were (`Work`, `Solved`). Loops ask for a
fixed point: the body of a string is a string byte and the body, or the quote, which is
no string byte (`StarIs`, `PastStar`); a run of digits must end on something that is no
digit. Shared prefixes ask for trees: a state inside the names of the tools or the
members of an enum has the rests of all words that pass through it (`TreeGrow`,
`TreeEnd`), whatever the order they were added in. An optional space copies edges from
one state to another, whose languages then join (`JoinMeans`). From these follow the
values of each type (`ValueMeans`), parameters (`ParamMeans`), tools (`ToolMeans`), and
what `build_with` accepts, which is the `Sentences` of the tool set (`BuildMeans`,
`SentencesAre`).

*From texts to tokens.* `compile` walks the spelling of each token from each state.
`After(S, w)` is what a set of texts leaves behind the beginning `w`; the walk ends in
a state whose language is that, and fails where nothing is left (`CompiledMeans`).
`InText` is the inductive invariant: the language of the current state is
`After(Sentences, text so far)`. None of the properties says it: they speak of one token
or of the end, and a step needs to know all that may still follow. A token is then
admitted when something is left behind it (`MaskIsExact`), and the call is complete when
the empty text is left (`DoneIsACall`). A forced run needs in addition that where one
token is admitted one *symbol* is possible, which is where the vocabulary comes in
(`Spells`).

*Reading back.* What is rendered is the text of what was emitted, each delimiter spelled
out (`RenderShows`), and a finished text is one of the `Sentences` (`DoneIsACall`). So
`parse_call` has to undo the sentences, piece by piece. First the operators on text:
`Find` returns the place where a text was joined to another, when the text
sought does not stand before it (`FindText`: whether a match may begin in
what comes before is why the quote must not repeat its first character), and `Trim` gives
back what spaces were put around (`TrimIs`). Then one round of the loop: what it cuts
off a key, a quoted value or a bare one (`KeyRead`, `QuotedRead`, `BareRead`), where a
bare value must pass `valid_scalar`, as every number and literal of the grammar does
(`BareValues`). `Reaches(text, i, st)` says that the loop, after `i` rounds, is in `st`;
the sentences add arguments at the end of a list and the loop takes them from its
beginning, so the induction is over `Takes`: the first `i` arguments of a call are read by
`i` rounds *whatever follows them* (`Follows`), be it the end, a comma, or a comma and a
space (`ListRead`). `CallRead` takes off the name, the braces and the delimiters.

**Tiles.** `TileProofs` proves `TypeCorrect` (`TypeOK`) and `ProductExact` (`Exact`)
under `TileAssumption`: for every shape of a product, panel width, number of k steps
and groups, terms up to `MaxTerm`, number of attempts and sequence of resets. Three
arguments meet:

- *Sums.* A reset tile that goes on counting holds a sum of some of its terms, below
  `SentMin` in absolute value, since `KB * MaxTerm < SentMin`; a tile that was not reset
  holds the sentinel plus all of them, above it. `TilesInv` says each tile is one or the
  other at every instruction, also when the operand tiles were lost between the loads
  and the products; what passes the check was therefore not reset.
- *Groups.* An int4 block adds up group by group. `GroupInv` says its cells hold the
  product of the groups drained so far, which a retry takes back by clearing.
- *The loop nest.* `BlockOK` says which blocks the loops can reach, in full row tiles
  and in the tail, and that none goes past the output; `AdvanceOK` that a step to the
  next block leaves no cell out. `DoneInv` says the cells passed are right or given up.

**Connections.** `ServerProofs` proves `ServerTypeCorrect` (`TypeOK`)
and `ResponsesWhole` (`ResponseWhole`). What is on a socket does not say what may
come next; `Flow` does, by counting a piece of the answer through the places it passes:
sent by the engine, in the channel, taken by the connection; `Done` is in the
channel only behind the last piece, once the engine has let go of the job.

**Launch.** `ServerProofs` also proves, of `Fetch`, `FetchTypeCorrect` (`FetchTypeOK`),
`Untruncated` (`NeverTruncated`) and `Unrepeated` (`NeverRefetched`) under `OneDownload`: at most
one launch downloads, others are offline. Nothing in the code ensures it (section
4). The invariant says that a transfer appends exactly where the partial file of
the wanted name ends (`Transfers`), that no two names share a file (`Names`),
that only a whole file gets as far as a rename (`Renames`), and that what was
transferred for a name is what its `.part` or its final file now holds (`Counted`): a
block transferred twice would be one the files do not hold twice.

**Pool.** `PoolProofs` proves `PoolTypeCorrect`, `PointersStayLive`
(`WithinCall`), `WorkersAccountedFor` (`NobodyLeftBehind`) and `PoolIsParallelFor`
(the refinement) for every number of threads and every set of jobs, under
`PoolAssumption`: a GEMM's columns are a multiple of 64. The arithmetic comes
first: `split_n`'s shares are consecutive (`SplitOrdered`) and leave nothing out
(`SplitCovers`), the pieces of a job partition its outputs (`WritesDisjoint`,
`WritesCover`). The invariant then says where workers can be given where the
caller is (`PhaseInv`), that the cell is the current call's from the store to the
return (`CellInv`), which share each working thread has (`ShareInv`), and that
exactly the pieces worked off have been written (`TallyInv`); the properties
alone are not inductive, as none of them says how far a thread has got.

**Recursive definitions.** A sum over the k loop, the text of a list of bytes, the
iterations of a decode loop are functions on `0 .. n` that name themselves. That they
exist is not free for a prover; `RunnerProofs` (and `TileProofs` and `GrammarProofs`,
which share no module with it) derive it: every set of naturals has a least element (`Least`, from the
library's well-foundedness of `<`), so a set that has 0 and each successor has all of
`0 .. n` (`UpTo`), so the equations of a function have a solution, whatever the step
(`Recursion`). Facts about such a function are sets of indices, shown full by `UpTo`.

**Only model-checked.** `WalkEnds`, which follows the walk of the tools mode to its end.
`WalkFrom` takes one step per state of the automaton, so the property says that the walk
never comes back to a state it has left. That needs an order on the states, kept by every
edit of the builder, which the theorems about the language do without; it is not proved
here. And liveness everywhere, which is out of the prover's reach.

## 4. Where the code and its documents disagree

Four are runs that must end in a violation; `PROJECT.json` quotes the lines.

- *One token short* (`length_cut_short`). `s.pos >= cfg.ctx - 1` (engine.rs:303)
  ends a completion whose prompt and max_tokens fill the context exactly, which
  admission accepts, one token before max_tokens.
- *Stop strings leak* (`stop_leaks`). A stop string spread over tokens has its
  first part streamed before the match is complete, although engine.rs:31 calls
  the text "already past every stop check".
- *A template of the same length is not replaced* (`share_not_rebuilt`).
  `share != covered` (engine.rs:222) compares lengths only. In the run a template of
  three tokens is built for one pair of prompts, and then the engine admits the second
  of a pair that shares three others.
- *A small context trips the ring assertion* (`small_ctx_ring`) of forward.rs:554
  in debug builds; nothing is overwritten, as `ForwardHolds` shows.

The others are kept as configurations to run by hand
(`tlc -config MCServTrunc.cfg MCServer`); each ends in the violation named. Where
a passing run rules the case out, the last column says how.

| configuration | property | what the code does | in the passing run |
|---|---|---|---|
| `MCServTrunc` | `TruncationIsTold` | When the engine dies, a stream (main.rs:301-303) ends with `data: [DONE]` and no finish_reason or error, though 298-299 says "Say so rather than returning a truncated 200" | `ResponseWhole` allows such an end, but never with a final chunk |
| `MCServDeath` | `DeathIsReported` | `panic = "abort"` (Cargo.toml:9): in release the engine's panic ends the process, and the reporting that engine.rs:34-36 relies on cannot be reached | state `aborted` |
| `MCServWrap` | `AdmittedFits` | `toks.len() + max_tokens` (main.rs:226) is usize arithmetic: with a `max_tokens` near 2^64 it wraps in release, and a request that exceeds the context is handed to the engine, though 229-231 says such a one is refused | no passing run claims it; `Fits`, by which `Engine` admits, is the comparison without the width |
| `MCFetchTwo` | `DestWhole` | Two launches append to one `.part`; fetch.rs:10-12 promises no file that "mmaps cleanly and produces nonsense" | one launch downloads; `OneDownload` in the theorems |
| `MCFetchNew` | `DestWhole` | A transfer resumed by its length (`-C -`, fetch.rs:75) after a new version appeared on the branch `main` (38) joins two versions | `NeverTruncated` counts blocks, not versions |
| `MCSpelt` | `ParsesBack` | A string may contain the characters of a delimiter spelled by ordinary tokens; `render` cannot tell them apart and the call comes back shorter or not at all (grammar.rs:33-34 calls escapes needless) | `StrByte` has the first and the last character of the quote, not the one between |
| `MCByteTok` | `NoControlBytes` | `load_vocab_bytes` returns the spelling `<0x00>` (grammar.rs:558 says "decoded bytes"), so every string admits byte tokens that decode to control characters | the byte token's spelling is no string byte |
| `MCSpecClose` | `StopsAtTheCall` | A draft that completes the call leaves nothing admitted; argmax of masked logits is token 0, which is emitted (main.rs:936-939, 1017), though 1006-1008 calls speculation "indistinguishable" | `OneMore` in `SameAsPlain` |
| `MCSpecArith` | `SameAsPlain` | A draft of 15 is verified by 16 rows, which take the int8 weights (forward.rs:57-60): another answer than one row at a time | `WeightRows` above the longest draft |
| `MCSpecRows` | `DraftFits` | `FGM_MTP_LOOKUP=16` fails the assertion on logit rows (forward.rs:396-401) | phase `panic`, which `SameAsPlain` lets pass |
| `MCTilePerm` | `PermissionFirst` | `FGM_BACKEND=amx` runs the probe's tile instructions before anyone asked for the permission (lib.rs:138-139 says it is needed once per thread) | phase `sigill` |
| `MCTileGiveUp` | `GuardedIsRight` | After `MAX_RETRY` attempts the kernel goes on with what the cells hold (amx_gemm.c:128-130 says a reset block is recomputed) | `Exact` sets those cells apart (`gaveUp`) |

Smaller ones met while reading: http.rs:12-14 says "One request at a time", but
main.rs:435-443 spawns a thread per connection and the engine decodes up to
`--batch` requests together; `FGM_NO_TILE_GUARD` is read only while nobody ran the
probe (amx_gemm.c:135, 223), which every `Runner` does before its first GEMM; and
a probe may come out clean on a host that loses tiles, after which products are
unguarded (`Exact` excludes it).

## 5. Not modelled

- *Numbers*: kernels, quantisation, scores and logits, outside the tile guard's
  integers. They appear as an opaque function of the history.
- *Tokenizer encode*: a pure function of a string over 262144 pieces, with no state
  or failure to interleave; the modules take token ids as given.
- *HTTP header syntax* and the text of frames; `Server` has their outcomes and order.
- *Weight file and packing layouts*: constant index maps, read through SIMD
  shuffles.
- *Model conversion, benchmark scripts*: offline or measurement only, no state the
  rest depends on. Of the bench, the genfile, tools and constrained loops are
  modelled, which have semantics of their own.
- In modelled parts: `forward_nolm`, the dump and profile switches and `FGM_KV4` of
  the runner (diagnostics, or not used by the server); a panic inside a pool kernel,
  which its callers' assertions rule out; what a host without AMX permission does
  beyond the signal.

## 6. Plan

What would come next, in order of importance:

1. Compose `Server` with `Engine` itself instead of what a connection sees of it,
   or show that `Engine` implements that view.
2. `Pool` with a kernel that panics, in both build profiles.
3. `Tokenizer::bpe` against a reference definition of merges.

# A TLA+ verification of flash-attention-cuda

The repository computes `O = softmax(QK^T / sqrt(d)) V` without ever storing a
row of scores: K and V are streamed in tiles past each query row, which keeps a
running maximum `m`, a normalizer `l` and an accumulator `acc`. It does so five
times over (CUDA, scalar C++, threaded C++, a decode step, Triton), with a
backward pass for two of them, a thread pool, and a language-model demo that
runs on the CPU code. The modules here model the parts where order, sharing and
boundaries decide whether the result is right, check them with TLC on small
instances, and prove the most important facts for all sizes with TLAPS.

## Inventory

| component | state it keeps | operations | who it talks to | hard behaviours | what makes it correct |
|---|---|---|---|---|---|
| thread pool, `src/parallel.cpp` | mutex, two condition variables, `job*`, `next`, `active`, `epoch`, `stop`; per worker `seen` | constructor, `worker_loop`, `drain`, `run`, `parallel_for`, destructor | called by the fast CPU forward and by `matvec` of the demo; calls back `fn` | every interleaving of caller and workers, lost and spurious wakeups, late workers of an earlier job, shutdown | each index reaches `fn` exactly once; `fn` is not used after the call returned; the call returns; the destructor ends |
| GPU forward, `src/flash_fwd.cu` | shared tiles `Ks`, `Vs`; registers `q`, `acc`, `m`, `l` per thread | cooperative load, two barriers per tile, half dot product, warp shuffle, fold, store | launched by `flash_forward` on a stream; called by the PyTorch binding and the tests | warps run freely between barriers; dead rows; partial tiles; causal masking without divergence | no race on the tiles; no barrier or shuffle waits for ever; each live row stored is the reference softmax |
| GPU backward, `src/flash_bwd.cu` | as above, and the scratch `D` | `bwd_dot`, `dq`, `dkv` kernels, host function | reads the forward's `O` and `lse`; host enqueues three kernels and frees `D` | the same, and the order of kernels on a stream | gradients over exactly the visible pairs; `D` complete before it is read, alive until it has been |
| tiled CPU forward, `src/flash_cpu.cpp` | buffers `p`, `acc`; `m`, `l`; loop counters | one call, loops over heads, rows, tiles | the CPU binding, the tests | buffers reused across tiles and rows, the tile on the diagonal | every row is the reference softmax |
| fast CPU forward, `src/flash_cpu_fast.cpp` | per unit, on the stack: `m`, `l`, `acc` of 8 rows | `attention_flash_fast`, `process_tile` | `parallel_for`; the demo's prefill | threads share `O`; partial units | units share no row; every row is the reference softmax |
| decode step and demo, `edge/story.cpp` | KV cache, run state, position; the tokens being merged | `encode`, `prefill`, `decode`, the generation loop, `print`, loaders | `attention_flash_fast`, `attention_step_cpu`, `parallel_for` | merges by score in a sequence being edited, byte fallback; cache filled by two paths with two layouts, bounds at `seq_len` | printing undoes encoding; a position is written, in every layer, before it is read; the loop stays inside the cache |
| CPU backward, `src/flash_cpu_bwd.cpp` | `dQ`, `dK`, `dV` being accumulated | one call | the CPU binding | dK and dV accumulate across rows | each visible pair contributes once |
| references, `src/reference*.cpp` | none | two-pass softmax and its gradient in double | the tests | none | they are the definition |
| PyTorch operator, `pytorch/`, with a CUDA and a CPU binding | tensors saved for backward, two loaded extensions | dispatch by device, contract checks, forward, backward | the kernels, the current stream, torch's allocator; the CPU functions | memory dropped while kernels that use it are enqueued; launches that fail | backward sees the `O` and `lse` of its forward; what is accepted can be launched |
| Triton forward, `triton/` | `m_i`, `l_i`, `acc` of a tile of rows per program | one kernel over a grid, launched once per configuration by the tuner | torch tensors | minus infinity less minus infinity, masked loads and stores, launches that overwrite each other's result | no NaN; every row stored is the reference softmax, none is missing |

The tests, benchmarks, figure tools, notebook, docs and build files keep no
state of the program; they are listed in `PROJECT.json` and not modelled.

## Modules

| module | models | notes |
|---|---|---|
| `Chunking` | the arithmetic of the split in `parallel_for` and `drain` | used by `Pool` and `FlashFast` |
| `ParallelFor` | what `parallel.h` promises its callers | abstract specification |
| `Pool` | the thread pool, step by step | implements `ParallelFor` |
| `PoolInvariant` | the inductive invariant of `Pool` | named parts |
| `PoolProofs` | the theorems on `Pool` | |
| `Softmax` | weights, rescaling, visibility; a correct row as `reference.cpp` defines it | no state |
| `OperatorProofs` | facts about `Chunking` and `Softmax` the other proofs use | |
| `OnlineSoftmax` | a row that folds keys in portions and stores once | abstract specification |
| `Scores` | the heads, rows and scores of the three modules below that hold whole tensors | no state |
| `FlashFwd` | one thread block of `flash_fwd_kernel` | its threads implement `OnlineSoftmax` |
| `FlashCpu` | `attention_flash_cpu` | its rows implement `OnlineSoftmax` |
| `FlashFast` | `attention_flash_fast` and `process_tile` on the pool's threads | uses `Chunking` for the hand-out, implements `ParallelFor` |
| `FlashTriton` | the grid of `_fwd_kernel` and the tuner's launches | its rows implement `OnlineSoftmax` |
| `FlashFwdProofs`, `FlashFastProofs`, `TileProofs` | their theorems, in `TileProofs` those of `FlashCpu` and `FlashTriton` | |
| `Gradients` | gradients as sums of rows, after `reference_bwd.cpp` | no state |
| `GradientSum` | `attention_backward_reference` as a process | abstract specification |
| `FlashCpuBwd` | `attention_flash_cpu_bwd` | implements `GradientSum` |
| `FlashBwd` | one thread block of `flash_bwd_dq_kernel` or `flash_bwd_dkv_kernel` | its result is that of `Gradients` |
| `BackwardProofs` | the theorems on `FlashCpuBwd` and `FlashBwd` | |
| `Autograd` | `_FlashAttention`, its bindings, `flash_forward` and `flash_backward` on the host, streams and memory | calls interleave |
| `AutogradProofs` | its theorems | |
| `Tokenizer` | `Tokenizer::encode` and `print` | pure, except that its loops are actions of `Story` |
| `Story` | `main` of `story.cpp` from the prompt to the last token: `encode`, `prefill`, `decode`, `attention_step_cpu`, the loop | uses `Softmax`, `Tokenizer` |
| `StoryProofs` | the theorems on `Story` | |
| `MCPool`, `MCFlashFwd`, `MCFlashTriton`, `MCFlashCpu`, `MCFlashFast`, `MCFlashCpuBwd`, `MCFlashBwd`, `MCAutograd`, `MCStory` | values of constants for TLC | |

`FlashCpu` and `FlashTriton` differ in the names of what both have (`GridInit`,
`GridSpec`, `Out` for the tensor O), and so do `FlashCpuBwd` and `FlashBwd`
(`BlockInit`, `BlockSpec`), because one module proves about both.

Operators marked as mutants in a comment are deliberate errors, used to see
that each property notices one; nothing else refers to them.

### The thread pool

One action of `Pool` is one entry into a critical section, one group of accesses
under the mutex, one atomic read-modify-write, or one unsynchronized access. The
`pc` values are listed at the head of the module with the code each stands for.
A condition variable is a set of threads: those whose `pc` says they are blocked;
notification moves them to the point where they reacquire the mutex, and a
spurious wakeup is an action that may always happen and never has to. `drain`
reads the job's fields without the mutex, and so does the model: at the time the
thread executes that line. The history variable `hits` counts how often `fn` got
each index during a call.

One thread calls `parallel_for`, as everywhere in the repository (the demo and
the fast forward call it from the main thread, and no `fn` calls it again): a
second caller would share `job` with the first, which the code does not support
and the model does not contain. The initialization of the pool, a function-local
static, happens on the first call. `FLASH_CPU_THREADS` and the number of cores
are the size of `Workers`.

### Softmax arithmetic

Scores are integers. A sum of exponentials is the *set of its terms*, each a key
and an exponent; multiplying by `exp(d)` adds `d` to every exponent, and a term
whose exponent falls below `-Under` vanishes, as `exp` underflows to 0 in float.
So a result is correct in the model if it has exactly the right keys, each with
the right weight relative to the true maximum, in numerator and denominator.
That separates what an algorithm can get wrong (a missing key, a history not
rescaled, a masked key that counts, a stale buffer) from rounding, which is not
modelled. The sentinel `-1e30` is a number far below all scores, and the
assumption is just that: `exp(-1e30 - s)` is 0 for every score `s`.
Infinite and NaN inputs are outside it.

### The GPU forward kernel

`FlashFwd` has one `pc` per thread. Between barriers and shuffles the threads
take steps in any order, also two threads of a warp, which is more freedom than
the hardware of the older architectures has and what it has since Volta. A
thread copies one `float4` of K and of V per step; the chunk number stored in a
slot says which row's chunk it is, so a stale or missing chunk is visible, and a
dot product of halves that do not belong to the same key gives `Garbage`. The
barrier does not know which of the two `__syncthreads()` a thread waits at: that
they never mix is a property (`Converge`), not an assumption. The shuffle
requires the whole warp, as its full mask does. `HEAD_DIM` is a number of
`float4`s; a launch is any of the constant `Calls` (`seq`, causal, `lse` wanted)
and any block of its grid.

### The Triton kernel

A Triton program works on whole tiles, so `FlashTriton` takes a step per tile of
a program and one per store, programs in any order: within a program the
compiler keeps the order of the source. What differs from the CUDA kernel is in
the model as it is in the source. The initial maximum and masked scores are
`-inf`, so `Max2`, `ExpOf` and `Scaled` spell out what the three operations of
the recurrence do with it, and a NaN is a term (`Broken`) that stays in every sum
it enters. Loads are masked to 0, scores to `-inf`, so a key beyond the end has to
vanish twice, in `l_i` and in `acc`. `Out` (the kernel's O) and `Lse` are arrays over all heads,
with room behind them, so that a store that is not masked shows. Before the
launch that counts, the autotuner runs all its configurations, in any order, on
the same output.

### The CPU forwards

`FlashCpu` walks through heads, rows and tiles; a tile is one step because
nothing runs beside it. The buffer `p` keeps its content from tile to tile and
starts with `Junk`. `FlashFast` takes a step per key, row, tile and stored row,
on several threads at once; `O` is one array, addressed as in the code by
`head * seq + row`, so a row of the wrong head shows. The chunks come from
`Chunking`; that the pool really hands out each of them once, and returns after
the last, is what `Pool` is checked and proved for; that `FlashFast` hands them
out no more freely than `parallel_for` promises is its property
`ImplementsParallelFor`, the same abstract specification `Pool` implements.

### The backward passes

A gradient row is a sum: dQ of a query over the keys it sees, dK and dV of a key
over the queries that see it. The model keeps the sequence of the rows whose
terms were added, in the order of the additions, because float addition depends
on it; `s`, `p`, `dp` and `ds` are functions of a pair of rows. dK and dV receive
the same terms at the same time and are one variable, `dKV`.

`GradientSum` is the loop nest of the reference. `FlashCpuBwd` is that of the
tiled code with its two breaks, one action per key, tile, row and head; it
accumulates in place, so that a key's sum is complete only after its last query
row. Skipped tiles and the masked rest of a tile are stuttering steps of the
reference: its key counter is `Progress`, which does not count them.

The two GPU kernels are one module because they run one schedule with the roles
exchanged: a pair of threads per owned row, streamed rows staged between two
barriers, shuffles that join two half dot products, registers stored at the end.
`dq` owns queries and stops early under a causal mask, `dkv` owns keys, starts
late (`t_start`), and stages `lse` and `D` with the tile by a loop of its own
(`LoadStats`). A masked term is zero and so left out, as `exp(-1e30 - L)`
is exactly 0; that a term is there therefore depends on the mask, on which tile
and which `lse` and `D` the thread found in shared memory, and on its partner.

### The operator and the host functions

`Autograd` puts the host on one side and streams on the other. Host steps
allocate memory, enqueue kernels and drop tensors; `Run(s)` executes the oldest
kernel of stream `s` at any later time. A block of memory holds one value,
tagged with the call and the tensor it was computed for, and a kernel that
reads anything else computes `Wrong`. Memory dropped by torch goes back to the
cache of its stream at once, also under kernels not yet run, which is how torch's
allocator works and what the binding relies on when its contiguous copies go out
of scope; memory of `cudaMalloc` comes from what no cache holds. The scratch
buffer `D` is the exception: it is freed with `cudaFree`, which waits for the
device (`Awaits`), as the comment in `flash_backward` says. Every call is on a
thread of its own with its own current stream, and a call's tensors stay on it;
its q, k and v are dense or need a copy to be contiguous, and so is the gradient
autograd passes to `backward`. Each copy is a step of its own (`Contiguous`):
those of q, k and v in both directions, and that of the gradient, which lives
until autograd drops it. The binding's copies of O, lse and dO do nothing, these
being contiguous already. Torch's allocator, autograd and the
CUDA runtime are modelled from how this code uses them and marked external in
the map. `dq` and `dkv`, launched together with the same inputs, are one kernel.

What a call is given (`input`) decides where it goes. Tensors on the CPU are
dispatched to the other extension, which computes before it returns and takes no
device memory. What `check_contract` refuses ends in an exception and the call's
memory goes back. What it accepts may have no elements, or more heads than a grid
has blocks in `y`: then the launch fails, and `CUDA_CHECK` ends the program with
every other call in it (`FailLaunch`).

Memory may run out at any of these steps. Torch then waits for the device and
gives its caches back (`EmptyCaches`); when it has none, it raises an exception,
which ends this call, whose tensors are dropped, and no other (`Raise`). The
`cudaMalloc` of `flash_backward` knows nothing of the caches and ends the program
(`Exit`).

### The demo

In `Story` the arithmetic of a layer is symbolic: the state of a position is the
record of its token and of the attention results put into it, and a head's q, k
and v rows are the record of the layer, the position and that state. So two logits are
equal exactly if they were computed from the same text in the same way. K and V
are written and read at the same places, so one array `cache` of head-sized
slots stands for both; `prefill` and `decode` address it by `kv_dim`, while
`attention_step_cpu` strides by `n_heads * head_dim`, each as in its source.
`prefill`'s attention is the result `FlashFast` is checked for; the steps of
`attention_step_cpu`, one per key, are the module's own. Sampling takes any
token. The prompt is assumed to fit `seq_len`, which the program does not check.

`Tokenizer` keeps what decides about tokens: a text is a sequence of bytes, a
piece is one too, with the six characters of a byte token's piece as one symbol.
`encode` is two loops in `Story`, one step per codepoint and one per merge; the
rule for the pair merged next, highest score and leftmost of those, is
`BestPair`, and a score must exceed the source's `-1e10` (`Floor`) to count. `print` takes the two rules the code has, the space dropped after BOS
and the byte of a byte token, and `TextPrinted` says that together they give back
what was typed.

## Runs

| run | instance | shows |
|---|---|---|
| `pool_safety` | 3 workers (symmetric), n up to 5, min_chunk 0 or 2, 2 calls, then the destructor | exactly-once, no overlap, `fn` alive while used, counters, no lost wakeup, the published job stable while in use, refinement of `ParallelFor` |
| `pool_liveness` | 2 workers, fair threads | calls return, shutdown completes |
| `fwd_block` | 4 rows per block, 2 keys per tile (2:1 as in the source), 2 warps of 4 threads, 3 or 5 rows | no race on the tiles, only the copied keys used, convergence, correct rows and no others, refinement of `OnlineSoftmax`, termination |
| `triton_grid` | 2 heads, up to 5 rows, blocks of 4 by 2 and 3 by 3, with and without tuning | correct rows, none lost, no NaN, refinement of `OnlineSoftmax` |
| `cpu_rows` | 2 heads, up to 7 rows, 3 keys per tile | correct rows, refinement of `OnlineSoftmax` |
| `fast_units` | 3 threads (symmetric), 2 heads, up to 5 rows, units of 2 rows, tiles of 3 keys | race freedom, correct rows, refinement of `ParallelFor` |
| `bwd_block` | 4 rows per block, 2 per tile (2:1 as in the source), 2 warps, up to 5 rows, both kernels | no race on the tiles or on `lse` and `D`, convergence, gradients equal to the reference's sums in order |
| `bwd_rows` | 2 heads, up to 7 rows, 3 keys per tile | sums exact after every step, refinement of `GradientSum` |
| `autograd_streams` | 2 calls (symmetric) of any six kinds of input, gradients dense or strided, 1 or 2 streams in use (symmetric), 7 blocks of memory | no block with two owners or none, pending kernels keep their memory, gradients are those of the call |
| `story` | 2 layers, 2 heads, context of 6, all texts of up to 3 bytes, all samples, up to 3 steps | cache layout, each token sampled from the logits of the text so far, the output is what was typed and then what was sampled |
| `story_grouped` | the same with 1 K/V head | a violation, see below |
| `operator_shapes` | as `autograd_streams` | a violation, see below |

All but `story_grouped` and `operator_shapes` pass.

`story_grouped` shows a disagreement between two parts of the repository.
`src/src/attention.h:56-58` documents the caches of `attention_step_cpu` as
`[n_keys][n_heads*head_dim]`; `story.cpp` allocates and fills them with rows of
`kv_dim = n_kv_heads * head_dim` (lines 251, 380, 414) and reads `n_kv_heads`
from the checkpoint without requiring that it equals `n_heads`. With fewer K/V
heads the function reads the next position's row for the heads beyond them, and
at the last positions reads beyond the layer. With equal counts, as in the
checkpoints the demo names, the layouts coincide, which is the run `story`.

`operator_shapes` shows that the binding does not do what the head of
`src/pytorch/binding.cpp` says, "Validates the contract the kernels assume": its
`check_contract` lets tensors without rows, batches or heads pass, and tensors
with more than 65535 heads in all. The grid of `flash_fwd.cu:146` is then not one
CUDA can launch, and `CUDA_CHECK` calls `exit(1)`: the Python process ends, where
a refused contract raises an exception and the CPU binding returns a result.

Why the bounds suffice for what they are meant to show: two jobs are enough for a
worker to be late for one while the next is published, and three workers for two
of them to be in different jobs while a third sleeps; `n` up to 5 with 4 threads
gives inline calls, fewer chunks than threads, a rounded chunk length and a short
last chunk. For the kernels, three and five rows in blocks of four with tiles of
two reach: a tile reused by the next one, a partial tile, a block with a dead row,
whole tiles above the diagonal, and a tile crossing it. Scores rise, fall and tie
along every row, and differ by more than `Under` in places, so that terms vanish.
TLC's instances have eight threads per block, in pairs: a block in the source has
128, all of them alike. The Triton instance has a configuration whose tiles of
keys are half as tall as those of rows, so that one is masked whole for the first
rows, and one where neither divides the number of rows.

For the operator, seven blocks are few enough for memory to be reused between the
calls, for torch's caches to have to be emptied, for a call to run out of memory
and for the program to, and enough for both calls to be in flight; one with copies
of everything needs all seven, one with none five. In the
demo, texts of three bytes become one to five tokens, by merges that compete, tie
and follow from each other, by byte tokens, and from codepoints cut short; a
context of six positions lets generation start with anything between five free
positions and one, and end by each of its three conditions.

Deadlock is checked in every run; the `Finished` actions say where the program
may stop.

### Fairness

In `Pool`, each thread's step is weakly fair (the operating system runs every
runnable thread), and the acquisition of the mutex strongly fair per thread (a
thread that keeps asking for the mutex gets it at some time). Spurious wakeups
are not required to happen. `FlashFwd` assumes only that the block goes on while
it can (`WF_vars(Next)`), not that each of its threads does: every step advances a
counter, so a block that does not end is one that is stuck, at a barrier or a
shuffle, or one whose tile loop does not advance. The other modules state no liveness property
and assume no fairness.

## Proofs

All theorems hold for every value of the constants that satisfies the module's
named assumptions; nothing else is assumed. Those are sizes (positive, finite, a
warp of whole pairs of threads, an even number of `float4` per row), scores far enough above the sentinel `-1e30` for
`exp` of the difference to be 0 (`SentinelIsLow`, or a conjunct of the module's
assumption), that the mark for an element of an output nobody has written is not
itself a result (`NotStoredIsNoResult`, in four modules), and, in `Story`, that
prompts fit the context (`PromptsFit`). The theorems on `Story` have hypotheses
beside the assumptions. Those on the cache have `Supported`: as many K/V heads as
heads, without which `story_grouped` shows them to be false, and scores above the
sentinel. Those on the text have `Vocabulary`, what the encoder asks of a
tokenizer's file and no code checks: a token for the space, the byte tokens in
their places, and BOS, whose piece no text has, out of reach of a merge. TLC
evaluates it on the instance.

* `OperatorProofs`: for every `n`, `min_chunk` and number of threads, the chunks
  of `parallel_for` are nonempty, lie within `[0, n)`, are disjoint and cover it.
  Rescaling by `exp(m - mn)` turns weights relative to `m` into weights relative
  to `mn`, underflow included (`DecayWeights`); hence what one key does to the
  registers of a row: the first one (`FoldFirst`), a further visible one
  (`FoldOneMore`), and a masked one, which leaves no trace (`FoldMasked`). Beside
  that, the arithmetic of tiles and array indexes: quotients are unique
  (`DivUnique`, `Quotient`, `TileOf`), numbers with the same remainder are apart
  by the stride (`StrideRemainder`), `x * b + y` determines `x` and `y`
  (`StrideUnique`, `IndexOf`). Where a proof goes through the elements of a range
  one by one, it does so by the least counterexample (`LeastNat`, `UpTo`), since
  the library's induction is out of reach; so a finite set has a greatest element
  (`GreatestOf`, `GreatestIn`).
* `PoolProofs`: every safety property of `pool_safety` for any number of workers
  and calls, and `Spec => ImplementsParallelFor`. The invariant is `Inductive` of
  `PoolInvariant`. Exactly-once alone is not inductive: one needs to know which
  chunks are claimed (`Claims`, `Holder`: below `next` each is either held by one
  thread or done), that `next` belongs to the current job, hence that no worker
  still drains an older one when it is reset (`Serving`, `Handshake`: `active`
  counts the workers that have not reported, and the caller waits for 0), that
  the job's fields do not change under a worker that reads them unlocked
  (`Published`), and that a blocked worker has nothing to do (`Awake`).
* `FlashFwdProofs`: for any block shape, warp size, head dimension, sequence and
  scores above the sentinel, a block of `flash_fwd_kernel` never races for a tile
  (`NoTileRace`), never waits at a shuffle or barrier for a thread that went
  elsewhere (`Converge`), stores the reference softmax of its live rows and
  nothing else (`RowsCorrect`), and each of its threads implements
  `OnlineSoftmax`. The invariant is in two layers. `Control` says the schedule:
  the block is in one phase of one tile, all copying it, all using it, or all
  past the last one (`InPhase`), which `Converge` alone does not tell; threads of
  a warp have taken part in equally many shuffles (`InWarp`); of the strided copy
  the slots below a thread's index are the current tile, so after the first
  barrier all of them are (`Copies`); between the two halves of a shuffle `part`
  is one half of the dot product, after it both (`Dots`). On top of it, `Running`:
  the registers of a live row are the softmax state of the visible keys before
  its position; and `Output`: an element of `O` is stored exactly when its thread
  is done. The proof goes through the actions with `Control` first, and only
  `Fold` needs the lemmas on weights.
* `FlashFastProofs`: for any number of threads, heads, rows and keys and any block
  sizes, `attention_flash_fast` never has two threads at units with a row in
  common (`NoSharedRow`), stores the reference softmax of every row and of all of
  them by the time it returns (`RowsCorrect`), and implements `ParallelFor` as
  its caller knows it. The invariant: a chunk that was handed out has at most one
  thread (`Handed`), which with `StrideUnique` and `ChunksDisjoint` keeps rows
  apart; loop counters are within the unit, clipped at the end of the head
  (`Counters`); each row register is the softmax state of the keys its row has
  been through, which differ from row to row of a unit (`Running`); whatever is
  stored is right (`Correct`); and units behind a thread, and those of a chunk
  nobody has any more, are stored (`Progress`), from which completeness at the
  return follows.
* `TileProofs`, first half: for any number of heads and rows, any tile size and all
  scores above the sentinel, `attention_flash_cpu` stores the reference softmax
  of every row, and implements `OnlineSoftmax` on each. The invariant adds to
  `RowsCorrect` what holds in the middle of a row (`Running`): `m` is the maximum
  of the keys before `j0`, `l` and `acc` are their weights relative to it, and at
  the start of a row there is nothing; plus the shape of `O`. `TileStep` is the
  heart: the tile's maximum is a visible score because the tile has a visible
  key, so masked scores vanish, and the decayed history joins the new weights.
* `TileProofs`, second half: for any set of block sizes, heads, rows and scores,
  in any order of the programs and of the tuner's launches, every element of O
  and Lse that is written is right and of its own row and head, all are when a
  launch is over, and no NaN arises anywhere (`GridRowsCorrect`, `GridTypeOK`);
  within a launch each row implements `OnlineSoftmax`. The invariant: before a
  program's first tile a lane holds `-inf` and nothing; after it, a number and the
  statistics of the visible keys so far. It holds because the first tile has key
  0, which no row masks, and so `-inf` less `-inf` is never taken; a later tile
  that is masked whole leaves the number as it is. What a
  launch finds in the output is what an earlier one left, also right, or nothing.
* `BackwardProofs`, first half: for any number of heads and rows and any tile
  size, the CPU backward stays within its arrays, holds after every step exactly
  the terms of the pairs behind its loops, in order, and implements the reference.
  `SumsExact` needs little to be inductive: types, and that the tile and key
  counters are 0 between rows (`AtStart`), so that the next head starts from
  nothing. The lemmas are that `Shape::row` never maps two rows to one index
  (`RowInjective`), which keeps one row's step from touching another's sum; that
  a skipped tile and the masked rest of one leave `Progress` alone
  (`TileProgress`); and that a row is left only after its last key
  (`RowProgress`).
* `BackwardProofs`, second half: for any block shape, warp size, head dimension
  and sequence, a block of either backward kernel does not race for a tile or for
  `lse` and `D` (`NoTileRace`), never waits at a shuffle or barrier for a thread
  that went elsewhere (`Converge`), and stores for its own live rows the sums of
  the reference in ascending order (`GradientsCorrect`). `Control` is the schedule
  as in `FlashFwdProofs`, with the two copy loops of `dkv`: after the first barrier
  both the tile and its rows of `lse` and `D` are the current ones although
  different threads copied them. `Running`: the registers of a row hold the
  visible streamed rows before its position. That nothing is lost before `t_start`
  or after `kv_end` is in `Running` at the first tile and in `Output` after the
  last.
* `StoryProofs`: for any number of layers, heads, positions, any prompt that fits
  and any samples, the demo's one pass over each position amounts to evaluating
  the whole text for every token. `SampledFromText` alone says nothing about the
  cache, and `CacheLayout` nothing about the layers ahead. The invariant says that
  between tokens every layer of the cache holds the rows of the whole text
  (`Ready`), that `prefill` and `decode` extend it layer by layer, the layers
  behind by the position in progress (`Prefilled`, `Decoded`), and that inside
  `attention_step_cpu` the heads behind are done and the current one has the
  softmax statistics of the keys before `t` (`Attended`). It rests on two facts:
  a layer's result at a position depends on no later position (`Causal`), so a
  token more changes nothing that is cached, and the slots of different layers,
  positions and heads are different (`SlotIndex`, `Written`). `Evaluated` is a
  recursive function, whose existence has to be proved first (`EvaluatedBy`).
  For any text, vocabulary and scores, the prompt is printed back byte for byte
  (`TextPrinted`). The invariant, `TextInv`, is about printing and not about
  tokens: at every point of `encode` the tokens behind BOS print what has been
  taken of the text (`Spells`), and later the output is what was typed with what
  the tokens generated since print (`Says`). A codepoint adds itself
  (`CodepointSaid`) because it never comes first, where BOS would strip a space;
  that is what the space put first is for. A merge changes nothing
  (`MergeSaid`), whichever pair it takes, because a piece of two others is no byte
  token's and its leading space, if it comes first, is that of its left part
  (`MergedOutput`). Both rest on `OutputsConcat`: what tokens print depends on the
  one before them only.
* `AutogradProofs`: for any number of calls, streams and blocks of memory, blocks
  have one owner and none is lost (`TypeOK`), a kernel yet to run keeps its
  memory (`MemoryKept`), and the gradients a call returns are those of its own
  inputs (`GradsCorrect`). `MemoryKept` is not inductive: that a free in the cache
  of a stream is harmless depends on who frees. `Owned` says which tensors a call
  has at each point of its path; `Homes`, that what a queued kernel uses belongs
  to a call of its stream or is in that stream's cache; `Waited`, that while a
  call waits in `cudaFree` the kernels that use its `D` are among those it waits
  for. The values need an argument about the future of a queue: `Finds(q, m, b, i,
  v)` says the `i`-th kernel of `q` will find `v` in block `b`, because the last
  earlier kernel to write `b` leaves it there, or memory has it already and none
  will write. The invariant is that every queued kernel will find what it was
  launched for (`Fed`), and so would one launched next (`Filled`); a block taken
  again in the same stream is only written behind all its readers, and one that
  returns to the driver has none. All steps of a call go through one lemma,
  `Stepped`, on what a step may take, drop and append, most of them by way of
  `ComputeStep`, one block taken and one kernel enqueued; `RunStep` is the other
  side, the kernel at the head of a queue.

Model-checked only: liveness (`CallReturns`, `ShutdownCompletes`, `Terminates` of
`FlashFwd`), which this prover does not do.

## Not modelled, and why

Floating-point rounding and the NEON helpers (no numerics in TLA+); weak memory
(the pool's unlocked reads are ordered by the mutex and by `next`, and the model
is sequentially consistent); the file formats of the checkpoint and the
tokenizer, which loaders read once, and the arithmetic of a transformer layer;
the sampling rule, of which only that it yields some token matters here; timing;
several callers of the pool at once (the code does not support it and nobody does
it); the compilation and loading of the two extensions; the schedule the Triton
compiler chooses inside a program; a prompt longer than the context of the demo,
which the program does not detect either. `flash_bwd.cu:238-240` announces that
the scratch buffer will be held by torch's allocator; as it is, a call can end the
program for want of memory that torch has cached (`Exit` of `Autograd`), which is
in the model and no property. The tests, the benchmarks and their helpers, the
build, the docs, the notebook and the figure tools keep no state of the program.

## Plan

1. Done, the model: `Chunking`, `ParallelFor`, `Pool`; `Softmax`, `OnlineSoftmax`,
   `FlashFwd`, `FlashCpu`, `FlashFast`, `FlashTriton`; `Gradients`, `GradientSum`,
   `FlashCpuBwd`, `FlashBwd`; `Autograd` with both bindings; `Tokenizer`, `Story`.
2. Done, the proofs: `OperatorProofs`, `PoolProofs`, `FlashFwdProofs`,
   `FlashFastProofs`, `TileProofs`, `BackwardProofs`, `AutogradProofs`,
   `StoryProofs`.
3. Open, the proofs: nothing that is safety and this prover's.
4. Open, the model: prompts that do not fit the context, once the program says
   what it does with them; a property for the scratch buffer, once it is torch's.

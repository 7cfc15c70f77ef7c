# Verification of the gfx1030 patches for vLLM

The repository replaces files of a prebuilt vLLM 0.26 image so that 4-bit AWQ
models run fast on RDNA2 cards (gfx1030). What it owns is a handful of GPU
kernels with their Python wrappers, tables of tuned configurations, a
monkey patch, the requantisation that makes the model, and scripts that deploy,
gate and measure. This directory holds TLA+ models of that logic, TLC
configurations that check them on small instances, and proofs checked by TLAPS.

Paths below are relative to `src/`.

## The system

| Component | Files | State it keeps | Operations |
|---|---|---|---|
| K-split decode GEMV | `patches/awq_triton.py` 401-566 | `_SPLITK_PARTIALS`: key (N, split, device) to scratch buffer; the buffers' contents; the stream of launched kernels | `_splitk_partials`, `awq_gemv_splitk_triton`, the GEMV and the reduce kernel; capture and replay of graphs by the caller |
| AWQ dispatch | 702-936 | none; tables by (N, K) and M | gate, tables, fallbacks, asserts of `awq_gemm_triton` |
| AWQ product kernels | 112-310, 405-496 | accumulators of the programs, planes of the result | the K loops, stores, final sums |
| AWQ dequantisation | 15-109, 316-362 | none | one program for each tile |
| Fused K-split GEMV (rung 17) | 569-694 | the fp16 output that is added to | atomic adds; not used by the dispatch |
| Paged attention | `patches/chunked_prefill_paged_decode.py` | KV cache and block table (read), output rows | wrapper, `kernel_paged_attention_2d` |
| Gemma RMSNorm patch | `patches/rmsnorm_gfx1030.py` | `_ORIG_FORWARD_NATIVE`, `_PATCHED`, two methods of a vLLM class | `apply_patch`, `_fused_forward` |
| Unquantised GEMM routing | `patches/utils.py` | the cached `_on_gfx1030` | `rocm_unquantized_gemm_impl` and its fallbacks |
| Requantisation | `requant/quant.py`, `run-quant.sh` | weights, norm weights, saved shards | scaling, quantising, compensation, storage fix, save |
| Deployment | `deploy/` | model directory, container, where the script is | download, start, poll; restarts by the daemon, pulls by hand |
| Sweeps and gates | `gates/` | candidates left, best so far, winners, log of calls | launch, compare, time, select, add up; record and divide calls |
| Profiling | `profiling/` | recorded kernel traces | cut a trace into decode steps |
| Benchmarks | `benches/` | none | timing only |

How they interact: vLLM calls `awq_gemm_triton` for each quantised layer. One row
(decode) goes to the K-split GEMV, whose two kernels communicate through a
buffer that outlives the call and is shared by all calls with the same key;
decode steps are captured once as graphs and replayed, so the addresses of these
buffers are fixed in them. More rows go to the tiled GEMM. Attention layers call
`chunked_prefill_paged_decode` once for a batch that mixes prefills and
decodes; it launches two kernels that write different rows of one output. The
host never waits for the device between these launches.

What is hard here: the host runs ahead of the device (memory that the host gives
up or hands out again is still in use by queued kernels); the programs of one
kernel run in any order; tiles that do not divide what they tile (K, groups,
cache blocks, heads); tables tuned for one model that serve any model; a running
softmax; steps that fail after another step has had its effect. `PROJECT.json`
lists each of these hazards at its line, with the properties that cover it.

What makes each part correct:

- K-split GEMV: whoever reads a result reads the sum of all slices of that very
  call; buffers fit their key; addresses in a graph stay reserved.
- Dispatch: a well-formed call is served; what is launched is exact.
- Kernels: each row of the weights is used once, with its own group's scales, in
  each element; no element is stored twice; nothing is read out of bounds.
- Paged attention: each new token gets the softmax over its own attended tokens,
  in every head, once; unwritten slots never enter.
- RMSNorm patch: the original method is reached by the fallback, however often
  the module is imported. Routing: exactly one path, and one that supports the
  operands. Requantisation: the saved model computes what the scaled one did.
- Deployment: a started server has a complete model, comes back after each crash, and
  with an older revision only if a pull of it was still under way. Sweeps: a winner is
  the fastest of its own shape, a wrong one is marked, totals cover all shapes; what the
  dispatch uses was swept. Profiling and census: what is taken for a step is of one
  decode step, and nothing of the prompt or the warmup.

## Modules

### `Gemv`, `SplitK`: the core

`Gemv` is the promise: a call asks for a product, and whatever is delivered for
call `c` is the product of `c`. It knows no buffers, kernels or devices.

`SplitK` is the code. Host and device are separate:

| Code | Model |
|---|---|
| `awq_gemv_splitk_triton` up to the first launch (538-556) | `LaunchGemv(k)`, with `SplitkPartials` for `_splitk_partials` |
| allocation of `result`, second launch, return (557-566) | `LaunchReduce`, or `SecondHalfFails` when either of them raises |
| `awq_gemv_splitk_kernel`, programs with `program_id(1) = r` | `GemvProgram(d, r)`, then `GemvEnds(d)` |
| `awq_gemv_splitk_reduce` | `ReduceRuns(d)` |
| a kernel that reads results (`silu_and_mul`) | `Consume`, later `UseRuns(d)` (external) |
| the caller forgets a tensor; the allocator may hand its memory out | `Drop`, `Free` (external) |
| capture and replay of a layer with equal gate and up projections | `CaptureLayer`, `Replay` (external) |

A row of a buffer holds the number of the call that wrote it, a result the vector of the rows
that were summed: a sum is right when all its rows are the call's own (`FullSum`). `extent`
keeps the shape (split, N) that a buffer was created with (519), so that `PartialsFit` can
compare it with what each kernel stores: a cache key without N, without the split or without the
device would break it or `OwnSum`. `stream[d]` keeps every launched kernel and `head[d]` counts
the finished ones, so that properties can speak of launched, running and finished kernels. The
wrapper can be suspended between its two launches, which is where an exception leaves it. The
host is one Python thread and a device has one stream: the code's comment (505-506) makes
"same-stream sequential decode" its precondition, and with two streams sharing a key `OwnSum`
would not hold.

`SplitKInv` has the inductive invariant, `SplitKProofs` the proofs. For the other
components the invariant ends the module itself, under that heading.

### `AwqLoops`, `AwqKernels`, `AwqDispatch`: tables and tiled kernels

`AwqLoops` states, as operators of a launch record, which rows of the weights
each trip of each kernel's loop loads and which row of the scales it takes, and
the wrappers' asserts. `OnceInOwnGroup` says what a launch must do with K.

`AwqKernels` runs a launch: asserts, a grid of programs `<<pid, z>>` going round
their loops (`GoRound`), storing their tiles into flat planes (`Store`), and the
final sum (`Finish`). The loop counter and `offsets_k` are separate state, as in
the code; the scale row is computed from the former, the loads from the latter.
Columns are counted in packed words of eight; unpacking (see `AwqDequantize`) and
rounding are not modelled here. The grid of `awq_gemv_splitk_reduce` is one step: its
programs own their columns and only read the planes.

`AwqDispatch` is `awq_gemm_triton` at its real sizes: `Choose...` for each branch
with its table, then `LaunchKernel` or `Raise` by the asserts of the wrapper that
was chosen. A table is the set of its entries and `Get` is `dict.get`. `num_warps`
and `num_stages` do not change what is computed and are left out.

### `PagedDecode`: attention

The wrapper (`Prefill`, `CacheTypeRaises`, `CustomDecode`, `CustomRaises`,
`TritonDecode`, `Return`) and the programs of `kernel_paged_attention_2d`
(`Skip`, `Begin`, `NextTile`, `Store`). A weight `exp(e)` is its exponent, a sum
is the set of its terms with the token each came from, and an unwritten slot is
`Garbage`, which no masking of scores removes, as a NaN would not go away. The
sum of the weights and the weighted sum of the values are rescaled separately,
as in the code. `context_attention_fwd`, `paged_attention_rocm` and the writer of
the cache are external. `batch.start` is `query_start_loc`. Alibi slopes, block
tables of addresses, strides within a block, fp8 scaling and blocks that two sequences
share (prefix caching: a value is known by the one token it belongs to) are left out.

`FusedSplitK` is the fused kernel of rung 17 with its wrapper. It takes its loop
and asserts from `AwqLoops`; numbers are integers, fp32 sums are exact, and fp16 has
every integer up to `Significand` (2048), every second one up to twice that, and so on
through `Units`; it rounds to the nearest, ties to even, at a program's conversion and
at its one atomic add. One row of input, as a GEMV has; overflow and subnormal numbers
are left out.

`AwqDequantize` is the dequantisation launch, with words as signed 32-bit integers
that are packed in AWQ's order and unpacked by shifts, the sign bit included, and one
row of zeros and scales for a tile.

### `RmsNormPatch`: a monkey patch under several names

`apply_patch` is a step for each assignment to shared state (`ApplyPatch`,
`CaptureOriginal`, `ReplaceNative`, `ReplaceCuda`, `SetPatched`), because another
thread may be building a layer (`BuildLayer`), running one, or importing the file
under its other name: `awq_triton.py` imports it as part of vLLM and the gates
import the mounted file by itself, each with globals of its own. A call is where
it stands among the methods: `forward_hip` and stock `forward_cuda` of vLLM
(external) look the next method up when they run, `_fused_forward` ends in the
kernel or goes to what its name has captured. A file is executed once under a name,
as Python's import does: after `importlib.reload`, which nothing here calls, the
tail of the file would capture its own function. The arithmetic of the kernel is
left out.

### `RocmGemm`: routing of unquantised products

`Way` has the conditions of `rocm_unquantized_gemm_impl` in their order, `Call` also
the cached answer of `_on_gfx1030`, `GemvTile` and `GemvTrip` the blocks of the fp16
GEMV kernel. vLLM's platform tests are external.

### `Requant`: making the model

One action for each step of `quant.py` on one layer: AutoAWQ's fold (`Smooth`,
external), the first pass (`CompensateGdn`, `CompensateNone`), the second (`StoreNothing`,
`StoreNorm`), and between them the reading of the base norms, all in the order of
the script; `Raise` ends it, as `set -e` ends `run-quant.sh`, and `Again` starts it
over. A consumer's column is what divisions have left of a unit `One`; 0/0 is `NaN`. The
branch of the second pass that repairs a norm is modelled as what it does, which is to
raise (see Findings).

### `Deploy`: quickstart.sh and what it sets going

| Code | Model |
|---|---|
| `quickstart.sh` 6-29 | `TestForModel`, `Compose`, `Poll`, `Report`; `StartScript`, `Interrupt` |
| `huggingface-cli download` (external) | `Begin`, `PullFile`, `PullEnds`, `PullIsCut`, for the script and for the user |
| `docker compose up -d`, `restart: unless-stopped`, `docker compose down` | `Up`, `Restart`, `Down`, `UpByHand` |
| the server's process (external) | `ReadConfig`, `ReadWeights`, `Crash`, `Freeze` |
| v1.1.0, published in place (comment at 8-9) | `Publish` |

A file is absent or of a revision. Assumed of what is external: a pull is of the revision that
the hub has when it begins, takes the files of it that are missing or of another revision in any
order, and moves each in place as a whole. A release may come out at any moment, and the user's
pull may run beside the script's, so that a slow pull of revision 1 can put its `config.json`
over that of revision 2. `up` leaves alone a container whose configuration and image have not
changed; a server that finds weights missing may give up or come up without them; a hung server
accepts connections and never answers, which holds `curl`, as it has no timeout. `cut` and
`server.disturbed` are history.

### `SweepGrid`, `ConfigSweep`, `DecodeCensus`: the measuring scripts

`SweepGrid` has the grids of the three sweeps, at their real sizes, with the
conditions that pass candidates over, and the calls per token of each shape.

`ConfigSweep` is the three scripts' common course: candidates of a shape are
launched, compared and timed (`Try`), refused (`Refuse`), the winner is recorded
(`Record`), the next shape or number of rows begins (`NextJob`), times per token are
added up (`Add`, or `Project` in `probe_sk2.py`). They differ where the code does:
`sweep_m128_r16.py` and `probe_sk2.py` compare before they time and pass over what is
refused; `sweep_m16_r18.py` times first, compares only its winner, and ends at a
refusal, or where all candidates of a shape are missing. The launches outside of the
trials, which end a script when they raise, are `StockFails`. A comparison is what it
detects: rows scaled by another group's scales. `timed` is history.

`DecodeCensus` is a model that makes its calls in order, forward by forward, and two
ways of looking at them: `probe_sk2.py` records calls of one row and divides the
record by the tokens (`Forward`, `Clear`, `Divide`); `step_topology.py` and
`analyze_r12b.py` cut a trace by counting GEMVs and by the time after the last GEMM
(`TraceForward`, `CutByCount`, `CutByTime`). Which calls a layer makes is external,
as is the time that a kernel takes; the tracer may stall between forwards. `norm` is one
event for all the launches of a norm, with their time as its own: one launch since rung
13, and a chain of 10 to 13 before (`rmsnorm_gfx1030.py` 4-8), which is when the trace of
`analyze_r12b.py` was taken.

### Modules for TLC

`MCSplitK`, `MCPagedDecode`, `MCRmsNormPatch`, `MCRequant` and `MCAwqDispatch` give
constants their values. `MCAwqLaunches` (the three kernel modules), `MCLinear`
(`AwqDispatch` with `SweepGrid`, and `RocmGemm`) and `MCMeasure` (`ConfigSweep` and
`DecodeCensus`) put several modules in one run: `kind` says which of them the
behaviour is of. The initial states decide it and no action changes it; the
variables of the other components stay as they began. A property of one module is
checked as that module states it, or as `kind = x => P`, which says of module `x`
exactly what `P` says.

## Runs

| Run | Question | States |
|---|---|---|
| `SplitK_promise` | Can any interleaving of calls of two keys, drops, reuse, failures, replays and kernels make a kernel read anything but its own call's sum, or store beyond its buffer? Does each call end, is `Gemv` implemented? | 174,411 |
| `Awq_launches` | Is the tensor of every small launch of the product kernels exact, in every order of the programs; is the dequantised matrix what was packed; how far from the product can atomic adds end? | 153,953 |
| `Linear_dispatch` | Which AWQ calls are refused, is every launch exact, was everything in the tables swept? Do decode products of unquantised layers stay off the libraries, and does the fp16 GEMV cover its matrix? | 96,768 |
| `AwqDispatch_scales` | see Findings | violation |
| `PagedDecode_batches` | Is each new token of a mixed batch answered with its softmax, once? | about 14,500 |
| `RmsNormPatch_imports` | Does each call end, in the right method, whatever is imported meanwhile? | 36,582 |
| `Requant_models` | Is what is saved the model that was loaded? | 417,375 |
| `Requant_storage` | see Findings | violation |
| `Deploy_service` | Under cut downloads, two pulls at once, a release in the middle of them, crashes and hangs: does the script end, does the server come up, what explains a partial model, and what can undo an upgrade? | 154,947 |
| `Deploy_download` | see Findings | violation |
| `Measure_runs` | Does each sweep end with the fastest, right winner of each shape and whole totals? Is what the census takes part of one decode step, and are steps cut out of traces at their boundaries, with any length of a norm? | 15,734 |
| `Measure_census` | see Findings | violation |

Bounds, and why they are enough:

- `SplitK`: three calls (a replay is two, so a replay and an eager call, or three
  eager calls), one captured layer, one consumer at a time besides those in the
  graph, three addresses: a buffer and two results fill them, so memory is both
  exhausted and reused. In a behaviour two keys are used, which differ in one component:
  the split, the width or the device (`MCKeys`, `used`). The calls of two splits are
  three; those of two widths or two devices are two, which is enough to meet in a
  cache that confuses them, and with two devices nothing is captured (`Bounded`). The
  proofs cover any number of keys, widths, devices, calls and graphs.
- `Awq_launches`: product kernels with M and N up to 3 and tiles of 1 and 2, K up to 8 with
  whole and cut-off blocks, every split up to 4, at most four programs and three trips; GEMM
  launches whose blocks do not lie in one group are among them, as no assert stops them, and
  what they load and store is checked, not what they add up. Dequantisation with tiles of one or
  two words by two rows, up to three words and six rows, groups of one tile, of two tiles and of
  all rows. The fused kernel with a significand of 8, units of 1 to 32 and up to three slices,
  so that sums round, tie and cancel; two tiles, one of them cut off. Supported groups are 2 and
  4 here, so that a block of two rows fits both and one of four does not.
- `Linear_dispatch`: all shapes of the tables and unseen shapes on both sides of each
  limit (one of them with a K that is no multiple of 64, so that a single group can be
  cut), M on both sides of each band limit, groups that are and are not supported; the
  tables and the grids of the sweeps are not scaled down. Unquantised products on both
  sides of each limit, real shapes among them; one machine of each architecture, two
  mixed ones and one with two gfx1030.
- `RmsNormPatch`: two names (the two the repository uses) and one layer; operands that
  fit and two that miss the gate in one field each. The proofs cover any number.
- `Requant`: two layers of two channels, each of either kind; base weights of 0, 1 and 3,
  scales of 1, 2 and 3; shards with and without each key.
- `PagedDecode`: two sequences of up to six tokens, blocks of 2, 3, 4, 5 and 8 slots
  with tiles of 2 (so that tiles divide blocks, straddle them as 32 does 528, and
  are cut from them as 128 is from 2048), rising, falling and peaked scores,
  windows of 1 and 3, sinks below and above all scores, a table with no entry
  to spare, two heads of keys with one or three query heads each.
- `Deploy`: two polls for 60, two starts of the script, two faults: the script can give
  up before the server is up, be started again over what the first start left, and the
  server can crash twice or crash and hang. The proofs cover any numbers.
- `Measure`: for the sweeps two shapes with K on both sides of 4096, rows 8 and 16,
  groups of 32 and 128, and two or three candidates of each grid (`Trials`; the grids
  have hundreds, and a winner depends on a comparison of two), times 1 and 2. For the
  census the model at its real size, 32 layers, and the real 16 tokens; traces of up to
  five forwards (three decode steps are the fewest that have a middle one, one more
  moves the middle), with kernels of 20 us, gaps of 60 us, an lm_head of 2.8 ms, stalls
  of 0 and 5 ms, and norms of one launch and of thirteen (980 us, so that the final norm
  ends after the margin of 1 ms).

`CHECK_DEADLOCK FALSE` is set where a launch, a script or a trace ends, or a bound ends
the calls. The patched process and the requantisation can always go on, and are checked
for deadlock.

Fairness is used in three models. In `SplitK_promise`: weak fairness of each device's
steps (a GPU keeps running what was launched) and of the rest of a wrapper once entered
(Python goes on to the return or the exception). No fairness is assumed of
callers. `CallsFinish` follows from it; `RefinesGemv` is safety and needs none.
In `RmsNormPatch_imports`: weak fairness of the steps of a running call, whose
methods never wait. Imports need not make progress. In `Deploy_service`: the script
goes on, a pull ends one way or the other, and the daemon starts what it is to keep
running. The user, the publisher, crashes and hangs are not fair: nothing is assumed
to go wrong or to be done by hand, and nothing that is promised depends on it.

Assumption on scores: the score of the masked tokens, -10000, is so far below
the real ones that its weight vanishes. The instances use -100 with weights
vanishing at 50 below the maximum.

## Findings

1. `AwqDispatch_scales`: for 2 to 32 rows the unseen-shape configuration (845) and
   two entries of the table (820, 821) use `BLOCK_SIZE_K` 64, while the kernel
   takes one row of scales for the whole block (194-196). With groups of 32 half of
   the rows get their neighbour's scales; no assert stops it. The deployed model has
   groups of 128 and is not affected.

2. `Requant_storage`: the second pass searches the shards again with `glob` and
   `safe_open` (`quant.py` 174, 186), which are imported only inside
   `_load_base_layernorms` (108-109). As soon as the fold has changed the norm of one
   layer, a `NameError` ends the script, after hours of quantisation and before the
   save. So the formula of the comment (145-146) is never stored by this file, and
   `SavedIsFaithful` holds because only a model whose norms were left alone is saved.

3. `Deploy_download`: `quickstart.sh` decides by `model/config.json` alone (6) whether
   the model is there. A download that is cut after that file has arrived leaves it
   there; the next start of the script goes on to `docker compose up` with weights
   missing, and no start downloads again. `StartsWithWhole` and `PartialIsExplained`
   (in `Deploy_service`) show that pulls that were cut and not made up for, and pulls
   that are still running, are the only ways to this.

4. `Measure_census`: `probe_sk2.py` divides the single-row calls of a generate by its 16
   tokens (62), but the first token comes from the prompt's forward, whose calls have
   more rows and are not recorded (40). 15 steps of 128 calls are divided into 16 parts
   of 120. The part that is kept, "one token's exact live call sequence" (65), lacks the
   eight calls of the first two layers, and the counts 30, 22, 8, 30, 30 are too small
   by two each (but for the full-attention one). `COUNTS` of both sweeps
   (`sweep_m16_r18.py` 22-23, `sweep_m128_r16.py`), "120 calls" in `README.md` 65,
   `CHANGELOG.md` 26 and `awq_triton.py` 571 and 736 repeat them; `README.md` 72 and
   `analyze_r12b.py` 6-7 have 128. The choice of a winner is made shape by shape and is
   not affected. `SweepGrid` has `COUNTS` as the sweeps have it; no property takes
   it for the counts of the model. What does hold, and would still hold if the division
   were repaired, is `SeqWithinStep`: nothing of the prompt, the warmup or a second step
   gets into the sequence.

Other observations, which runs show from their positive side:

- `Linear_dispatch`, `RefusedOnlyTooDeep`: single-row calls whose block is deeper
  than their groups are refused. For (2560, 9216) the gate at 750 lets groups of 32
  through (it tests `group_size % 32`), the table gives `block_k` 64, and the wrapper
  raises (538), although the comment at 749 says the gate is the wrapper's asserts; an
  unseen shape that fails the gate gets `block_k` 64 or 128 and raises (380) for
  groups that line 12 lists as supported. A call with one group for all of K is
  refused when that block does not divide K. No other supported call is refused.
- `Linear_dispatch`, `LaunchExact`: single-row launches, and launches with tiles
  of 32 rows, are exact for any group size that gets past the asserts.
- `Requant`: where a base norm has a weight of exactly 0, the first pass divides 0 by 0
  and both fp16 projections get a column of NaN, which nothing looks for. The
  properties are stated for other weights.
- `Awq_launches`, `FusedExact` and `FusedNear`: the comment at 576 calls an fp16 atomic
  add exact and the precision unchanged. Each add rounds to fp16, in the order in which
  programs happen to end. What does hold is exactness when all sums of partials are fp16
  numbers, and a bound of one unit of the largest sum for each slice, as long as that sum
  is in the range of fp16 and there are at most 1024 slices (the default is 8).
- `Deploy_service`, `ComesUp`: the first start takes 10 to 14 minutes (`README.md` 142)
  and the script polls for 10; it then says "Still starting", which is right: the server
  comes up without it. `docker compose up -d` leaves a running container alone, so the
  command that `deploy/RELEASE_NOTES.md` 27 gives after a pull does not load the new
  revision while the old server runs; `ComesUp` speaks of the next start of the process.
- `Deploy_service`, `NeverBack`: the download goes into the mounted directory in place, so
  a slow pull of revision 1 that began before the release can put its `config.json` over
  that of revision 2, and the next start of the container serves revision 1. The property
  is therefore stated from a moment at which no pull of revision 1 is under way, and says
  that there is no other way back.
- `Measure_runs`, `WinnerIsExact`: `CHANGELOG.md` 60-61 calls both tile sweeps
  correctness-gated. `sweep_m16_r18.py` compares after it has chosen: a wrong winner is
  marked but not replaced by the fastest right one. With groups of 128 no candidate is
  wrong; with groups of 32, blocks of 64 would be.
- `SweepGrid`: `sweep_m128_r16.py` 141 says splits of 1, 2, 4 and 8; line 148 has no
  2. The grid has 972 points before its conditions, not the 144 of `CHANGELOG.md` 27.
- `Measure_runs`, `CutIsOneStep` and `RegionIsDecode` are stated for the model that the
  scripts were written for. With the quantised `lm_head` of v1.1.0 a step has 129 single-row
  calls, so a cut by 128 drifts by one call a step, and no lm_head is long enough to
  keep the rest of the prompt's forward out of the region. The asserts of the census
  still pass, by accident: 15 steps of 129 calls and one lm_head call of the prompt's
  forward are 1936, which 16 divides.
- `Measure_runs`, `RegionIsDecode`: 1 ms after the last GEMM the prompt's forward still has
  its final norm, lm_head and argmax to run. With a norm of one launch only its argmax
  begins after the margin. With the chain of launches that a norm was when the trace
  of `analyze_r12b.py` was taken, the chain can outlast the margin, and then the prompt's
  lm_head is counted in the region as decode (one lm_head more than decode steps). What
  holds with either norm is that no decode kernel is lost, nothing from before that GEMM
  is in, and the GEMVs are 128 a decode step, which is what lines 5-7 divide by.
- `RocmGemm`: `_on_gfx1030` asks device 0 for all devices (`utils.py` 122-133). On a machine
  of unlike cards its answer is wrong for some of them. The model has such machines; no
  document of the repository does, and nothing is promised for their other devices.

## Proofs

Eight modules hold theorems; each speaks of every value of the constants that its
component's named assumption allows, where a run has a few. `PROJECT.json` lists
the theorems with the properties they state.

### `SplitKProofs`

For any keys, widths, devices, memory and bounds (`SplitKAssumption`):

- `TypeCorrect`: `Spec => []TypeOK`; `InvariantHolds`: `Spec => [](TypeOK /\ IInv)`.
- `OwnSumHolds`, `HeldIntactHolds`, `PartialsFitHolds`,
  `GraphMemoryReservedHolds`: the four safety invariants of the run.
- `Refinement`: `Spec => RefinesGemv`. The mapping is `Gemv WITH Product <- FullSum,
  delivered <- observed`, `asked` for itself; every step is a step of `Gemv` or leaves
  both of its variables alone.

`OwnSum` alone is not inductive: that the next reader reads the
right sum depends on what is still queued. `IInv` adds, in named parts, that
memory in use for different purposes is different memory (`MemoryApart`); that a
queued kernel works for a call that was made, in the buffer of its key
(`KernelsWellPlaced`); that a reduce directly follows the GEMV of its call
(`Paired`, and `PendingLast` for the call between its launches), which is what
makes one shared buffer enough; that the last kernel to write the block of a held
result, or of one that a queued consumer will read, is its own reduce
(`HeldFresh`, `UsesFresh`); and what memory holds when the first `head[d]` kernels
have run (`RunningRows`, `RowsComplete`, `SumsKept`, `Observed`). Each action of
`Next` has one step, each part of the invariant a step under it. The refinement
needs it for one step: what `UseRuns` delivers is what `Gemv` promised.

### `AwqLoopsProofs` and `AwqKernelsProofs`

- `SplitkAssertsSuffice`: whatever K, split, block and group a launch comes with, if the
  asserts of the K-split wrapper (537-539) let it through, each row of the weights is
  loaded once and scaled by its own group (`OnceInOwnGroup`).
- `StridedLoopsExact`: the same of the GEMV's and the GEMM's loops whenever the blocks
  lie in groups, with any cut-off last block.
- `TiledGridsExact`, `SplitGridExact`: so each candidate of the sweeps is right on any
  shape: those of the GEMM with groups of 128, those of `probe_sk2.py` with any groups.
  This is why `sweep_m16_r18.py` may compare its winners only (`WinnerIsExact`).
- `ProgramsInvariant`, `LoadsInsideHolds`, `StoredOnceHolds`, `ExactHolds`: what
  `Awq_launches` checks of the product kernels, for launches of any size, under
  `AwqKernelsAssumption` (sizes are positive, groups are whole, and what
  `torch.empty` leaves is not a sum).

The lemmas are about division: a block of K has one number, which a part and a trip
determine and which determines them (`IndexBijective`); a block that fits groups has
one group (`GroupOfBlock`); the loads are as many as the rows (`LoadsCount`, by a
bijection); an element has one tile (`OwnerFacts`), and its address is three digits
(`AddressFacts`). The inductive invariant of the launch says that the accumulator
of a program is what the trips behind it load (`GoneRound`), that a cell is unwritten
until its own program, and no other, has stored (`StoredByOwner`), that nothing runs
before the asserts (`Guarded`), and that the tensor is made of stored planes
(`Returned`). `Exact` follows by the theorems about loops.

The other two kernels of `Awq_launches`:

- `DequantizeInvariant`, `DequantizeExactHolds`: for every matrix, group and tile that
  divides the supported groups (`DequantizeAssumption`; 74 and 327-331 rest on it). The
  shifts undo the packing: what a word is below bit `4j` is less than `16^j`, so
  dividing cuts it off (`HighBits`), and the last value, which carries the sign, is the
  same modulo 16 (`UnpackWord`, `UnpackPack`). A tile meets one row of zeros and scales,
  which is that of all its rows (`TileInGroup`). `DeqInv` says that a value is stored as
  soon as the program of its tile is done.
- `FusedInvariant`, `FusedExactHolds`, `FusedNearHolds`: for any sizes, splits,
  operands and precision (`FusedAssumption`: units double, numbers are integers), in
  every order of the atomic adds. `SumOfEnded` and `NearEnded` compare a column with
  the sum of the parts that have ended. That sum is a fold over a set whose order is
  not fixed, and so the invariant does not speak of an order. The error
  cannot be added up part by part with the unit of the largest sum alone, as rounding
  itself makes sums larger: `NearEnded` also bounds the size of the column, and `Slack` is 0 where
  that size needs no rounding. Hence the bound on the number of slices. That the
  parts together are the product is `ProductOfPartials`: the loops of
  `SplitkAssertsSuffice` are a partition of K into blocks, each in one group.

Both rest on sums over finite sets, which the library has as a fold only. The library's
induction theorems take an operator and cannot be used here; what `AwqLoopsProofs` needs of
sums (`SumExists`, `SumTakeOut`, `SumAdd`, `SumUnion`, `SumBlocks`) is proved by minimal
counterexample instead: among the subsets of a finite set that lack a property one has
no smaller one that lacks it (`MinimalSubset`).

### `LinearProofs`

Of the dispatch, for any shapes, numbers of rows and group sizes: `DispatchInvariant`,
`LaunchExactHolds`, `RefusedOnlyTooDeepHolds`, `OneTileOfRowsHolds`. The tables are
those of the code; the invariant says what they and the fallbacks can hand to each
wrapper (`PlannedSplitK`, `PlannedGemv`, `PlannedGemm`), and the rest is arithmetic
with `AwqLoopsProofs`: what the gate lets through meets the asserts on slices
(`GateMeetsSliceAsserts`). The proof of `RefusedOnlyTooDeep` failed at first, rightly: a
call with one group is refused too when the block does not divide K, which no shape
of the run had shown. The property now says so and the run has such a shape.

`TunedWasSweptHolds`: what the tables serve the deployed model with, for any number of
rows, is a candidate of the sweep for these rows (`SweptInv` says it already of the choice).

Of the unquantised routing, for any machines and products: `GemmInvariant`,
`DecodeIsSkinnyHolds`, `GemvWholeHolds` (blocks of any size are a partition of any
dimension, `BlocksPartition`). What is cached about device 0
stays true (`GemmInv`), so the way of a call is what the conditions give now.

Of the sweeps, for any grids, times, lists of shapes and rows, and group sizes
(`SweepInvariant`, with `WinnerIsBestHolds`, `WinnerIsExactHolds` and
`TotalsWholeHolds`). `SweepInv` has four parts: the types; of the job at hand (`TrialInv`),
that `best` is a fastest of what was timed and that all of that passed what the script
asks before it times; of the record (`RecordInv`), that it has no job behind this one, this
one with its own winner, and no gap where times are added up; and of the times per token
(`TotalInv`), that each is the sum over the shapes that were added so far, each with its
own winner, and that the projection of `probe_sk2.py` is at most what it is compared with:
the live configuration is among what was timed (`TrialInv`), so no winner is slower.
`WinnerIsExact` takes `TiledGridsExact` for the sweep that compares its winners only.

Of the census, for any prompt of more than one token (`CensusInvariant`,
`SeqWithinStepHolds`): the log is whole decode steps, so its call `i` is call
`i % 128` of a step (`LogIs`); after 16 forwards these are 1920, which 16 divides, and the
last 120 are a step without its first two layers (`LastCalls`).

Of the traces, for any prompt of more than one token, any number of forwards and any stalls
(`TraceInvariant`, `CutIsOneStepHolds`, `RegionIsDecodeHolds`): kernel `k` belongs to
forward `k \div 388 + 1` and has its name by its place there (`TraceIs`), so that GEMV `i`
is at `GemvPlace(i)` (`GemvsAre`), and a cut between two of them that are 128 apart is
388 kernels long, wherever it begins (`CountedCut`). Of the times it is enough to know
that the prompt's kernels are in order and that its argmax comes after the last GEMM and the
whole lm_head (`PromptTimes`), and that no decode step begins before that argmax
(`DecodeTimes`). That a forward is in order whatever its norms take is `StepInOrder`: the time
to a kernel is a sum over the longer kernels before it, which only grow in number
(`EarlierGrows`). `DecodeCensusAssumption` has what the margin of 1 ms rests on: lm_head
takes longer (the code has 2.8 ms, `analyze_r12b.py` 8-11). Norms may take any time.

### `PagedProofs`

For any batch, cache blocks, tiles, window, sink, scores and heads, in any order of the
programs: `InvariantHolds`, `NoPoisonHolds`, `WrittenOnceHolds`, `AnsweredHolds`. What a
batch has to be is `PagedDecodeAssumption`, in parts: rows follow each other, and
sequences without a new token are padding behind the others (`RowsInOrder`); the table is
a rectangle with an entry for each token (`TableCovers`), and no block is named by two
entries that tokens live in (`EntriesApart`); scores are finite, and a masked token has no
weight next to one that is not masked, which -10000 is chosen for (`ScoresFinite`).

`IInv` has three parts. `Progress` says where the wrapper and the programs may be.
`RunningSoftmax` is the loop invariant of the kernel: `top` is the maximum of what has been
compared, and `acc` and `denom` are the sums over the tokens of the tiles gone over
(`Summed`), below that maximum. A round keeps it because a sum below one maximum becomes
the sum below a larger one: what vanishes now and what had vanished before are together
what the larger maximum leaves no weight (`SummedRescaled`, `SinkRescaled`), the new
tile adds its own tokens (`SummedNext`), and each of these gets its own value, since the
table leads from a token to its slot whatever tiles the kernel goes by (`SlotFacts`).
`OwnCells` says what each row of a new token holds at each stage; it is kept because a
program stores to the row of its own sequence or behind all rows (`StoredRow`), and
each head belongs to one program (`HeadFacts`). `Answered` then needs that the last
maximum is the peak of the attended tokens (`PeakFacts`) and that no term is in a sum
twice (`FinalAmounts`, by a bijection). `IInv` was checked with TLC on the batches of
`PagedDecode_batches` before it was proved; the run itself checks what follows from it.

### `RmsNormPatchProofs`

For any names, layers and operands (`RmsNormPatchAssumption` only tells the special
values apart): `TypeCorrect`,
`InvariantHolds`, `NoCircleHolds`, `FallbackIsCallableHolds`,
`StaysActiveHolds` and `RightEndHolds`. That fallbacks form no circle is stated without
counting: any set of names has one that falls back outside it. It is kept by a capture
because a name that has captured nothing is neither installed in the class nor anybody's
fallback; so `IInv` says what each stage of `apply_patch` has done (`Stages`) and
that whatever can be reached has captured its own fallback
(`ReachableHaveFallback`). For `RightEnd` the invariant grows by `LateServed`: a layer
that was built after a patch was complete is bound to a name or to `forward_hip`,
and so is each call of it whose operands fit. `CallsEnd` is the liveness that `NoCircle`
is for.

### `RequantProofs`

For any number of layers and channels, any gains and scales (`RequantAssumption`:
natural numbers, scales not 0, and `NaN` no number): `InvariantHolds`,
`FoldedAlikeHolds`, `SavedIsFaithfulHolds`. The invariant follows the script's passes:
what AutoAWQ folded into a norm it divided out of the consumers, by the same scale
(`ScalesFolded`); the fp16 projections have the ratio of the norms in memory and on
disk or nothing yet (`RatiosFolded`), which is that scale because no base weight is 0;
and only layers that nothing was folded into get past the second pass
(`NothingStored`), which is finding 2.

### `DeployProofs`

For any number of polls, starts and faults, with and without
pulls by hand: `InvariantHolds`, `StartsWithWholeHolds`, `PartialIsExplainedHolds` and
`NeverBackHolds`. Two pulls may be under way and a release may come between them, so that
no order of the revisions in the directory can be counted on. What can is that files are
only added: what a pull has looked at is there until the end (`LookedAtIsThere`). So
whoever has seen a `config.json` of revision r, the directory or a server, finds the
other files of r there too, or a pull of r or a later revision is under way or was
cut for good (`SeenIsWhole`, `Excused`). `cut` is the newest revision of which a pull was
cut with none of it or of a later one ended since. `NeverBack` is the one argument about
time: nothing is newer than what was published (`NoneNewer`), so once revision 2 is there
each pull that begins is of revision 2; `Upgraded` (the directory has it, so has each
running process, and no pull of revision 1 is left) is kept by each step (`UpgradedStays`).

### Only model-checked

- `CallsFinish`, `CallsEnd`, `ScriptEnds` and `ComesUp`: liveness under fairness.
- What the runs of the findings refute, which the counterexamples show.

Every other property that a run checks is stated by a theorem.

## Not modelled, and the plan

Of the plan nothing is left to be proved but what is listed above. What could be added
next: streams of one device that share a scratch buffer (the code's comment excludes
them), the arithmetic of the norm kernel, overflow of fp16 sums.

Left out, with reasons:

- `apply_penalties` and the CPU branch of `utils.py` (`dispatch_cpu_unquantized_gemm`)
  are stock vLLM, which the repository does not change; the CPU branch is not reached on
  a ROCm machine.
- Of the gates, `gate_pa.py`, `gate_pa2.py`, `probe_pa2.py` and `test_r13*.py` compare
  tensors and print: the kernels they compare are modelled, the scripts keep no state.
  Of `probe_sk2.py` the replay timings, whose order does not matter.
- Of the profiles, the sums by kernel name and what is printed of them. Reading them
  showed: `analyze_r12b.py` counts the fp16 lm_head in the group "fp16 GEMV small" by
  its name and again in its own, and the ungrouped rest is too small by it (64-93);
  `analyze_r12.py` compares a tuple with 300 (85), which raises, and its gaps and runs
  mix microseconds with a limit in nanoseconds (97). `prof*.py` only record.
- Benchmarks, compose files of the override, the Dockerfile, `bench.sh` and images keep
  no state that a property could be about. The build in `docker compose up --build` is a
  step that may fail.

Floating-point rounding is abstracted except in `FusedSplitK`, unpacking of 4-bit
values except in `AwqDequantize`, warps and timing everywhere but in the measuring
scripts.

# A TLA+ model of the GLM-5.2 on GB10 serving recipe

The repository serves GLM-5.2, a mixture-of-experts model with DeepSeek sparse
attention (DSA), on four GB10 machines. It is not a server of its own: it
carries patches for vLLM and SGLang, portable GPU kernels, the vLLM files the
patches are made against, launch scripts and benchmark runners. This directory
specifies the parts of it that decide something: which rows are scored against
which keys, which bytes of a cache record mean what, which kernel runs, what an
interrupted installer leaves behind.

Contents: 1 the system; 2 the modules; 3 the runs; 4 the proofs;
5 disagreements found; 6 what is left out; 7 what could come next.

## 1. The system

| Part | Where (`src/`) | State it keeps | Operations | Talks to |
|---|---|---|---|---|
| A. Prefill chunk planner | `patches/reference-vllm-files/indexer.py` 69-115 | local loop variables | `split_indexer_prefill_chunks` | called by B; its slices drive C |
| B. Indexer metadata builder | same file | decode path chosen at start; persistent device buffers rewritten by every step | `__init__`, `build`, `_prepare_decode_tensors`, `build_prefill_chunk_metadata`, two Triton kernels | reads the scheduler's batch; its result is read by C in every layer |
| C. Sparse indexer op | `.../sparse_attn_indexer.py` | indexer KV cache, the shared gather workspace, the top-k index buffer | insert K, clear, score prefill chunks, score decodes, unpack | A, B; the attention layer reads the buffer and reuses the workspace |
| D. DeepGEMM wrapper | `.../deep_gemm.py` | lazily resolved function pointers, cached capability answers | `_lazy_init`, gates, wrappers | patched by G to call E |
| E. SM12x fallback kernels | `patches/sm12x-deepgemm-bypass/kernels-from-cosmicraisins/` | none between calls | logits, paged logits, chunked top-k, split-K GEMM, b12x call | called through D |
| F. NVFP4 KV cache | `patches/nvfp4-mla-kv/sm12x_sparse_mla_attn.py` | 416-byte or 656-byte records in paged blocks | store, gather, attention (prefill, decode) | fed by vLLM's store dispatch, reads C's top-k indices |
| G. Patch installers | `patches/*/run.sh`, `patch_ct_asym_moe.py` | the files of the installed package | copy, edit unless marked, check | rewrite B-F's hosts |
| H. Marlin weights and MoE | `patches/asym-moe-marlin/`: `ct_moe_wna16_marlin.py`, `int_wna16.py`, `awq_marlin.py`, `ct_wna16_scheme.py`, `lin_marlin.py`, `marlin_utils.py`, `fmoe_config.py`, `_custom_ops.py`, `marlin_moe.py` | layer parameters rewritten in place after loading; two aliased scratch buffers per call | choose a kernel, create, load, convert, apply | patched by G |
| I. Cluster launch | `recipe/*.sh` | containers on four nodes | clear, start, poll | vLLM's head process |
| J. Benchmarks | `benchmarks/*.py, *.sh` | sample counters, thread pool | request with retries, extract, score | the server of I |

**What is hard.** Nothing in A-F locks; correctness rests on agreement between
separately computed arrays. In A-C the CPU plans with an *upper bound* of the
sequence lengths (drafts it does not yet know to be rejected) while kernels use
the exact lengths; sub-chunks of one request reuse what an earlier sub-chunk
gathered into a workspace that other layers and the attention kernel also use;
padded decode rows are written over rows that belong to the prefill half of the
batch; rejected drafts leave entries in the cache. In E the top-k of the whole
row is assembled from chunks whose size comes from a byte bound. In D two caches
answer one question, filled by different calls in any order, and an import may
fail once and work later. In F one byte
buffer is read under two layouts, told apart by its width. In G a script may be
killed and run again, on a package another script or another version has
already changed; some of its commands may fail and are passed over. In H five
methods rewrite the same kind of parameters in
different orders, each by tests of its own, for one kernel that is told little
of what they did. In I and J remote processes start in an order the scripts
choose and die when they like, an old container may keep its name and its rank,
and answers are truncated and asked for again.
`PROJECT.json` lists these hazards one by one, at their lines.

**What makes each part correct.** A: the chunks tile the rows, keep both limits,
and never reuse a foreign gather. B and C together: attention reads, for every
row, exactly the candidates of that row's own committed prefix. D: the scale
format that is written and the rounding that is read agree, and a layer that was
constructed serves. E: the merged
top-k is a top-k. F: what a token stored is what is read for it. G: a reported
success means a complete patch, whatever happened before, and the original of a
backed up file is lost only with its backup. H: every weight
meets its own scale and zero point, and no tensor of a call outgrows its memory.
I: a launch ends, and its head serves with ranks of its own unless getting rid of
an old container failed. J: the score counts answers, not failures.

## 2. The modules

Each component has a module with its state machine and properties, an `MC...`
module with the values TLC uses, and, where theorems are proved, a `...Proof`
module that extends the component's module. Two hold the proofs of two modules, whose
names therefore differ: `DeploymentProof` those about the installers and about a
launched cluster's evaluation (`InstallSpec`, `InstallNext`), `MarlinProof` those
about the experts' forward and about the weights (`WeightsSpec`, `WeightsNext`).

| Module | Models | State and actions against the code |
|---|---|---|
| `PrefillPlan` | A as a closed form | `Fits`, `MaxQ`, `GroupEnd`, `SubChunks`, `Plan`: which requests form a group and how it is cut |
| `ChunkSplit` | A as the loop it is | variables are the function's locals (`end`, `m`, `nk`, `maxq`, `qoff`, `chunks`); one action per loop iteration: `Take`, `Close`, `Slice`, `NextGroup` |
| `RowTiling` | what A promises | rows are handed out in order, a run at a time, to the end |
| `SparseIndexer` | B and C | `Schedule`, `Replace`, `Sample` stand for the scheduler and the sampler; `Build` is `build()` with all three decode paths; `Insert`, `ScoreChunk`, `EndPrefill`, `ScoreDecode`, `Unpack` are the op, once per layer; `Attend` is the reader that also clobbers the workspace |
| `ExactRows` | what C promises | a row goes from the filler straight to its answer; attention reads a complete buffer |
| `TopkMerge` | chunked top-k of E | `AddHeads` adds one chunk of heads to the logits, `Merge` folds one chunk of keys into the best so far, `Finish` |
| `ChunkSizes` | E's byte bound | how a score tensor is cut into chunks of heads, keys and pages; used by `TopkMerge` and `FallbackKernels` |
| `FallbackKernels` | logits and split-K GEMM of E | `Launch` is the wrapper: it chooses Triton or torch and lays out the grid; `Program` is one grid program, in any order, or one step of a torch loop, in its order; `Finish` is the final mask |
| `MlaRecord` | the records of F | the byte at each offset of a record and the offsets at which readers look, in both layouts, as functions of the dimensions |
| `KvMap` | what F's store promises | a map from slot to token; each write sets one slot |
| `MlaCache` | F | `Store` launches a batch's scatter, `Scatter` is one of its programs; `Attend` takes the indexer's row, `DoTile` is one step of the online softmax, of a tile (fused) or a candidate (materialized), `Finish` |
| `MarlinMoe` | forward of H | `Launch` starts the next kernel; `Gemm1`, `Activate`, `ZeroOut`, `Gemm2`, `SumRow` do one row of it, in any order; `Placed` and `Workspaces` say in which memory each of the three callers puts the tensors |
| `MarlinWeights` | weights of H | one 4-bit matrix of one rank: `Choose`, `CreateWeights` with the loader's sharding, then the steps of `process_weights_after_loading` in the order of each of five methods (`Convert`, `Preprocess`, `SortOrder`, `Repack`, `PermuteScales`, `ConvertZeros`), the refusals where the code raises, and `Apply`, what the kernel is called with |
| `DeepGemmDispatch` | D with the routing G adds, and the gates of B and C | the module-level caches are the variables; `Call` and `CallTold` are the wrappers, `is_deep_gemm_e8m0_used`, `from_oracle`, `num_sms` the other entries; `Construct`, `BuildMetadata`, `PrefillLogits`, `DecodeLogits` the indexer; `Recover` ends a passing import failure |
| `ClusterLaunch` | I | `Start`, `Clear`, `LaunchHead`, `LaunchWorker`, `Poll` are the script, each command free to fail as the script lets it (`docker rm -f` too, after which the old container stays and `docker run` fails on its name); `Join`, `HeadReady`, `Die` the containers |
| `BenchRunner` | J | `Take` is the pool, `Attempt` one of a question's three tries, `Outcomes` a text with the reason it ended for, `Held` what each runner keeps of it |
| `Evaluation` | I and J together | `Launching`, `Measure`, `Ask`: a benchmark runs against a server whose containers may die under it |
| `PatchScripts` | G as data | each script's copies, edits (marker, anchor), checks, in order |
| `PatchInstall` | G as a machine | `Begin`, one action per copy, read, edit, open, write, check, `CopyFails` before or after the copy has emptied its target (`\|\| true` for the backup, the end of the script for the others), and `Crash` anywhere; `image` says which edits the installed text takes, the history `unbacked` whether a backup's copy failed or was cut short |

**Abstractions.** `SparseIndexer` keeps all indices and lengths and drops the
numbers: a KV entry is its place and whether it is current, a row's answer is
the set of candidates the top-k was taken from and the query and weight rows it
was scored with. Block tables are reduced to the request whose blocks they
list. `TopkMerge` treats one query row; scores are integers below which lies
one value for minus infinity, so rounding, NaN and infinite logits are outside.
Ties in `torch.topk` are broken in every way. `FallbackKernels` and `MarlinMoe`
replace a number by what went into it: a logit is its query row, the key that
was read and how often each head was added; a partial product is how often each
`k` was; a row of a product is its kind, its row and column and how often the
router weight was applied. Memory nobody wrote holds `Junk`, which stays junk
through every kernel. `MlaCache` keeps for each byte whose it is and which part
of the record; scores are small integers and weights powers of two, so that the
running sums are exact. `PatchInstall` reduces text to the
edits it has: an anchor is there unless the image lacks it or an edit used it
up, a marker is there when an edit that carries it is. A kill between opening
and writing leaves an empty file, which is what the scripts' single buffered
write leaves. `MarlinWeights` replaces a number by the row and column, or the
group and column, it has in the checkpoint, and keeps the real permutations of
columns and sort of rows; weights, scales and zero points carry how they are
coded. `DeepGemmDispatch` keeps of a library which symbols it has and of a call
where it went and whether it rounded. `BenchRunner` keeps of a text what is
extracted from it - the right answer, a wrong one, none although there is text,
or there is no text - and why it ended (stop, length, any other reason or none); of
an error it keeps whether its text happens to hold the right answer (the runners
put the error's text in the place of an answer). In
`ClusterLaunch` a container is known by the experiment it was started for; the
histories `clean` and `freed` say on which nodes the clearing, or after it the
launcher's `docker rm -f`, got rid of what was there.

**Environment.** Scheduling, sampling, the attention kernel and
`split_decodes_and_prefills` are vLLM code outside `src/`; they are modelled by
what B and C receive from them and are marked external in `PROJECT.json`. The
NCCL rendezvous through which a worker finds the head is vLLM's too; the model
lets a worker of any experiment join whatever head is there, as all experiments
use one address and port. The
scheduler prefills prompts in any pieces, decodes with any number of drafts up
to the deployment's, pads full-graph batches, replaces requests, and orders a
batch in any way.

## 3. The runs

| Run | Question | Bounds |
|---|---|---|
| `chunk_split` | Does the planner tile, keep both limits, reuse only its own gather, equal the closed form, end, and implement `RowTiling`? | 1-3 requests; every split of up to 6 rows and 5 entries; workspaces 2, 4; budgets 1, 4, 7 (nothing fits, some, most) |
| `sparse_indexer` | Does attention always read exact rows? Is a skipped gather always its own? Is the cache always the committed prefix? Does C implement `ExactRows`? | 2 requests, 2 layers, at most 6 tokens a request, one padding request, prompts of 1 and 4, budgets 3 and 8; five deployments that reach every decode path |
| `topk_merge` | Is the merged top-k a top-k, within its byte bound, and does the loop end? | 4 keys or none, 1-2 heads, 1-2 rows, top-k 1-2, two byte bounds, four configured page-chunk sizes including 0 |
| `fallback_kernels` | Is every result cell computed, once, from its own row's keys, whichever kernel is chosen? Are the page-table reads inside? | 1-3 rows as 1x1 to 2x2 and 3x1, every length up to a model length of 4, pages of 2, tiles of 2-3 against 1-4 rows and columns, 1 and 6 heads, every window and every row-start and row-end, split-K with a remainder and with empty splits |
| `mla_cache` | Does a slot read back what was stored there last? Is the tiled softmax that of the chosen candidates? | both layouts, 2 slots, 3 tokens in stores of 1-2 with skipped slots, index rows of 3 in tiles of 2 and 1, scores 0-2, every cap |
| `marlin_moe` | Does the output depend on anything but the input? Does every tensor fit its memory? | 2 tokens, top-k 1-2, 3 experts, every routing, expert map and batch count, widths below, at and above the hidden one, three callers, in place or not |
| `marlin_weights` | Does each weight reach the kernel with its own scale and zero point, in one column order, rightly coded, and for which layers not? | five methods, hidden size 256 and intermediate 128 or the other way round, one rank or either of two, groups of 32, 64, 128 and the whole channel, activation orders none, weight and group, activations of 16 bits, int8 and fp8, symmetric and not |
| `deepgemm_dispatch` | Do the two cached decisions about scales agree? Does a constructed layer serve? | every combination of flags, GPU family 90, 100, 120, patched or not, four states of the external package and three of the vendored one, six libraries: complete, short of each symbol that decides, of one symbol, empty |
| `evaluation` | Is the head that serves this launch's, and whose ranks does it serve with? What do the counts count? Does a launch end? | a head and two workers, two launches of two polls, two questions for two threads, every runner, every text and reason for its end |
| `patch_install` | Do the installers keep their promises through kills, failing copies and re-runs? | all four scripts, every pair of edits that do not fit, three runs: one that is killed, one that meets the result, one more |
| `patch_kernels` | (violated) does the NVFP4 installer copy its kernels? | repository layout, one run |
| `patch_recipe` | (violated) does the recipe's image build get past the DeepGEMM bypass? | repository layout, one run |

Why the bounds are enough. In the planner the interesting cases are: a request
that fits nowhere, one that exactly fits, a group of several, a cut request with
a shorter last slice; three requests and seven row positions have all of them,
and the proofs cover the rest. In `SparseIndexer` two requests are what it takes
for one to see the other's entries, two layers for one to see the other's
workspace, and six tokens leave room for a prompt in two pieces, a decode with
three drafts and a rejection. The top-k needs two chunks with a shorter last one
and fewer finite keys than slots. In the kernels what matters is a last tile
that is cut, a grid of more than one program each way, a row whose context ends
inside, before and after a tile, and heads that do and do not fill a group. Two
slots are what it takes for one record to reach another, three candidates in
tiles of two for the maximum to rise in a later tile and for a tile to hold no
valid one. One remote expert beside a local one leaves the stale row that must
be cleared. A rank's intermediate part of 64 lies below, at and above the
groups tried, which is where the methods' tests for the scale order part, and an
input size of 128 is one group or more; two groups a rank are what it takes to
take one for another, and the proofs cover all other sizes. Two launches are what
it takes to leave a container behind; a second poll is one that did not end the
wait, and nothing depends on how many follow (180 in the script). Two questions
for two threads have each other's attempts between their own. Padding, pieces,
drafts and rejections are chosen nondeterministically in each step.

**Properties.** The first six runs and `patch_install` check one `TypeOK` each;
in `MarlinWeights`, `DeepGemmDispatch` and `Evaluation` nothing indexes by a
value that could leave its type, and they have none. The others:

* `RowsTiled`, `WithinLimits`, `GatherPrecedesReuse`, `ComputesPlan`,
  `Terminates`, `HandsOutRows` (`ChunkSplit`): the planner's contract.
* `RowsExact`, `ReusedWorkspaceIsOwn`, `CommittedKV`, `RowsAnsweredOnce`
  (`SparseIndexer`): the whole path from batch to attention.
* `ExactTopK`, `ScoresBounded`, `Terminates` (`TopkMerge`).
* `ResultExact`, `TableReadsInside`, `NoRaces` (`FallbackKernels`).
* `StoresRecords` (`MlaCache` implements `KvMap` through both layouts),
  `SoftmaxOfPrefix`.
* `OutputExact`, `ScratchSuffices` (`MarlinMoe`).
* `GroupsMatch`, `ColumnsMatch`, `CodesMatch` (`MarlinWeights`), each stated as
  an equivalence: it holds exactly outside the layers named in section 5, so the
  run also shows that those layers really go wrong.
* `ScaleFormatsAgree`, `ServesUnlessBroken` (`DeepGemmDispatch`), the second an
  equivalence too.
* `RanksAreOwn`, `LaunchEnds` (`ClusterLaunch`) and `RowsAreAnswers`
  (`BenchRunner`), checked in their composition `Evaluation`. The first names the
  only ways an earlier head or worker can be among what serves; the last says
  of every text and reason for its end how its row is counted.
* `DoneMeansPatched`, `WholePatches`, `FailsForCause`, `OriginalIsKept`,
  `RerunIsNoOp` (`PatchInstall`). The SGLang script asserts nothing, so the
  first two and the last are stated for the other three. `OriginalIsKept` excepts
  a backup whose copy failed or was cut short, which section 5 explains.

Every property is accompanied by a mutant of a modelled definition that breaks
it (`PROJECT.json`, "mutants"); the mutated forms stand beside the definitions
they replace.

**Fairness.** `ChunkSplit` and `TopkMerge` are sequential loops on one thread:
weak fairness of `Next` says only that a running loop goes on. `Evaluation` has
weak fairness of `Script`: each command of the launch script (ssh, docker, curl
with its time limit, sleep) comes to an end, and the shell goes on to the next.
Nothing is assumed of the containers: they need not join, answer or live, and
`LaunchEnds` rests on the number of polls alone. No other module assumes
fairness. Deadlock is checked in
`sparse_indexer` and `mla_cache`, where the server never stops, in
`deepgemm_dispatch`, where a process can always call again, and in
`chunk_split` and `topk_merge`, whose MC modules add a stutter for the returned
call alone. It is switched off in the other runs, where a script or a call
really ends.

## 4. The proofs

Checked by TLAPS for all values of the constants.

`ChunkSplitProof` proves `TypeOK`, `RowsTiled`, `WithinLimits`,
`GatherPrecedesReuse`, `ComputesPlan`, and that every step implements
`RowTiling`, assuming only `SplitConstants` (counts, rows, entries and limits are
naturals, at least one request). None of them is inductive: that the next slice
starts where the last one ended depends on what the two nested loops are in the
middle of. `IndInv` therefore adds, for each `pc`, what is open: `GroupTotals`
(the running sums are those of the requests taken), `InGroup` (everything before
the group is covered; the sums fit unless the group is empty), `InSlice` (the
rows covered are the group's first `min(m, qoff)`, the last chunk is of this very
group). The arithmetic core is four lemmas about `max_q`: at least one row, a
group that fits is not cut, a cut one respects the budget unless it is a single
row. `PlanInv` is for `ComputesPlan`: the chunks made so far, followed by the plan
of what is left, are the plan; within a group they are some whole groups and
the first `k` slices of this one. That the greedy `end` is the longest prefix
that fits (`GreedyIsLongest`) needs that a shorter prefix fits when a longer one
does (`FewerFit`).

`TopkMergeProof` proves `TypeOK`, `ExactTopK` and `ScoresBounded`, assuming only
`MergeConstants`. `ExactTopK` is about `out`, but the next merge compares with
`best`; `IndInv` adds `BestOfOut` (each slot's value is its key's total, or
minus infinity if it has none), `Summed` (the chunk's logits are the partial
sums of the heads added so far) and `Progress`. The step that matters,
`MergeIndInv`, rests on three lemmas about the abstract `torch.topk`: with no
room nothing is left out, what is left out beats nothing chosen (`TopKBeats`),
and with room to spare everything is taken (`TopKAll`); `KeyOrBetter` composes
the two selections.

`SparseIndexerProof` proves every safety property of `SparseIndexer` - `TypeOK`,
`CommittedKV`, `RowsExact`, `ReusedWorkspaceIsOwn` - and that every step
implements `ExactRows` (`RowsAnsweredOnce`), assuming `IndexerConstants`. The
invariant has three parts.

* `CacheInv` says what a layer's cache holds in the middle of a step, of which
  `CommittedKV` does not speak: the entries of the tokens committed before it,
  and with them those of this step's rows once the layer has been entered. Two
  actions are work: `InsertStep`, where the rows of a batch with padding and
  drafts are written, and `SampleStep`, where rejection takes tokens back and
  leaves their entries stale (`Added`, `Untouched` for the other requests).
* `StepInv` says which batches the scheduler hands over: what `build` and the
  op rely on about lengths, drafts, padding and their order.
* `RowsInv` follows a layer: which rows are answered after each chunk, that they
  are answered as wanted, and that the workspace holds what the last chunk gathers
  (`HoldsOwn`), which is what a chunk that skips the gather finds.

`RowsExact` needs that what `Build` makes is right for every batch. On the prefill
side `PlanPlans` carries the planner's contract over (what it tiles and when it
may reuse), `ChunksAre` that the chunks without compressed entries may be dropped,
and `ScoredRow` that the window a chunk computes for a row is the row's own
entries. On the decode side `FlatRow`, `GroupedRow` and `NoRow` show the same of
the two shapes and of padding, `FlatWidth` and `GroupedWidth` that the unpacked
buffer is wide enough. The arithmetic of compressed entries is `Quotient`,
`ExactMultiple` and `Completed`: with compression `d`, entry `n` is complete
exactly when token `(n + 1) * d` is there.

`FallbackProof` proves `TypeOK`, `NoRaces`, `TableReadsInside` and `ResultExact`,
assuming `KernelConstants`. `GridInv` says only that the kernel and the grid are
those of the call; from it follow that two programs with a cell in common are
one (`TilesApart`, `OneStore`), that every cell is some program's (`GridCovers`,
`Covered`) and that a tile's last page is in the table (`PageInside`,
`RanksInside`). `ResultInv` adds what has been computed: a cell holds its final
value from when its program has run (`Settled`), or, in the torch loop over heads,
has been added to by exactly the heads whose step is done (`Counted`,
`AddedOnce`). `ValueIsFinal` finds that final value to be the promised one
through the page table (`TokenFound`) and the windows, `PartialsAddUp` for split-K.
`KernelConstants` asks of a matrix product at least one split, by which the kernel
divides, and one column: the program of the first column tile stores the sums of
squares, and there is none without a column.

`MlaCacheProof` proves `TypeOK`, `SoftmaxOfPrefix` and `StoresRecords`: the cache
of bytes, read under either layout, implements `KvMap`. It assumes
`RecordConstants` and `CacheConstants`, among them that the two layouts differ in
width, which is how the code tells them apart. `Parts` and `Offsets` show that
the parts of a record do not overlap, `NopeRead`, `ScaleRead`, `RopeRead` that
each reader looks where the writer put it, `SlotsApart` that slots are disjoint
in the product of slot and width; `Arrives` and `OthersKept` then make a scatter program one
write of the map. For the softmax, `SoftmaxInv` says that between two tiles the
running maximum, denominator and accumulator are those of the candidates seen,
and that they are reset outside a call. One tile is `TileSoftmax`: the maximum of
a union (`TopOfUnion`), what was summed under the old maximum rescaled to the new
one (`RescaledIs`, exact because a smaller maximum's weights are multiples), and
the sums of two disjoint sets of candidates (`WeighedUnion`).

`MarlinProof` proves, of `MarlinMoe`, `TypeOK`, `ScratchSuffices` and `OutputExact`,
assuming `MoeConstants`. The arguments do not change during a call, so the work of the
second is `Fits`, the arithmetic of three callers' buffers against the tensors
laid over them. For the third, `MoeInv` says kernel by kernel which tensors of
the shared memory are live and what they hold (`PhaseInv`: the gate and up
products until they are activated, the cleared rows and the down products after
them, the summed rows at the end) and nothing of the rest, which may be junk or a
dead tensor. That a kernel which writes one tensor spares the other live ones is
`Places` (which two share a buffer) and `RowsApart`.

Of `MarlinWeights` the same module proves `GroupsMatch`, `ColumnsMatch` and
`CodesMatch`, for any hidden and intermediate sizes, any number of ranks and every
rank of them. `WeightConstants` asks that tensor parallelism divides the sizes it
splits evenly, and of the methods what their configurations allow: no activation
order for AWQ, one with a `g_idx` or none for GPTQ, the modular kernel for experts
only. That the kernel's own size conditions hold is not assumed but follows from
the checks that `Choose` makes (`Sizes`). The steps rewrite the tensors in place,
so none of the three is inductive: at the end nothing tells what a tensor went
through. `WeightsInv` says what each tensor is at every stage as a function of the
layer alone (`WeightsHeld`, `ScalesHeld`, `ZerosHeld`, `OrderHeld`), with what the
refusals that were passed say of the layer (`Passed`); TLC checked it first. Each
step is due in one stage of each method (`Before`), and the steps that undo AWQ's
packing undo it exactly (`UndoneAwq`). The rest is about the layer:

* `GroupsMatch`: argsort places every row once (`SortPlacesAll`: the ranks of the
  rows are distinct, hence all there), so sorted rows meet their `g_idx`. Without
  one, dividing a rank's rows equally finds their groups (`Regrouped`,
  `OwnGroups`), also for the single group of a channel (`OneRowFound`), and cannot
  when a rank of several holds the scales of all (`EqualDivision`): row 0 of a
  later rank, and the first row after the kernel's too small group on rank 0, are
  given the scale of another group, if the division is not refused.
* `ColumnsMatch`: the orders of groups and of channels differ on the columns of
  every layer, and so do zero points with and without the interleaving
  (`OrdersDiffer`); so they agree exactly where the methods' and the kernel's tests
  do (`ScaleTests`).
* `CodesMatch`: integer scales are taken exactly when there are several rows of
  them (`SeveralRows`), though a linear layer asks its sizes and the kernel the
  scales.

`DeepGemmProof` proves `ScaleFormatsAgree` and `ServesUnlessBroken` for every
family of libraries. Neither is inductive: the caches must follow from the
environment and from how far the lookup has got (`ModuleFits`, `LookupFits`,
`AnswerFits`, `CallFits`), and a layer must have passed its gate (`GateHeld`).
The case that needs care is a failed import that works later, which must not
leave an answer of "no" behind (`AnswerFits`).

`DeploymentProof` proves every property of `PatchInstall` - `TypeOK`,
`DoneMeansPatched`, `WholePatches`, `FailsForCause`, `OriginalIsKept` and the
action property `RerunIsNoOp` - for any number of runs and kills and any number
of edits that do not fit the image, assuming `InstallConstants`. It goes in two
halves. `Orderly` and `Scripted` list what matters about a script's steps: among
others that two patches of one file make different edits and the earlier one does
not bring the later one's marker, that nothing edited is copied over later except
the file that brings its edits along, that a file not parsed before it is
written is parsed by the last step. Each of the four scripts is shown to have
these facts (`Sm12xIsOrderly` and its like); of the machine they are all that is
used. Its invariant `InstallInv` adds to the types:

* `WholeInOrder`, for a file that is whole: each patch has been made as a whole or
  not at all, and only after the earlier ones on that file. Without the order
  `WholePatches` is not inductive, as a marker would not tell whether its own
  patch was made: `MarkerFound` and `MarkerMissing` are that step.
* `EditInv` and `WriteInv`, for the text in memory: it is the file's text with the
  first edits of this step made, and it is complete once the file has been opened,
  so that what the write leaves has the patch as a whole.
* `PassedInv`, what the steps behind this one have left on disk, counting the text
  about to be written; at the end of a script it is `DoneMeansPatched`.
* `CauseIn`, for what a failed run may blame, and `BackupInv`, for a script whose
  backups have all been completed: while the backup is being copied the Marlin
  file is as shipped, outside of the copy the backup is not empty, and past its
  step it is there - for which the order of two steps in the script is the reason.
  A copy that fails takes none of this along: it sets `unbacked`, and the rest of
  the invariant does not rest on the backup.

TLC checked `InstallInv` on the bounds of `patch_install` before the proof.

The same module proves `RowsAreAnswers` and `RanksAreOwn` for any workers,
bounds, questions and threads. `RowsInv` ties what a thread holds to its last
attempt (`RowFollows`), through every text and reason for its end; `RanksInv` adds
to the types `HeadIsOld` (until its launcher has run the head is of an earlier
experiment, and afterwards only on a node where nothing got rid of it), `HeadAlone`
(its launch is a group of one command) and, for each worker, `Rid`: a node that was
cleared or freed has no container of another experiment, and a cleared one gives
away no rank.

Sums, folds and recursive definitions over a call's data are unfolded once, as the
function their definition chooses (`SumExists`, `PlanExists`, `WeighedIs`), and
followed by induction over a set of naturals that has a least element (`LeastOf`,
`Induction`).

Every safety property of every passing run is thus proved. Only model-checked is
liveness: `Terminates` twice, `LaunchEnds`, and the liveness part of
`HandsOutRows`.

## 5. Disagreements found

* `patch_kernels`: `nvfp4-mla-kv/run.sh` copies kernels from `$REPO/src/`, which
  does not exist in the repository; it skips the copy silently, points the store
  dispatch at a function of that kernel file, and reports DONE. Its README says
  it copies the kernels.
* `patch_recipe`: `sm12x-deepgemm-bypass/run.sh` looks for `kernels/` beside
  itself; the repository calls the directory `kernels-from-cosmicraisins`, and
  `BUILD.md` copies the upstream one elsewhere. The build step it describes
  fails at the first `install`.

Met while modelling, and either shown by the exact form of a passing run's
property or only noted:

* `AsymEightBit` (`marlin_weights`): the patched experts convert their zero points
  for 16-bit inputs whatever `VLLM_MARLIN_INPUT_DTYPE` is, and for fp8 inputs
  re-code the weights as symmetric ones. The recipe leaves the variable unset.
* `OrderWithoutIdx` (`marlin_weights`): activation order "weight" on several ranks
  loads the scales of all groups for `w2` but no `g_idx` to pick the rank's own.
* `GroupAtInter` (`marlin_weights`): the AWQ and GPTQ experts choose the order of
  `w13`'s scales by the rank's intermediate size, the kernel by the hidden size;
  they part when a group is not below the former.
* `OneGroup` (`marlin_weights`), met when the property was stated for all sizes: a
  layer whose rank has a single group of rows. Experts permute the one row of
  `w13`'s scales as groups (the patched ones compare the group with twice the
  output size, the others with the rank's intermediate size), where the kernel
  expects a channel; a row-parallel linear layer with a `g_idx` permutes as a
  channel the rows of all ranks' groups. It takes an input size of 128 and groups
  of 128.
* `LostFactor` (`marlin_weights`): integer scales through the modular kernel of
  compressed-tensors and GPTQ experts lose their common factor, for which their
  quantization configuration has no field set. A linear layer with int8 inputs and
  one group raises instead.
* `ServesUnlessBroken` (`deepgemm_dispatch`): with the bypass on a GB10, a
  `deep_gemm` package that is found but lacks the metadata symbol, or does not
  import, still fails each step: that call is not routed to a fallback, though
  the installer says DeepGEMM is not needed (`sm12x-deepgemm-bypass/run.sh:246-248`).
* `RowsAreAnswers` (`evaluation`): an answer cut short three times is counted in
  the denominator (`hybrid_gsm8k.py:55` says that it is not scored as wrong: it
  counts as empty, and still lowers the share); a complete text without an answer
  counts as wrong, not as empty, except for programs, where sanitizing leaves
  nothing; the text of an error stands where an answer does, and its status code
  may be the right one: that row counts as right and as empty. A program whose
  reply ended for a reason other than "stop" or "length", or without one, is kept
  as ok, where `hybrid_codegen.py:32` says of the retries "finish must be 'stop'";
  the other two runners score such a reply too, and promise nothing.
* `RanksAreOwn` (`evaluation`): the script starts the head first, where
  `launch-glm52-tp4.sh:10` says workers first, and passes over a clearing, an ssh or
  a `docker rm -f` that fails. A worker left over may then take a rank; an old head
  left over, whose name the new one needs, answers the polls in its place. Either
  way the script says READY and the benchmark measures an earlier experiment.
* `OriginalIsKept` (`patch_install`): the backup of the Marlin file is made unless
  there is one, and its failure is passed over (`asym-moe-marlin/run.sh:18`). A copy
  that was cut short, by a kill or an error, leaves a partial backup that no later
  run makes again; the file is edited all the same and its original is lost. Where
  the copy failed before it began, the file is edited without a backup, and a later
  run backs up the edited file as the original. The property says that these are
  the only ways.
* Noted: `sglang-tilelang-dsa/run.sh` passes over replacements that find nothing
  and still reports done.

## 6. What is left out

* Floating point: logits, softmax, quantization error. Their control (masks,
  chunk loops, early exits, layouts) is modelled.
* In `FallbackKernels`, the loop over the head dimension and the byte layout of
  the packed page view; the Triton logits kernels compute page offsets in 32
  bits, which is assumed enough for the cache. `MlaCache` has the offsets of the
  store as naturals, like the code's 64-bit product; no run reaches 2^31, so
  nothing is shown of a product that would be narrower.
* In `MlaCache`, the bf16 prefill entry point, whose kernel is vLLM's, and the
  attention sink.
* In `MarlinMoe`, LoRA, the quantization of activations and block sizes; a
  `topk_ids` of -1, which comes only with an expert map.
* In `MarlinWeights`, 8-bit weights, biases, the Flashinfer backend, platforms
  other than CUDA, and one expert against another: all are treated alike.
* In `DeepGemmDispatch`, what kernels compute, programmatic dependent launch, the
  path of the JIT cache, the predicates that choose DeepGEMM for a linear layer,
  and calls from several threads at once (the code takes no lock).
* In `ClusterLaunch` and `BenchRunner`, page caches, the copy of the launcher, the
  server's options, prompts, waits, the extraction expressions, the `fin` column,
  which is written and never counted, and the sandboxed grading; of the other
  launch scripts only what they share with this one; the
  throughput script, which measures and decides nothing.
* Performance, profiling branches, logging; FP4 indexer caches, XPU and HIP
  branches, which the recipe does not take.
* Not modelled at all: the b12x sparse MLA helper, a guarded call of an optional
  library that nothing in the repository calls; most of `fmoe_config.py` and
  `_custom_ops.py`, configurations of other formats and bindings of other
  operators; `sparse-mla-sm121a`, a pointer to a fork; results and prose.
* Writes of Python's cut short by a full disk (a copy that fails is modelled); two
  installers running at once.

## 7. What could come next

Every component that decides something has its module, and every safety property
of a run its proof. Worth adding are 8-bit weights and the Flashinfer backend in
`MarlinWeights`: their steps are others, the three properties would be the same.

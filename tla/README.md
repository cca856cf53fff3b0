# EncodingsPlayground: TLA+ specifications

EncodingsPlayground is a C++23 library of integer encodings (codecs) and a
benchmark harness around them. Almost everything is a header under
`src/Source`; `src/Benchmarks` holds the drivers and `src/Tests` the tests.
This directory holds TLA+ modules for its parts with control worth checking,
TLC configurations for them, and machine-checked proofs about the core.

## 1. Inventory

### Codecs

| Part | State | Operations | What is hard, and what makes it correct |
|---|---|---|---|
| Decoder contract (`encodings/Encoder.hpp`, `RowRange.hpp`) | none | `decodeAll`, `decodeAt`, `decodeRange`, `decodeAllInto`, `decodeRangeInto`, `decodeGatherInto` and their defaults | Overrides must agree with the defaults: clamping, sizes, order of the ranges, what an exception leaves behind. |
| `SubIntSplitEncoder` decoding | section buffers, futures, output array | the same six | Two waves of `std::async` tasks that share buffers and the output array without locks, exceptions from any of them, and a partition into chunks with rounding. Tasks must not outlive their buffers, writers must be disjoint, every row must come out whole. |
| `SubIntSplitEncoder` caches | `cachedHeader_` and its key; the caches inside every section codec | read by every decode; cleared by some `encode`s | Keyed by addresses of freed and reused memory. A decode must read the buffer it is given. |
| `SubIntSplitEncoder` encoding | section arrays, per-section results | `encode` | A parallel fan-out with the same exception paths, writing `encodedSections[s]`. |
| `SubIntSplitAuto` | chosen configuration | `encode` (lazily configures), `reset`, decode | A decode after a reset, or after an encode with another plan, meets a header its configuration rejects. |
| Runs, dictionaries, frames (`RunLength`, `MainlyConstant`, `Dictionary`, `AdaptiveDictionary`, `FOR`, `CascadingFOR`, `AdaptiveFOR`, `RangePack`) | views parsed last | same six | Run search and its resumption in a gather, ranks in bitmaps, key widths and word boundaries, references of frames a range starts in the middle of, overflow of differences. |
| Partitions by frequency (`FrequencyPartition`, `BlockFrequencyPartition`, `BlockFORFPE`) | views parsed last, tasks of a parallel decode | same six | The place of a row in its tier, or among the rows in none, from samples taken every so often; fields that start anywhere in a byte. |
| Differences (`Delta`, `DeltaVarInt`, `DeltaRunLength`, `DeltaPrepass`, `DeltaSubInt`, `VarInt`) | rows decoded last | same six | Values wrap around; a range starts in the middle of a running sum; a stream that can only be walked from its start. |
| Bits (`RawBitPacked`, `AdaptiveFramedBitPrefix`, `SubInt`, `BitParentheses`, `Huffman`, `FSE`, `BlockFSE`) | views parsed last; the decode table of the block before (`BlockFSE`) | same six | Fields over word boundaries, accumulators at their limit, seeks, tables of the two sides that must be the same. |
| `BWTSection` | none | same six | Windows rotated and restored by themselves. |
| Zstd, LZ4, OpenZL | none of their own | encode, decode | External libraries. |
| `TriSplit`, `Spherical`, map and vector encoders, `Composed`, `Raw` | (one) header cache | encode, decode | Layout, floating point. |
| Selector (`selectors/`, `analysis/`) | cost tables | choose bit boundaries and codecs | A dynamic programme; must return a partition of the word of least cost. |

### Reordering

`Reorderer`s permute or transform values (sort, windowed sort, Gray code,
move-to-front, BWT, bit shuffle); `PermutationStore` encodes the permutation;
`ReorderingCodec` stores both and maps positions back on decode, and may keep the
permutation of the artifact it decoded last. Correct when position *i* of the
decode is position *i* of the input on every entry point.

### Benchmark harness

| Part | State | Operations | What is hard |
|---|---|---|---|
| `ArtifactCache`, `DatasetCache` | LRU list and index; resident datasets | `get`, `evict`, `clear`; `materialize`, `releaseAll` | Artifacts share the codec object they were encoded with; a resident artifact must remain decodable. |
| `AllocationTracker` with `allocation_hooks.cpp` | atomic counters, nesting | `start`, `stop`, hooks on any thread | Counting across threads and nested measurements; peak and net. |
| `MeasureLoop`, `DecodeHarness` | none | warm-up, timed loop | Each repetition must decode into memory of the right size. |
| Runner, output, registries, traces, grids, generators | tables | command line, printing | No control worth a model. |

### How the parts interact

A driver asks `ArtifactCache` for an encoded dataset; the cache calls `encode`
of the registry's codec object and keeps the buffer. `DecodeHarness` calls the
decode entry points of the same codec object on it. `SubIntSplitEncoder` calls
one section codec per bit section through `TypedSectionCodecAdapter`
(`SubIntEncodingUtils.hpp`), on its own thread or from `std::async` tasks. Codecs
hand what they make (residuals, differences, exceptions, reordered rows) to inner
codecs. The buffers belong to the caller: nothing tells a codec that one was freed.

## 2. Modules

State machines:

| Module | Models |
|---|---|
| `Decoder` | the promises of `Encoder.hpp`: the abstract specification |
| `SubIntSplitDecode` | the decode paths of `SubIntSplitEncoder`; refines `Decoder` |
| `SubIntSplitCache` | header cache and section caches over a heap |
| `SubIntSplitEncode` | `encode`, the buffer's layout and how it is read back |
| `Selector` | `IDSubStreamEncodingSelector::select`, and `ensureEncoder` down to the configuration |
| `ArtifactCache` | the drivers' LRU of artifacts, with the codec state they share |
| `AllocationTracker` | allocation hooks on all threads, and the guard |
| `Codecs` | a codec, the column it encoded and the calls on it; `RunLength` and `MainlyConstant` are its codecs |
| `OtherCodecs` | `Codecs` with all other codecs: what each makes of a column, and how it answers |

`Codecs` takes what it does not know of as constant operators (`OtherEncodings`, `OtherAnswer`,
`OtherHeld`), which the runs set to the operators of `OtherCodecs`: theorems about `Codecs`
then hold with any other codecs beside those they are about.

Operators, used by `Codecs` and `OtherCodecs`:

| Module | Models |
|---|---|
| `Arithmetic` (also used by `SubIntSplitEncode`) | powers and sums as recursive functions |
| `CodecContract` | what a call of `Encoder.hpp` is to answer, and its default methods |
| `Packing` | bit streams by words (`RawBitPacked`, `DictionaryHelpers.hpp`) and by bytes (`core/BitPacker.hpp`) |
| `RunLength`, `MainlyConstant`, `Delta`, `RawBitPacked`, `AdaptiveFOR`, `AdaptiveFramedBitPrefix`, `SubInt`, `FrequencyPartition`, `BlockFrequencyPartition`, `BlockFORFPE`, `BitParentheses`, `Huffman` | one codec each: its encodings and its six entry points |
| `Dictionary` | `DictionaryEncoder` and `AdaptiveDictionaryEncoder` |
| `VarInt` | `VarIntEncoder` and `DeltaVarIntEncoder` |
| `DeltaStreams` | `DeltaRunLengthEncoder`, `DeltaPrepassEncoder`, `DeltaSubIntEncoder` (`DeltaCodec.hpp`) |
| `Frames` | `FOREncoder`, `CascadingFOREncoder`, `RangePackEncoder` |
| `FSE` | `FSEEncoder`, `BlockFSEEncoder` |
| `Reordering`, `PermutationStore` | `ReorderingCodec` with its reorderers and the formats of a permutation, `BitShuffleCodec`, `BWTSectionEncoder` |

`MCSubIntSplitDecode`, `MCSubIntSplitCache`, `MCSubIntSplitEncode`, `MCSelector` and
`MCCodecs` hold instances for TLC. The TLAPS proofs are in modules of their own:

| Module | Proves about |
|---|---|
| `Induction` | nothing in particular: recursion and induction on the naturals, powers, sums, digits, sums over finite sets |
| `SubIntSplitDecodeProofs` | the decode paths: lifetimes, phases, writers, ranges, then the memory they deliver to and the refinement of `Decoder` |
| `CodecsProofs` | `Codecs`: `RunLength` and `MainlyConstant` keep the contract |
| `SubIntSplitCacheProofs`, `SubIntSplitEncodeProofs`, `SelectorProofs`, `ArtifactCacheProofs`, `AllocationTrackerProofs` | the module of that name |

`SubIntSplitDecode`, `SubIntSplitCache` and `SubIntSplitEncode` are three views of one
class, each with its own abstraction of the buffer: tokens per row and section,
a content per address, and cells with bit arithmetic. No module puts them together:
the encode touches the decode side only through the caches (`Encode` in
`SubIntSplitCache`).

### `SubIntSplitDecode`

The caller is a program counter (`pc`) with one action per step of
`decodeRangeInto`; the other entry points differ in the range they pass
(`Requests`), in what the destination holds before (`Fill`) and, for a gather,
in looping over ranges. `secTask` and `chunkTask` are the tasks and their
futures; `live` and `pre` are the `preDecoded` vectors. Any allocation, thread
start or codec may throw (`SpawnPreFails`, `SpawnChunkFails`, `PreTask`,
`SeqPreFails`, `SeqCombineFails`, `DecodeAt`), and `Unwind` is what the
destructors do: futures wait for their tasks, then the buffers go.

A section's value of a row is a token and a memory cell the set of tokens OR-ed
into it, so a missing section, a foreign row, or memory that was never written
shows. Bit positions and chunk-local vector loops are not modelled; sections
have disjoint bits by `validate()`. Callers keep the ranges of a gather within the
rows; what happens otherwise is under "Left out of a property" below.

### `SubIntSplitCache`

Encoded buffers occupy `OuterAddrs` and the section views of the cached header
occupy `ViewAddrs`; both are handed out nondeterministically and may be handed
out again. A dataset determines row count, size, and per section the size,
layout (what a view cache remembers: counts, widths, offsets) and values.
`Delivered` says what reading through a cache yields: the right section when
what the cache remembers fits, garbage otherwise. `ReadsWhatItIsGiven` is about the
callers in `Careful`. One of its conditions is that buffers have rows: the header of an
empty buffer has no views, so once it is cached every view address is free, among them the
one at which a section's cache still holds what it read before.

### `SubIntSplitEncode`

`Split` fills `sectionsRaw`; the sections are encoded in turn or by one task each;
`Layout` assembles the buffer. Every allocation, thread start and codec may
throw, after which `Unwind` waits for the tasks as the futures' destructors do.
The splitting shifts are the writer's, those in `Parse` the reader's: the code
computes them separately, and `RoundTrip` says that they agree. A section codec emits
one cell per value, or one in all for constant data, so that payloads differ in
size and offsets matter.

### `Selector`

`Fill` tabulates the costs (`fillBestCosts`), `Search` runs one of the four
searches, `Check` is the retry without pruning, `MergeTwo`, `MergeNone` and
`MergePassDone` are `tryMergeAdjacentSegments`, `Configure` is the rest of
`ensureEncoder` with `fromSegments`. What the cost models and metrics say of a
sample (floating point in the code) is an arbitrary table of naturals, so the properties
hold whatever the models say. The reference is `LeastCost`, the minimum
over all subsets of cut positions. Of the encoding chosen for a segment the model keeps
whether `fromSegments` can build it (`built`): it throws in the `default:` of its switch
(`SubIntEncodingUtils.hpp:1223`), which it reaches only for segments without a reorderer.
`uncased` are the segments whose cheapest encoding by itself has no case there, and
`tied` those on which a reorderer that saves nothing is met first and taken. A merged
segment has no reorderer, so a merge may bring in such an encoding, or remove one.

That switch does lack an encoding that can be selected:
`BlockFrequencyPartitionFOREncoding` is among the default cost models
(`SubIntSplitEncoder.hpp:1615`, `EncodingCostModel.hpp:963-965`), and the manual
constructors build it (`SubIntSplitEncoder.hpp:1027` and 1176), but `fromSegments` has no
case for it. A plan that uses it makes `encode` throw, and as no encoder was made, the next
`encode` selects again. `PlanConfigures` therefore does not say that every plan is
configured: it says that a plan that was found is refused for such a segment only. No
comment, document or test promises more.

On samples narrower than 64 bits `Pruned` covers the whole width too, although a
comment in `select` calls it exempt from both tests: the range test excludes
widths of 64, not the full range. The retry makes up for it
(`CollapseIsCheapest` is checked with `Is64 = FALSE`).

### `Codecs`

An action is one call of `Encoder.hpp` on one encoding. The codec modules are pure: an
encoding is a record, and each entry point an operator from an encoding and a call to
rows, a `nullopt` or an exception. `Encodings` holds every encoding the
encoder may choose: where the code estimates sizes and takes the cheapest of several
plans (block sizes, tiers, frame sizes, dictionaries), any plan may be taken, so the
properties do not rest on the estimates. `Expected` is the reference, which
knows only the column. Rows an entry point leaves unwritten are `Junk`.

What each codec module keeps of its code is what could go wrong in it:

* `RunLength` keeps the two run searches apart (interpolation over raw runs,
  bisection over composed ones) and the run a gather resumes from.
* `MainlyConstant` keeps the words of its bitmap, because the masks at their edges are
  what its ranks depend on, and chains of encoders, each reading what the next one answers
  (a function from levels to the rows or ranges they answer); `FrequencyPartition` keeps the
  words of bitmaps, block counts, sampled ranks of tags and the two halves of
  Elias-Fano rows.
* `Packing` writes and reads streams of bits as the code does: whole words, single fields
  with their spill, `readFast` with its accumulator, `seekToBit`.
* `Frames` and `AdaptiveFOR` keep references apart from residuals; sums overflow only in
  the second, whose width estimate depends on it. `Delta`, `VarInt` and
  `DeltaStreams` wrap around like the integers they store.
* `AdaptiveFramedBitPrefix` keeps the three loops that read suffixes, and lets a shift by
  the whole width, which C++ leaves open, do either of what compilers make of it.
* `BitParentheses` keeps the runs of bits and the cursor that is carried from count to
  count. `Huffman` builds any tree the heap may build, the canonical codes, both
  bit streams and both ways to read a code. `FSE` normalises frequencies, spreads
  symbols, builds the tables of both sides and streams the bits backwards;
  `BlockFSE` keeps its decode table from block to block as the code does.
* `PermutationStore` keeps the seven formats, and `Reordering` the codec's setups
  (random access, bypassed overrides, a resident permutation) on each entry point.

Inner codecs return what they were given. Views and headers that standalone codecs
cache by address are left out (they go the way of `SubIntSplitCache`), and so are
the contents of compressed streams. Callers do not pass ranges that run backwards, on which some
codecs reserve a vector of negative length. Calls of `MainlyConstant` that fill memory
return without writing when `n` is wrong, where the defaults throw; callers pass the
right `n`.

### `AllocationTracker`

Each atomic operation of `recordAlloc`, `recordFree` and the guard is a step of
its thread; `at` is where a thread is in `operator new` or `delete`. `Workers` are the
threads the measured code starts and joins while the guard is open,
`Background` all others. `own` and `high` are history variables that no
action reads. Atomics are sequentially consistent in the model. The code asks for less:
relaxed loads may return older peaks, which only fail the compare-and-exchange, and
measured threads are started after, and joined before, the guard's own steps. The model opens
one guard at a time, as all drivers do; with nested guards the inner one would
reset the peak and drop the flag of the outer.

### `ArtifactCache`

One action per outcome of `get` (`GetHit`, `GetMiss`, `GetThrows`), `Evict` and
`Clear`. List nodes have identities, so an index entry that outlives its node shows.
`Autos` are the encoders whose codec is a `SubIntSplitAuto`; `uses` is a history, the
resident keys with the latest used first.
`Runs` are the plans that the `encode` calls of one request go through: `reset` drops
the plan, the first `encode` selects one and the rest keep it (a comment in
`ArtifactCache.hpp` and CONVENTIONS section 2 say that every `encode` selects
again; `ensureEncoder` returns early when there is a plan). `past` restricts the
driver to what the class asks of it: a cache of more than one entry serves encoders
within one dataset. The default of one entry needs no such care, with one exception
that `HeldDecodes` leaves out (`broken`): `encode` resets the codec first, so when it
throws, artifacts of the same codec for other data are resident but no longer
decodable, and a later `get` is a hit. `DatasetCache` is left out: it grows until it is
emptied, and the drivers evict before they empty it.

## 3. Runs

| Run | Shows |
|---|---|
| `decode` | Nine rows in chunks of two, three sections, one of them without random access, at most four threads; all entry points, with parallel decoding and without; any task or step may throw. An uneven last span, a short last chunk and an idle fourth thread occur. Safety, refinement of `Decoder`, and that every call ends. |
| `cache` | Two kinds of callers. One whose buffers differ in size and whose decodes are sequential: buffers and views are reused and no decode is ever wrong. One with buffers of equal sizes, an empty one, parallel decodes, calls past the end and exceptions: the row count at least is always right. |
| `encode` | All splits of a three-bit value in both orders, in turn and in parallel, over all inputs of at most two values; any step or task may throw. Round trip, lifetimes of the arrays, and that every encode ends. |
| `selector` | All tables of three costs, infinite included, over the six segments of a three-bit value, through all four searches; all patterns of pruning; all merges, into segments that were pruned, with a reorderer that saves on one width; all sets of widths whose encoding `fromSegments` cannot build, with and without merging. |
| `artifact_cache` | Two encoders, one with a plan, two streams, all kinds of measurement, a bound of one (also given as 0) or two; encodes may throw at any point. The list and its index, what a driver holds, and that it decodes. |
| `allocation_tracker` | The measuring thread, one it starts and one it does not, two blocks, two guards: the reported peak, the count and the monotone peak. |
| `codecs` | Thirty-six codecs (two of them forms of `RunLength`, four the indexes of `FrequencyPartition`, five the reorderers of `ReorderingCodec`), every column of three to six rows, every plan of the encoder, on every call: all ranges and positions up to one past the end, all gathers (of two ranges where a codec has a gather of its own). |
| `stale_header`, `adaptive_for`, `wide_raw_group`, `residual_bits`, `zero_counts` | *Expected violations*: see Findings. |

**Bounds.** The partition of `SubIntSplitDecode` depends only on the number of chunks
and of threads: with five chunks and four threads the spans are 2, 2, 1 and none, so
rounding, the cut-off last span and the thread without work all occur. Three sections give
a first, a middle and a last one. In the cache module two outer addresses suffice for
reuse (the passing run has three), and twice the number of sections is the least number
of views with which a header can be replaced: the new views are allocated before the old
are freed. Addresses are only compared, so the run takes them up to symmetry.

Three bits give `SubIntSplitEncode` a first, a middle and a last section and
sections as wide as the value. In `Selector` they give all four cuts, forced
counts below, at and above what fits (`forced = 4`), and minimum widths that
forbid cuts. Two counts in flight and two guards are what a lost update, or a count
carried from one guard to the next, takes; the proofs have no bounds.

In `Codecs`, words, bytes, blocks, windows and strides are scaled down with the columns so
that columns of a few rows cross them: words of three bits, bytes of one or two bits,
blocks of two to four rows, rank samples every two rows, FSE tables of four and of
sixteen states, Huffman lookup tables of two bits below codes of three. Values have
three bits (`AdaptiveFOR` and the bit prefixes four, signed or with a suffix as wide
as the value), and sets of three to five of them are chosen so that they wrap around,
share prefixes, or need several groups. Codecs that only tell equal values from others, or
only compare them, are given one column of each pattern (`Columns`). The symbols of FSE
columns first occur in order, which is a bound: its tables are sorted by symbol. Most
columns have up to four rows, those of cheap codecs five or six, those of codecs with many
plans three. A gather through the default method is a call per range, so one range is
enough there.

**Fairness.** `SubIntSplitDecode` assumes weak fairness of the caller and of each
task: a thread that was started runs, and the caller runs whenever it does not
wait in `future::get`. Codecs are assumed to return or throw. `Call` has no
fairness, nor has `Encode` in `SubIntSplitEncode`, which assumes the same of its
caller and tasks. `Selector` assumes it of the merge loop and what follows it, one
thread's own steps. The other modules have no liveness properties.

**Mutants.** Every property of a passing run has a changed definition (marked
"mutant of" where it is declared) under which TLC finds it violated.

**Left out of a property.** Where the code answers otherwise than the contract asks, and no
statement of the repository decides the case, the property names the calls it leaves out:

* `DeltaAgrees`: `DeltaEncoder::decodeRange` (line 217) adds the difference that leads
  to its first row twice when that row is not row 0, so every value it returns is off by
  it; ranges and gathers that fill memory go through it. `DeltaVarIntEncoder` and
  `DeltaRunLengthEncoder` return their first value for an empty column, the second for
  an empty range too (`AnchorForNoRow`).
* `PackedAgrees`: `AdaptiveFramedBitPrefixEncoder::decodeAt` (line 193) shifts by 64
  when a frame shares no bit (`WholeSuffix`); the cases of the findings below. Nothing
  is left out for `HuffmanEncoder`, although the comment at its head (lines 27-28)
  says that `decodeAt()` and `decodeRange()` throw: the code (lines 452-473) decodes
  everything and returns the rows, as the contract asks, and model and property follow the
  code. The comment is out of date.
* `FramesAgree` and `BlockPartitionAgrees`: the cases of the findings below.
* `ReorderedAgrees`: `ReorderingCodec::decodeAt` takes every blob for a permutation, and
  `decodeRange` a Gray code for rows in place (`FormTakenForOrder`): values come out
  coded, or the code divides by zero. The blob of an empty column is read all the same by
  MTF and BWT (`EmptyBlobRead`), as `BWTSectionEncoder` reads the encoding of one. A
  range that is empty beyond the last row is refused (`EmptyPastEnd`).
* `FrequencyPartitionEncoder::decodeRangeInto` throws for a range without rows
  (`Refused` says so in the reference). Codecs by blocks leave rows that are not there
  unwritten instead of throwing (`Silent`).
* In `decode`, callers keep the ranges of a gather within the rows:
  `SubIntSplitEncoder::decodeGatherInto` (line 549) counts unclamped sizes while it
  delivers clamped ranges, so a list whose last range passes the last row returns
  normally with slots it never wrote.

Met while reading and outside of what the runs reach: a frequency that FSE stores in 16 bits
although a table for more than 131072 symbols may give one symbol more (such a column
encodes without an error and does not decode); `Sort` with the permutation format `None`,
which no decode can undo; and caches keyed by address without a size, or with one, in
`BlockFORFPE`, `BlockFrequencyPartition`, `BlockFSE`, `FrequencyPartition`, `DeltaPrepass`,
`SubInt`, `FOR`, `CascadingFOR`, `RangePack` and `ReorderingCodec` (its resident permutation is
keyed by the row count), each exposed like the two caches `SubIntSplitCache` models: what
it shows of the section caches, under parallel decodes or equal sizes, holds for these.

## 4. Proofs

`SubIntSplitDecodeProofs` proves, for every number of rows, sections and
threads, every chunk size and every set of requests satisfying the module's
assumptions, that `IInv` is an invariant, and from it `TypeOK`,
`TasksUseLiveBuffers`, `NoTaskOutlivesCall`, `PhasesDoNotOverlap`,
`DisjointWriters` and `RangeExact`.

None of these is inductive. `IInv` adds what holds at each program point of the caller: which tasks
exist and which buffers are live (`SectionInv`, `ChunkTaskInv`), that a joined
buffer holds its whole section (`BufferInv`), that each task's cursor is in its
span and everything behind the cursor is complete (`CursorInv`,
`ProgressInv`), and the same for the sequential loop (`SequentialInv`).
`RangeExact` then follows because the spans cover all chunks and the chunks all
rows, which is integer arithmetic proved as lemmas about `CeilDiv`,
`FirstChunk` and `LastChunk`. There is one lemma per action, and one step per conjunct
the action can disturb.

The second half of the module adds the destination. `FailedPredecodeStoresNothing` needs
that what lies behind the output offset is as the call found it (`FreshInv`): nothing is
stored before the codec tasks are joined, and once accumulation has begun only slots of
the range. The refinement (`DecodeImplementsContract`) needs that the rows of all ranges
before the one at hand are delivered (`DeliveredInv`). It shows that initial states map to
initial states and that every step maps to a step of `Decoder` or to a stutter; the
fairness of `Decoder` stays with TLC (`ImplementsDecoder` in the run has both). Its one
hypothesis is that every request `Fits`: gathers stay within the rows (elsewhere the code
does break the contract, see above), and the destination has room for what is selected,
which the code has no way to check. All calls of the run `decode` fit.

`SubIntSplitCacheProofs` proves the three invariants of `SubIntSplitCache` for every
number of sections, addresses, datasets and mix of codecs. The invariant behind
`ReadsWhatItIsGiven` is `CachesFollowHeader`: in a careful caller's run every
section cache holds either nothing, or what was read at the section's view of the cached header.
That is why it matters that no decode gets past a header without going through the
section caches, and that new views are allocated before the old are freed.

`SubIntSplitEncodeProofs` proves `TypeOK`, `TasksUseLiveArrays` and `RoundTrip` for every
width, every split in either order and every column. `TasksInv` says which tasks exist at which
point of the caller, `ArraysInv` that the arrays then exist and hold the split of the
data, and that a task that ended well has written its section's encoding; `OutInv` that a
call that returned has written exactly the layout of the data. The rest is about data: that
parsing a written header finds each section's width, shift, offset and payload, and that
adding up the shifted digits of a value in a mixed radix gives the value
(lemmas about `SumTo` and `PowerOfTwo` in `Induction`).

`SelectorProofs` proves the four invariants of `Selector` and `MergingPays` for every
width, every table of costs and every configuration, in five parts:

* A plan is a list of pieces without gaps (`Tiles`), and weighs what its pieces cost with
  a penalty for each (`Weight`): it grows by a piece at either end and can be taken apart
  there (`TilesGrow`, `TilesLast`, `TilesFirst`).
* All four searches are optimal (`DPPlanOptimal`, `DPFixedPlanOptimal`,
  `ExhaustivePlanOptimal`): no list without gaps of allowed pieces, of the forced length if
  there is one, weighs less than their plan, and they have a plan if there is such a list.
  The dynamic programmes are by induction over the bits from below, the exhaustive
  search from above. That their recursions define anything is `CourseOfValues`
  (a value depends on values of lower rank only).
* Lists without gaps and sets of cuts are the same thing (`TilingIsCut`, `CutHasTiling`), so an
  optimal plan costs `LeastCost`.
* The invariant, `SelectorInv`: between search and check the plan is optimal for
  the table that is in place (`SearchOK`); in the merge phase, what was merged so far covers the
  pieces looked at and weighs no more than they do (`MergeOK`), which is what makes a pass
  pay, and what `MergingPays` by itself does not say. A plan without gaps is in the order
  of its sections already, mirrored or not (`SegmentsSorted`), so sorting changes
  nothing, `fromSegments` finds no gap in it, and the widths add up to where each
  segment lies (`ConfigOK`, `SegmentsTaken`).
* `CasesKnown`, an invariant relative to that one: a segment that `fromSegments` cannot build
  is one of `uncased`, from the table (`OptimalKnown`) through every merge
  (`MergeTwoKnown`, `MergeNoneKnown`), so there is no other reason for it to throw.

The code adds the total up again only after the last pass, so during merges the
invariant bounds the weight of the plan by the total and equates the two outside of them.

`AllocationTrackerProofs` proves `TypeOK`, `ReportedIsThePeak`, `PeakOnlyRises` and
`CountIsExactWhenQuiet` for every number of threads, sizes, blocks and guards. The idea of
its `IInv`: under an open guard the measured code's highest count is either in the
peak or held by a measured thread still on its way to record it (`CoverInv`), so
once those are joined it is in the peak; and whatever can still be recorded is
no higher than `high` (`FlightInv`), which needs the flag (`FlagInv`), where
measured threads may be (`QuietInv`), and that a measured thread compares with a
peak loaded under this guard (`PrevInv`). The count is exact by an equation of sums
(`LedgerInv`): what is counted, and what threads have allocated and not yet counted, is
what there is, and what threads have freed and not yet taken off.

`ArtifactCacheProofs` proves the six invariants of `ArtifactCache` for every registry, sweep, bound
and number of encodes. `Indexed` says that list and index match, key by key and
node by node; `uses` is the keys of the list; `HeldInv` that the entry in use is
the one that was asked for; `Sound` that an artifact is of one plan. `HeldDecodes`
alone is far from inductive: a codec may be given another plan while an artifact of it stays
resident. `DecodeInv` says that this happens only to artifacts of streams the sweep has
left, and `SweepInv` that with a bound above one everything resident is of the current
stream or of a left one; with a bound of one, an insertion removes all others. The rest is
about lists with elements left out (`SiftedSifts` and what follows it).

`CodecsProofs` proves `RunLengthAgrees` and `MainlyConstantAgrees` for every column of
integers, every range and position, gathers of any number of ranges, every word size and every
depth of a chain. What holds between calls is simple (`CodecsInv`: the
encoding is one that the encoder may make of the column, the answer what the codec makes of
the call); all of the work is in the codecs' operators, in two steps each. First, what an
encoder makes has a shape: runs that follow each other from the first row to the last and
are constant (`IsRuns`), or a chain of levels, each with a bitmap of the rows that
have its value, padded by ones, over the column of the other rows (`IsLevel`,
`IsChain`). Then every entry point returns the rows of any column of which its
encoding has that shape:

* `RunLength`: both searches return the run of a row (`RawFinds`, `ComposedFinds`). The
  interpolation may guess any run, and the bisection on the wrong side of the guess would not find
  the row; that the guess is in range is `QuotientWithin`. Rows put together from parts
  that follow each other are a slice (`Consecutive`). A gather resumes at a run that does not
  start behind any range to come (`Resumes`), which is what ascending ranges are for.
* `MainlyConstant`: a row's place among the other values is its `Rank`, the number of zero
  bits before it, whether counted from the first word (`PrefixIs`), over a range with masks at
  both ends (`RangeIs`), or carried across the ranges of a gather and the gaps between
  them (`Carries`). Every level reads rows if the one after it does (`LevelReadsRows`,
  `LevelReadsRanges`), by induction from the last.

The theorems assume of the bounds that values are integers and that a word has a bit.

Induction over data is done without the library's induction theorems, whose operator
parameters the provers cannot instantiate: `Induction` states it for sets of naturals
(a set that has 0 and the successor of each of its members has them all), and recursion as
the existence of a function that follows given steps. Recursive functions of the models
are then unfolded by these lemmas.

Only model-checked:

* `EveryCallEnds`, `EveryEncodeEnds`, `MergingEnds` and the fairness of `Decoder`: liveness
  is outside the prover's reach.
* `DeltaAgrees`, `PackedAgrees`, `PartitionAgrees`, `BlockPartitionAgrees`, `FramesAgree` and
  `ReorderedAgrees`. Each is about several codecs at once that rest on what the provers have
  no means for: powers of two that wrap values around or size a field (`^` is uninterpreted),
  folds, sorting and selecting from sequences, whose library definitions they do not
  unfold, and functions of several arguments.

## 5. Findings

Each is a run that TLC ends with the behaviour in question; `adaptive_for` and
`zero_counts` were also seen on the compiled code, as were the empty sections and the
wide frequencies above.

* **stale_header.** The header cache's key (address, size, row count) does not
  tell two encodes of equally many rows into equally many bytes apart.
* **adaptive_for.** `AdaptiveFOREncoder` estimates the width of its residuals from
  differences that wrap around in the signed type; a frame spread over more than half
  the type is packed too narrow and does not come back.
* **wide_raw_group.** `SubIntEncoder` reads a raw group of more than 32 bits with one read
  of 32 in `decodeAll` and `decodeRange`, and with two in `decodeAt`.
* **residual_bits.** `BlockFORFPEEncoder::readBits` collects nine bytes in an accumulator
  of eight where a residual of 59 bits or more starts late in a byte.
* **zero_counts.** `BitParenthesesEncoder` counts ones by a cursor that consumes a run
  with every element, while several elements may end in one run of zeros; a test of the
  repository asserts that such a column comes back.

## 6. Not modelled

* `ZstdEncoder`, `LZ4Encoder`, `OpenZLEncoder`: one call each into an external library.
* `TriSplitEncoder`, `SphericalEncoder`, `MapEncoders`, `MapColumnarEncoders`: floating
  point, and layouts that put the encodings of parts side by side.
* `ComposedEncoder`, `RawEncoder`, `TypedSectionCodecAdapter`: they pass on what they are
  given; the modules that use them take inner codecs to return it.
* Cost models and metrics of the selector, size estimates of encoders, sampling: floating
  point. The models take any cost and any plan instead.
* Tasks of a parallel decode in `FrequencyPartitionEncoder`: they read the encoding, write
  the rows of their tier and throw nothing, so they run in turn here.
* Statistics interfaces, timing, cache flushing, printing, command lines, plots, registries,
  traces and random data generation: no control of their own.

## 7. Plan

The state machines and codecs above are what this code has to model, and the safety properties
of every state machine are proved. What would come next are the codecs that are only
model-checked. `Delta` and its relatives need that a prefix sum of wrapped differences is the
value modulo the word, the packed codecs where a field lies in its words, and the framed
ones the frame of a row; each needs its powers, folds and functions of several arguments
restated as recursive functions of one argument first, as was done for `MainlyConstant`.

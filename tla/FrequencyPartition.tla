------------------------- MODULE FrequencyPartition -------------------------
(***************************************************************************)
(* FrequencyPartitionEncoder (src/Source/encoders/                         *)
(* FrequencyPartitionEncoder.hpp): the most frequent values get short keys *)
(* in tiers, the others are kept raw behind them (the fallback), and an    *)
(* index tells the tier of each row: a bitmap per tier, a tag per row, the *)
(* rows of each tier in Elias-Fano form, or none, which leaves the rows in *)
(* tier order.  Rows, bits and ranks count from 0, tiers from 1.           *)
(***************************************************************************)
EXTENDS CodecContract, FiniteSetsExt

CONSTANTS
    W,           \* bits of a bitmap word (64 in the code)
    BlockWords,  \* words between two counts of a bitmap (8)
    Stride,      \* rows between two samples of the tags (kRankSampleStride)
    MaxTiers     \* kNumActiveTiers

-----------------------------------------------------------------------------
(* Encoding *)

\* The values by falling frequency, of equal ones the smaller first.
ByFrequency(d) ==
    LET Count(v) == Cardinality({i \in DOMAIN d : d[i] = v}) IN
    SetToSortSeq(ToSet(d), LAMBDA u, v : \/ Count(u) > Count(v)
                                         \/ Count(u) = Count(v) /\ u < v)

\* Bits enough for x keys or tags, one at least.
CeilLog2WithMinOne(x) == IF x <= 1 THEN 1 ELSE Min({b \in 1 .. x : x <= 2^b})

\* Tier t takes the next 2^t of them.
Dict(d, t) ==
    LET sorted == ByFrequency(d) IN
    SubSeq(sorted, 2^t - 1, Lesser(2^(t + 1) - 2, Len(sorted)))

TiersUsed(d) == {t \in 1 .. MaxTiers : Dict(d, t) # <<>>}

RowsOf(d, dict) == SetToSortSeq({i \in 0 .. Len(d) - 1 : Contains(dict, d[i + 1])}, <)

\* Their places in the dictionary, in the bits that its size asks for.
PackKeys(keys, bits) == [r \in DOMAIN keys |-> keys[r] % 2^bits]

KeysOf(d, dict) ==
    PackKeys([r \in DOMAIN RowsOf(d, dict) |->
                 SelectInSeq(dict, LAMBDA v : v = d[RowsOf(d, dict)[r] + 1]) - 1],
             CeilLog2WithMinOne(Len(dict)))

\* floor(log2(universe / n)), 0 unless that is more than 1.
EliasFanoLowBits(universe, n) ==
    IF n = 0 \/ universe <= n THEN 0
    ELSE Max({b \in 0 .. universe : 2^b <= universe \div n})

\* The low bits of every row, and a bit at the high bits plus the rank.
EliasFano(n, pos) ==
    LET low == EliasFanoLowBits(n, Len(pos)) IN
    [low   |-> low,
     lows  |-> [r \in DOMAIN pos |-> pos[r] % 2^low],
     highs |-> {pos[r] \div 2^low + r - 1 : r \in DOMAIN pos}]

Tier(d, dict) ==
    [dict |-> dict, keys |-> KeysOf(d, dict),
     bits |-> ToSet(RowsOf(d, dict)), ef |-> EliasFano(Len(d), RowsOf(d, dict))]

TierOf(dicts, v) == SelectInSeq(dicts, LAMBDA dict : Contains(dict, v))

\* The tag of a row: its tier, counted from 0, or the number of tiers.
Tags(d, dicts) ==
    LET bits == CeilLog2WithMinOne(Len(dicts) + 1)
        Tag(v) == IF TierOf(dicts, v) = 0 THEN Len(dicts) ELSE TierOf(dicts, v) - 1 IN
    [i \in DOMAIN d |-> Tag(d[i]) % 2^bits]

Fallback(d, dicts) == SelectSeq(d, LAMBDA v : TierOf(dicts, v) = 0)

\* A tier is kept if its keys, dictionary and bitmap take fewer bits than its
\* values; any set of the tiers may turn out so.
Kept(d) == {[k \in 1 .. Cardinality(kept) |-> Dict(d, SetToSortSeq(kept, <)[k])] :
               kept \in SUBSET TiersUsed(d)}

Encodings(d, index) ==
    {[n |-> Len(d), index |-> index, tiers |-> [t \in DOMAIN dicts |-> Tier(d, dicts[t])],
      tags |-> Tags(d, dicts), fallback |-> Fallback(d, dicts)] : dicts \in Kept(d)}

\* The rows in tier order, those of the fallback last.
TierOrder(d, e) ==
    FlattenSeq([t \in 1 .. Len(e.tiers) |->
                   SelectSeq(d, LAMBDA v : Contains(e.tiers[t].dict, v))]) \o e.fallback

-----------------------------------------------------------------------------
(* Parsing the header, and ranks *)

Popcount(bits, from, to) == Cardinality({p \in bits : from <= p /\ p < to})

\* The bits before a block, counted when the header is parsed.
RankIndex(bits, block) == Popcount(bits, 0, block * BlockWords * W)

\* The rank of row i by the count at its block, the block's words before the
\* row's, and the bits before it in its own word.
PopcountPrefixFast(bits, i) ==
    LET block == i \div (BlockWords * W)
        first == block * BlockWords
        word  == first + (i % (BlockWords * W)) \div W IN
    RankIndex(bits, block) + Popcount(bits, first * W, word * W)
        + Popcount(bits, word * W, i)

\* The r-th high bit, less its rank, before the r-th low bits.
DecodePositions(ef) ==
    LET highs == SetToSortSeq(ef.highs, <) IN
    [r \in DOMAIN highs |-> (highs[r] - (r - 1)) * 2^ef.low + ef.lows[r]]

TierBits(e, t) == IF e.index = "eliasFano" THEN ToSet(DecodePositions(e.tiers[t].ef))
                  ELSE e.tiers[t].bits

Covered(e) == UNION {TierBits(e, t) : t \in DOMAIN e.tiers}

\* The bits past the last row do not count.
Uncovered(e) == (0 .. e.n - 1) \ Covered(e)

\* Mutant of FallbackRank: the bits of the row's own word are left out.
WordRank(e, i) == Popcount(Uncovered(e), 0, (i \div W) * W)

FallbackRank(e, i) ==
    Popcount(Uncovered(e), 0, (i \div W) * W) + Popcount(Uncovered(e), (i \div W) * W, i)

\* tierPrefix: the rows in the tiers before tier t.
TierPrefix(e, t) == FoldLeft(LAMBDA n, tier : n + Len(tier.keys), 0, SubSeq(e.tiers, 1, t - 1))

Tiered(e) == TierPrefix(e, Len(e.tiers) + 1)

\* The value at a rank of a bucket: a tier, or the fallback after the last.
ValueAt(e, bucket, rank) ==
    IF bucket <= Len(e.tiers)
    THEN e.tiers[bucket].dict[e.tiers[bucket].keys[rank + 1] + 1]
    ELSE e.fallback[rank + 1]

-----------------------------------------------------------------------------
(* Bitmaps: the rows start .. end - 1 *)

\* What the scan of a bucket stores, the first of its rows at `rank`.
Scan(e, bucket, bits, start, end, rank) ==
    {<<p - start, ValueAt(e, bucket, rank + Popcount(bits, start, p))>> :
        p \in {q \in bits : start <= q /\ q < end}}

FallbackScan(e, start, end, rank) ==
    Scan(e, Len(e.tiers) + 1, Uncovered(e), start, end, rank)

\* One scan, on a thread of its own if decoding is parallel, for each tier.
ByScan(e, start, end) ==
    Stored(end - start,
        UNION {Scan(e, t, e.tiers[t].bits, start, end, PopcountPrefixFast(e.tiers[t].bits, start)) :
                  t \in DOMAIN e.tiers}
        \cup FallbackScan(e, start, end, FallbackRank(e, start)))

AllBitmaps(e) ==
    Stored(e.n, UNION {Scan(e, t, e.tiers[t].bits, 0, e.n, 0) : t \in DOMAIN e.tiers}
                \cup FallbackScan(e, 0, e.n, 0))

\* Row by row, with the ranks of all buckets carried along.
ByRow(e, start, end) ==
    LET fallback == Len(e.tiers) + 1
        InTier(i) == Min({t \in DOMAIN e.tiers : i \in e.tiers[t].bits} \cup {fallback})
        seeds == [b \in 1 .. fallback |->
                     IF b < fallback THEN PopcountPrefixFast(e.tiers[b].bits, start)
                     ELSE IF e.fallback = <<>> THEN 0 ELSE FallbackRank(e, start)]
        Step(acc, i) ==
            [rows |-> Append(acc.rows, ValueAt(e, InTier(i), acc.rank[InTier(i)])),
             rank |-> [acc.rank EXCEPT ![InTier(i)] = @ + 1]]
    IN FoldLeft(Step, [rows |-> <<>>, rank |-> seeds],
                [k \in 1 .. end - start |-> start + k - 1]).rows

RangeBitmaps(e, start, end) ==
    IF Tiered(e) > 0 /\ 10 * Tiered(e) >= 3 * e.n THEN ByRow(e, start, end)
    ELSE ByScan(e, start, end)

AtBitmaps(e, i) ==
    LET at == {t \in DOMAIN e.tiers : i \in e.tiers[t].bits} IN
    IF at = {} THEN ValueAt(e, Len(e.tiers) + 1, FallbackRank(e, i))
    ELSE ValueAt(e, Min(at), PopcountPrefixFast(e.tiers[Min(at)].bits, i))

-----------------------------------------------------------------------------
(* Elias-Fano rows: lower_bound in the rows of a tier is a row's rank *)

AtEliasFano(e, i) ==
    LET at == {t \in DOMAIN e.tiers : i \in TierBits(e, t)} IN
    IF at = {} THEN ValueAt(e, Len(e.tiers) + 1, FallbackRank(e, i))
    ELSE ValueAt(e, Min(at), Popcount(TierBits(e, Min(at)), 0, i))

\* What the rows of a tier in start .. end - 1 store.
Positioned(e, t, start, end) ==
    LET pos == DecodePositions(e.tiers[t].ef) IN
    {<<pos[r] - start, ValueAt(e, t, r - 1)>> :
        r \in {q \in DOMAIN pos : start <= pos[q] /\ pos[q] < end}}

RangeEliasFano(e, start, end) ==
    Stored(end - start, UNION {Positioned(e, t, start, end) : t \in DOMAIN e.tiers}
                        \cup FallbackScan(e, start, end, FallbackRank(e, start)))

AllEliasFano(e) ==
    Stored(e.n, UNION {Positioned(e, t, 0, e.n) : t \in DOMAIN e.tiers}
                \cup FallbackScan(e, 0, e.n, 0))

-----------------------------------------------------------------------------
(* Tags: the ranks of all buckets after the tags from .. to - 1 *)

\* The bucket of a row: a tag beyond the tiers is the fallback's.
Bucket(e, i) == Lesser(e.tags[i + 1], Len(e.tiers)) + 1

Tagged(e, ranks, from, to) ==
    [b \in DOMAIN ranks |->
        ranks[b] + Cardinality({i \in from .. to - 1 : Bucket(e, i) = b})]

NoRanks(e) == [b \in 1 .. Len(e.tiers) + 1 |-> 0]

Sample(e, s) == Tagged(e, NoRanks(e), 0, s * Stride)

\* The sample before a row, and the tags between.
SeedRanks(e, i) == Tagged(e, Sample(e, i \div Stride), (i \div Stride) * Stride, i)

ByTag(e, start, end, ranks) ==
    [k \in 1 .. end - start |->
        LET i == start + k - 1 IN
        ValueAt(e, Bucket(e, i), Tagged(e, ranks, start, i)[Bucket(e, i)])]

\* A range counts every tag before it, a gather starts at a sample.
RangeTags(e, start, end) == ByTag(e, start, end, Tagged(e, NoRanks(e), 0, start))

GatheredTags(e, start, end) == ByTag(e, start, end, SeedRanks(e, start))

AtTags(e, i) == ValueAt(e, Bucket(e, i), SeedRanks(e, i)[Bucket(e, i)])

-----------------------------------------------------------------------------
(* No index *)

AllNoIndex(e) ==
    FlattenSeq([t \in DOMAIN e.tiers |->
                   [r \in DOMAIN e.tiers[t].keys |-> ValueAt(e, t, r - 1)]]) \o e.fallback

AtNoIndex(e, i) ==
    LET t == Max({u \in 1 .. Len(e.tiers) + 1 : TierPrefix(e, u) <= i}) IN
    ValueAt(e, t, i - TierPrefix(e, t))

\* The tier of the first row is searched for, the others' follow it.
RangeNoIndex(e, start, end) ==
    LET first == Max({u \in 1 .. Len(e.tiers) + 1 : TierPrefix(e, u) <= start})
        TierAt(i) == Max({u \in first .. Len(e.tiers) + 1 : TierPrefix(e, u) <= i}) IN
    [k \in 1 .. end - start |->
        ValueAt(e, TierAt(start + k - 1), start + k - 1 - TierPrefix(e, TierAt(start + k - 1)))]

-----------------------------------------------------------------------------
(* The entry points *)

DecodeAll(e) ==
    Rows(CASE e.index = "bitmaps"   -> AllBitmaps(e)
           [] e.index = "tags"      -> ByTag(e, 0, e.n, NoRanks(e))
           [] e.index = "eliasFano" -> AllEliasFano(e)
           [] e.index = "none"      -> AllNoIndex(e))

RowsIn(e, start, end) ==
    CASE e.index = "bitmaps"   -> RangeBitmaps(e, start, end)
      [] e.index = "tags"      -> RangeTags(e, start, end)
      [] e.index = "eliasFano" -> RangeEliasFano(e, start, end)
      [] e.index = "none"      -> RangeNoIndex(e, start, end)

DecodeAllInto(e, n) == IF e.n # n THEN Threw ELSE DecodeAll(e)

DecodeAt(e, i) ==
    IF i >= e.n THEN Nullopt
    ELSE Rows(<<CASE e.index = "bitmaps"   -> AtBitmaps(e, i)
                  [] e.index = "tags"      -> AtTags(e, i)
                  [] e.index = "eliasFano" -> AtEliasFano(e, i)
                  [] e.index = "none"      -> AtNoIndex(e, i)>>)

DecodeRange(e, start, end) ==
    IF start >= Lesser(end, e.n) THEN Rows(<<>>)
    ELSE Rows(RowsIn(e, start, Lesser(end, e.n)))

\* A range without rows is a size mismatch, whatever the size.
DecodeRangeInto(e, start, end, n) ==
    LET stop == Lesser(end, e.n) IN
    IF start >= stop \/ stop - start # n THEN Threw ELSE Rows(RowsIn(e, start, stop))

\* The gathers over bitmaps and tags clamp every range; the others are the default.
DecodeGatherInto(e, ranges, n) ==
    LET Part(r) == LET stop == Lesser(r.end, e.n) IN
                   IF r.begin >= stop THEN <<>>
                   ELSE IF e.index = "bitmaps" THEN RangeBitmaps(e, r.begin, stop)
                   ELSE GatheredTags(e, r.begin, stop) IN
    IF e.index \in {"bitmaps", "tags"} \/ ranges = <<>>
    THEN SizedInto(Rows(FlattenSeq([k \in DOMAIN ranges |-> Part(ranges[k])])), n)
    ELSE DefaultGather(LAMBDA s, t, m : DecodeRangeInto(e, s, t, m), ranges, n)

Answer(e, c, n) ==
    Dispatch(DecodeAll(e), LAMBDA m : DecodeAllInto(e, m), LAMBDA i : DecodeAt(e, i),
             LAMBDA s, t : DecodeRange(e, s, t), LAMBDA s, t, m : DecodeRangeInto(e, s, t, m),
             LAMBDA rs, m : DecodeGatherInto(e, rs, m), c, n)
=============================================================================

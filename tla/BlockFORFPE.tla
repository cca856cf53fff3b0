---------------------------- MODULE BlockFORFPE ----------------------------
(***************************************************************************)
(* BlockFORFPEEncoder (src/Source/encoders/BlockFORFPEEncoder.hpp): the    *)
(* frame's least value is taken off each block, the frequent residuals get *)
(* short keys in up to three tiers, and what is left is stored behind      *)
(* them.  Every Stride rows the block keeps how many rows of each tier     *)
(* there have been.  Dictionaries, keys and fallback are streams of bits.   *)
(***************************************************************************)
EXTENDS CodecContract, FiniteSetsExt

CONSTANTS
    Stride,       \* kRankSampleStride
    MaxTiers,     \* kMaxTiers
    BlockSizes,   \* kCandidates
    C,            \* bits of a byte (8)
    Accumulator,  \* bits of the word readBits collects bytes in (64)
    WriterBits    \* bits BitWriter::write takes (32)

P == INSTANCE Packing WITH W <- C, BatchWidths <- {}

\* The distinct residuals, the most frequent first, of two the greater.
ByFrequency(rows) ==
    LET Count(v) == Cardinality({i \in DOMAIN rows : rows[i] = v}) IN
    SetToSortSeq(ToSet(rows), LAMBDA v, w : Count(v) > Count(w) \/ (Count(v) = Count(w) /\ v > w))

\* planTiers cuts a prefix of them into tiers by a gain in bits: any cut may be.
TierPlans(rows) ==
    LET sorted == ByFrequency(rows)
        Cuts == {c \in SeqOf(1 .. Len(sorted), MaxTiers) :
                    FoldLeft(LAMBDA a, b : a + b, 0, c) <= Len(sorted)}
        End(c, t) == FoldLeft(LAMBDA a, b : a + b, 0, SubSeq(c, 1, t)) IN
    {[t \in DOMAIN c |-> SubSeq(sorted, End(c, t - 1) + 1, End(c, t))] : c \in Cuts}

\* The tier of a residual, counted from 0; the fallback comes after the last.
TagCode(dicts, r) == SelectInSeq(dicts \o <<<<r>>>>, LAMBDA dict : Contains(dict, r)) - 1

TagBits(codes) == IF codes <= 1 THEN 0 ELSE IF codes = 2 THEN 1 ELSE 2

\* A residual too wide for one write takes two.
WriteResidual(w, v, bits) ==
    IF bits <= WriterBits THEN P!Write(w, v, bits)
    ELSE P!Write(P!Write(w, v % 2^WriterBits, WriterBits), v \div 2^WriterBits,
                 bits - WriterBits)

Residuals(values, bits) ==
    FoldLeft(LAMBDA w, v : WriteResidual(w, v, bits), P!Writer, values).bytes

KeyBits(dict) == P!BitWidth(Len(dict) - 1)

Keys(rows, dict) ==
    P!Written([k \in DOMAIN rows |-> SelectInSeq(dict, LAMBDA r : r = rows[k]) - 1],
              KeyBits(dict))

\* rankSamples: the rows of every tier before each Stride-th row.
Samples(codes, tiers) ==
    [s \in 1 .. (Len(codes) + Stride - 1) \div Stride |->
        [t \in 1 .. tiers |-> Cardinality({i \in 1 .. (s - 1) * Stride : codes[i] = t - 1})]]

Block(rows, dicts) ==
    LET ref == Min(ToSet(rows))
        residuals == [i \in DOMAIN rows |-> rows[i] - ref]
        bits == Greater(1, P!BitWidth(Max(ToSet(residuals))))
        codes == [i \in DOMAIN rows |-> TagCode(dicts, residuals[i])]
        In(t) == SelectSeq(residuals, LAMBDA r : TagCode(dicts, r) = t)
        tagBits == TagBits(Len(dicts) + IF In(Len(dicts)) = <<>> THEN 0 ELSE 1) IN
    [ref |-> ref, bits |-> bits, tagBits |-> tagBits,
     tags |-> [i \in DOMAIN rows |-> codes[i] % 2^tagBits],
     keyBits  |-> [t \in DOMAIN dicts |-> KeyBits(dicts[t])],
     dicts    |-> [t \in DOMAIN dicts |-> Residuals(dicts[t], bits)],
     keys     |-> [t \in DOMAIN dicts |-> Keys(In(t - 1), dicts[t])],
     fallback |-> Residuals(In(Len(dicts)), bits),
     samples  |-> Samples(codes, Len(dicts))]

BlocksOf(rows) ==
    LET ref == Min(ToSet(rows)) IN
    {Block(rows, dicts) : dicts \in TierPlans([i \in DOMAIN rows |-> rows[i] - ref])}

\* planBlockSize takes the size that costs least; any may be.
PlanBlockSize == BlockSizes

MakeEmpty == {[n |-> 0, size |-> 0, blocks |-> <<>>, wraps |-> FALSE]}

\* `wraps`: the build takes the distance of a shift by Accumulator modulo
\* Accumulator; otherwise such a shift leaves nothing.
Encodings(d) ==
    IF d = <<>> THEN MakeEmpty ELSE
    UNION {LET rows == Blocks(d, size) IN
           {[n |-> Len(d), size |-> size, blocks |-> bs, wraps |-> u] : u \in BOOLEAN,
              bs \in {f \in [DOMAIN rows -> UNION {BlocksOf(rows[b]) : b \in DOMAIN rows}] :
                        \A b \in DOMAIN f : f[b] \in BlocksOf(rows[b])}} :
           size \in PlanBlockSize}

-----------------------------------------------------------------------------
(* decodeBlockRange *)

\* readBits: the bytes with a bit of the field, one shifted onto the other.
ReadBits(bytes, pos, bits, wraps) ==
    LET shift == pos % C
        Set(b, k) == (bytes[(pos \div C) + b + 1] \div 2^k) % 2 = 1
        Lands(b, k) == IF b * C < Accumulator THEN (b * C) + k
                       ELSE IF wraps THEN ((b * C) % Accumulator) + k ELSE -1 IN
    MapThenSumSet(LAMBDA j : 2^(j - shift),
        {Lands(p[1], p[2]) : p \in {q \in (0 .. ((bits + shift + C - 1) \div C) - 1) \X (0 .. C - 1) :
                                      Set(q[1], q[2])}}
            \cap (shift .. Lesser(Accumulator, shift + bits) - 1))

\* A field that needs one byte more than the accumulator has.
Overruns(e) ==
    \E b \in DOMAIN e.blocks : \E k \in DOMAIN e.blocks[b].tags :
        (((k - 1) * e.blocks[b].bits) % C) + e.blocks[b].bits > Accumulator

\* The row whose sample is read, for rows from `from` on.
ScanStart(block, from) == IF block.dicts = <<>> THEN 0 ELSE (from \div Stride) * Stride

\* Mutant of SampledRank: rows before the sample are not counted.
Unsampled(block, from, code) == 0

\* Rows of a code before the sample: in no tier are all the others.
SampledRank(block, from, code) ==
    LET s == ScanStart(block, from) IN
    IF s = 0 THEN 0
    ELSE LET sample == block.samples[(s \div Stride) + 1] IN
         IF code < Len(block.dicts) THEN sample[code + 1]
         ELSE s - FoldLeft(LAMBDA a, b : a + b, 0, sample)

Rank(block, from, i) ==
    LET code == block.tags[i + 1] IN
    SampledRank(block, from, code)
        + Cardinality({j \in ScanStart(block, from) .. i - 1 : block.tags[j + 1] = code})

ResidualAt(block, code, rank, wraps) ==
    IF code < Len(block.dicts)
    THEN LET width == block.keyBits[code + 1]
             key == IF width = 0 THEN 0
                    ELSE ReadBits(block.keys[code + 1], rank * width, width, wraps) IN
         ReadBits(block.dicts[code + 1], key * block.bits, block.bits, wraps)
    ELSE ReadBits(block.fallback, rank * block.bits, block.bits, wraps)

\* A block, found by its descriptor.
ReadDesc(e, b) == e.blocks[b + 1]

BlockRange(e, b, from, to) ==
    LET block == ReadDesc(e, b) IN
    [k \in 1 .. to - from |->
        block.ref + ResidualAt(block, block.tags[from + k], Rank(block, from, from + k - 1),
                               e.wraps)]

-----------------------------------------------------------------------------
AllOf(e) == FlattenSeq([b \in DOMAIN e.blocks |->
                           BlockRange(e, b - 1, 0, Len(e.blocks[b].tags))])

DecodeAt(e, i) ==
    IF i >= e.n THEN Nullopt
    ELSE Rows(BlockRange(e, i \div e.size, i % e.size, (i % e.size) + 1))

\* Without rows in the range, the memory stays as it is.
DecodeRangeInto(e, start, end, n) ==
    LET stop == Lesser(end, e.n) IN
    Rows(Padded(IF n = 0 \/ start >= stop THEN <<>>
                ELSE OverBlocks(e.size, e.n, start, stop, n,
                        LAMBDA b, from, to : BlockRange(e, b, from, to)), n))

DecodeRange(e, start, end) ==
    DecodeRangeInto(e, start, end, Greater(Lesser(end, e.n) - start, 0))

Answer(e, c, n) ==
    LET Into(s, t, m) == DecodeRangeInto(e, s, t, m) IN
    Dispatch(Rows(AllOf(e)), LAMBDA m : Rows(Padded(AllOf(e), m)), LAMBDA i : DecodeAt(e, i),
             LAMBDA s, t : DecodeRange(e, s, t), Into, LAMBDA rs, m : DefaultGather(Into, rs, m),
             c, n)
=============================================================================

---------------------- MODULE BlockFrequencyPartition ----------------------
(***************************************************************************)
(* BlockFrequencyPartitionEncoder (src/Source/encoders/                    *)
(* BlockFrequencyPartitionEncoder.hpp): blocks of rows, each with its most *)
(* frequent values in up to three tiers, a tag per row, and a fallback,    *)
(* raw or as differences from its minimum.  With GlobalFOR the column's    *)
(* minimum is subtracted first.  Tag codes count from 0.                   *)
(***************************************************************************)
EXTENDS CodecContract, FiniteSetsExt

CONSTANTS
    BlockSizes,  \* kCandidates
    B            \* bits of a value

\* caps is the tuple of the tiers' capacities (<<2, 4, 16>> in the code).

Wrapped(v) == v % 2^B

-----------------------------------------------------------------------------
(* Encoding *)

\* Values by falling frequency, of equal ones the greater first.
ByFrequency(d) ==
    LET Count(v) == Cardinality({i \in DOMAIN d : d[i] = v}) IN
    SetToSortSeq(ToSet(d), LAMBDA u, v : \/ Count(u) > Count(v)
                                         \/ Count(u) = Count(v) /\ u > v)

\* The dictionaries of the tiers that have values, in order of their codes.
Dicts(d, caps) ==
    LET sorted == ByFrequency(d)
        Before(t) == FoldLeft(LAMBDA a, b : a + b, 0, SubSeq(caps, 1, t - 1)) IN
    SelectSeq([t \in DOMAIN caps |->
                  SubSeq(sorted, Before(t) + 1, Lesser(Before(t) + caps[t], Len(sorted)))],
              LAMBDA dict : dict # <<>>)

Code(dicts, v) == LET t == SelectInSeq(dicts, LAMBDA dict : Contains(dict, v)) IN
                  IF t = 0 THEN Len(dicts) ELSE t - 1

\* Bits of a tag: 0 if one code serves all rows.
TagBitWidth(dicts, fallback) ==
    LET codes == Len(dicts) + (IF fallback = <<>> THEN 0 ELSE 1) IN
    CASE codes <= 1 -> 0 [] codes = 2 -> 1 [] OTHER -> 2

\* Bits of the greatest difference; the differences need none if it is 0.
BitWidth(v) == CHOOSE b \in 0 .. v : v < 2^b /\ (b > 0 => 2^(b - 1) <= v)

PackFallbackBits(deltas, bits) == [k \in DOMAIN deltas |-> deltas[k] % 2^bits]

Fallback(values, packed) ==
    IF ~packed \/ values = <<>> THEN [raw |-> TRUE, min |-> 0, bits |-> 0, stored |-> values]
    ELSE LET min == Min(ToSet(values))
             bits == BitWidth(Wrapped(Max(ToSet(values)) - min))
             deltas == [k \in DOMAIN values |-> Wrapped(values[k] - min)] IN
         [raw |-> FALSE, min |-> min, bits |-> bits,
          stored |-> IF bits = 0 THEN <<>> ELSE PackFallbackBits(deltas, bits)]

\* The places in its dictionary of the rows of one tier, in the fewest bits.
WriteTierKeys(rows, dict) ==
    [r \in DOMAIN rows |->
        (SelectInSeq(dict, LAMBDA v : v = rows[r]) - 1) % 2^BitWidth(Len(dict) - 1)]

Block(d, packed, caps) ==
    LET dicts == Dicts(d, caps)
        In(code) == SelectSeq(d, LAMBDA v : Code(dicts, v) = code)
        bits == TagBitWidth(dicts, In(Len(dicts))) IN
    [dicts |-> dicts, tagBits |-> bits,
     tags  |-> [i \in DOMAIN d |-> Code(dicts, d[i]) % 2^bits],
     keys  |-> [t \in DOMAIN dicts |-> WriteTierKeys(In(t - 1), dicts[t])],
     fallback |-> Fallback(In(Len(dicts)), packed)]

\* planBlockSize takes the cheapest of the sizes; any may be.
PlanBlockSize == BlockSizes

CreateEmptyEncoding == [n |-> 0]

Encodings(d, for, packed, caps) ==
    IF d = <<>> THEN {CreateEmptyEncoding}
    ELSE LET globalMin == IF for THEN Min(ToSet(d)) ELSE 0
             work == [i \in DOMAIN d |-> Wrapped(d[i] - globalMin)] IN
         {[n |-> Len(d), size |-> size, for |-> for, globalMin |-> globalMin,
           blocks |-> [b \in DOMAIN Blocks(work, size) |->
                          Block(Blocks(work, size)[b], packed, caps)]] : size \in PlanBlockSize}

-----------------------------------------------------------------------------
(* Decoding a block *)

\* A block, found by its descriptor.
ReadDesc(e, b) == e.blocks[b + 1]

FallbackValue(f, rank) ==
    IF f.raw THEN f.stored[rank + 1]
    ELSE IF f.bits = 0 THEN f.min
    ELSE Wrapped(f.min + f.stored[rank + 1])

TierKey(block, t, rank) == block.keys[t][rank + 1]

\* The rank of row i among the block's rows of its code, from the first row on.
BlockRank(block, i) ==
    Cardinality({j \in 0 .. i - 1 : block.tags[j + 1] = block.tags[i + 1]})

\* The rows from .. to - 1 of a block.  With one code for all, and nothing to
\* add, the keys are unpacked without ranks.
BlockRange(e, b, from, to) ==
    LET block == ReadDesc(e, b)
        Value(i) ==
            LET t == block.tags[i + 1] + 1
                rank == BlockRank(block, i) IN
            IF t <= Len(block.dicts) THEN block.dicts[t][TierKey(block, t, rank) + 1]
            ELSE FallbackValue(block.fallback, rank) IN
    [k \in 1 .. to - from |->
        IF block.tagBits = 0 /\ ~e.for THEN block.dicts[1][TierKey(block, 1, from + k - 1) + 1]
        ELSE IF e.for THEN Wrapped(Value(from + k - 1) + e.globalMin)
        ELSE Value(from + k - 1)]

-----------------------------------------------------------------------------
(* The entry points *)

AllOf(e) ==
    FlattenSeq([b \in DOMAIN e.blocks |-> BlockRange(e, b - 1, 0, Len(e.blocks[b].tags))])

DecodeAll(e) == IF e.n = 0 THEN Rows(<<>>) ELSE Rows(AllOf(e))

\* (Fewer rows than there are would misread the last block; n is their number.)
DecodeAllInto(e, n) == IF e.n = 0 \/ n = 0 THEN Rows(<<>>) ELSE Rows(AllOf(e))

DecodeAt(e, i) ==
    IF i >= e.n THEN Nullopt
    ELSE Rows(BlockRange(e, i \div e.size, i % e.size, (i % e.size) + 1))

\* Without rows in the range, the memory stays as it is.
DecodeRangeInto(e, start, end, n) ==
    LET stop == Lesser(end, e.n) IN
    IF n = 0 \/ start >= stop THEN Rows(Padded(<<>>, n))
    ELSE Rows(Padded(OverBlocks(e.size, e.n, start, stop, n,
                                LAMBDA b, from, to : BlockRange(e, b, from, to)), n))

DecodeRange(e, start, end) ==
    IF start >= Lesser(end, e.n) THEN Rows(<<>>)
    ELSE DecodeRangeInto(e, start, Lesser(end, e.n), Lesser(end, e.n) - start)

Answer(e, c, n) ==
    Dispatch(DecodeAll(e), LAMBDA m : DecodeAllInto(e, m), LAMBDA i : DecodeAt(e, i),
             LAMBDA s, t : DecodeRange(e, s, t), LAMBDA s, t, m : DecodeRangeInto(e, s, t, m),
             LAMBDA rs, m : DefaultGather(LAMBDA s, t, k : DecodeRangeInto(e, s, t, k), rs, m),
             c, n)
=============================================================================

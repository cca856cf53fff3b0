---------------------- MODULE AdaptiveFramedBitPrefix ----------------------
(***************************************************************************)
(* AdaptiveFramedBitPrefixEncoder (src/Source/encoders/                    *)
(* AdaptiveFramedBitPrefixEncoder.hpp): the leading bits that all values   *)
(* of a frame share are stored once, the others packed.  How the packed    *)
(* bits are read depends on how many there are.                            *)
(***************************************************************************)
EXTENDS CodecContract, FiniteSetsExt

CONSTANTS
    B,           \* bits of a value, and of a word (64)
    C,           \* bits of a byte (8)
    ReaderBits,  \* suffixes BitReader reads (16)
    FrameSizes   \* kCandidates

P == INSTANCE Packing WITH W <- B, Accumulator <- B, BatchWidths <- {}

\* C++ leaves a shift by all B bits open: `wraps` if the build shifts by none.
Distance(n, wraps) == IF n = B /\ wraps THEN 0 ELSE n
ShiftRight(v, n, wraps) == v \div 2^Distance(n, wraps)
ShiftLeft(v, n, wraps)  == (v * 2^Distance(n, wraps)) % 2^B

Or(u, v) == MapThenSumSet(LAMBDA b : 2^b,
                {b \in 0 .. B - 1 : (u \div 2^b) % 2 = 1 \/ (v \div 2^b) % 2 = 1})

-----------------------------------------------------------------------------
(* Encoding *)

LogicalBitWidth(d) == Greater(1, P!BitWidth(Max(ToSet(d))))

\* Of the lowest bits of the values, as many as make them differ.
FramePrefixBits(rows, width) ==
    width - Min({s \in 0 .. width : \A k \in DOMAIN rows : rows[k] \div 2^s = rows[1] \div 2^s})

SuffixBits(frame, width) == width - frame.prefixBits

Frame(rows, width, wraps) ==
    LET prefixBits == FramePrefixBits(rows, width)
        bits == width - prefixBits IN
    [prefixBits |-> prefixBits, prefix |-> ShiftRight(rows[1], bits, wraps),
     suffixBytes |-> ((bits * Len(rows)) + C - 1) \div C]

PackSuffixes(rows, bits) == IF bits = 0 THEN <<>> ELSE P!Written(rows, bits)

MakeEmpty == [n |-> 0, size |-> 0, width |-> 0, frames |-> <<>>, payload |-> <<>>, wraps |-> FALSE]

\* A frame in which a row's suffix is all of it.
WholeSuffix(width, frames) == \E f \in DOMAIN frames : SuffixBits(frames[f], width) = B

\* choosePlan takes the frame size with the fewest bytes; any may be it.
Plans(d) ==
    LET width == LogicalBitWidth(d)
        Plan(size, wraps) ==
            [size |-> size, width |-> width, wraps |-> wraps,
             frames |-> [f \in DOMAIN Blocks(d, size) |-> Frame(Blocks(d, size)[f], width, wraps)]] IN
    {Plan(size, FALSE) : size \in FrameSizes}
        \cup {p \in {Plan(size, TRUE) : size \in FrameSizes} : WholeSuffix(width, p.frames)}

Encodings(d) ==
    IF d = <<>> THEN {MakeEmpty}
    ELSE {[n |-> Len(d), size |-> p.size, width |-> p.width, frames |-> p.frames, wraps |-> p.wraps,
           payload |-> FlattenSeq([f \in DOMAIN p.frames |->
               PackSuffixes(Blocks(d, p.size)[f], SuffixBits(p.frames[f], p.width))])] : p \in Plans(d)}

-----------------------------------------------------------------------------
(* Reading suffixes *)

\* Bytes are loaded into the accumulator until it has `want` bits, and no
\* further than `room` lets it be filled.
Load(bytes, reader, want, room) ==
    FoldLeft(LAMBDA r, k :
                IF r.bits < want /\ r.bits <= room /\ r.byte < Len(bytes)
                THEN [byte |-> r.byte + 1, bits |-> r.bits + C,
                      acc |-> r.acc + (bytes[r.byte + 1] * 2^r.bits)]
                ELSE r,
             reader, [k \in 1 .. (2 * B) \div C |-> k])

\* The accumulator has one word, or two for suffixes almost as long as a word.
Room(bits) == IF bits <= B - C THEN B - C ELSE 2 * B

TakeOne(values, r, bits) ==
    [values |-> Append(values, r.acc % 2^bits),
     reader |-> [r EXCEPT !.acc = @ \div 2^bits, !.bits = @ - bits]]

Accumulated(bytes, start, count, bits) ==
    LET offset == (start * bits) % C
        filled == Load(bytes, [byte |-> (start * bits) \div C, bits |-> 0, acc |-> 0], B + 1, B - C) IN
    FoldLeft(LAMBDA s, k : TakeOne(s.values, Load(bytes, s.reader, bits, Room(bits)), bits),
             [values |-> <<>>, reader |-> [filled EXCEPT !.acc = @ \div 2^offset, !.bits = @ - offset]],
             [k \in 1 .. count |-> k]).values

\* Word by word.
Words(bytes, start, count) ==
    [k \in 1 .. count |->
        FoldLeft(LAMBDA v, j : v + (bytes[((start + k - 1) * (B \div C)) + j] * 2^(C * (j - 1))),
                 0, [j \in 1 .. B \div C |-> j])]

ReadSuffixes(bytes, start, count, bits) ==
    IF bits <= ReaderBits THEN P!ReadFast(bytes, count, bits, start * bits).values
    ELSE IF bits = B THEN Words(bytes, start, count)
    ELSE Accumulated(bytes, start, count, bits)

\* The bytes of a frame come after those of the frames before it.
PayloadCursor(e, f) == FoldLeft(LAMBDA at, k : at + e.frames[k].suffixBytes, 0, [k \in 1 .. f |-> k])

Payload(e, f) ==
    SubSeq(e.payload, PayloadCursor(e, f) + 1, PayloadCursor(e, f) + e.frames[f + 1].suffixBytes)

\* The prefix before every suffix.
WithPrefix(prefix, bits, width, suffixes) ==
    [k \in DOMAIN suffixes |->
        IF bits = B THEN suffixes[k] ELSE ((prefix * 2^bits) % 2^width) + suffixes[k]]

\* Rows from .. to - 1 of frame f.
UnpackSuffixes(e, f, from, to) ==
    LET frame == e.frames[f + 1]
        bits == SuffixBits(frame, e.width) IN
    IF bits = 0 THEN [k \in 1 .. to - from |-> frame.prefix % 2^e.width]
    ELSE WithPrefix(frame.prefix, bits, e.width,
                    ReadSuffixes(Payload(e, f), from, to - from, bits))

\* extractSuffix, bit by bit, for a single row; the prefix is shifted even if
\* the suffix is the whole value.
ValueAt(e, f, i) ==
    LET frame == e.frames[f + 1]
        bits == SuffixBits(frame, e.width) IN
    IF bits = 0 THEN frame.prefix % 2^e.width
    ELSE Or(ShiftLeft(frame.prefix, bits, e.wraps), P!Read(Payload(e, f), i * bits, bits))
            % 2^e.width

-----------------------------------------------------------------------------
(* The entry points *)

RowsFrom(e, start, stop) ==
    OverBlocks(e.size, e.n, start, stop, stop - start,
               LAMBDA f, from, to : UnpackSuffixes(e, f, from, to))

DecodeAll(e) == Rows(IF e.n = 0 THEN <<>> ELSE RowsFrom(e, 0, e.n))

DecodeAt(e, i) == IF i >= e.n THEN Nullopt ELSE Rows(<<ValueAt(e, i \div e.size, i % e.size)>>)

DecodeRange(e, start, end) ==
    Rows(IF start >= Lesser(end, e.n) THEN <<>> ELSE RowsFrom(e, start, Lesser(end, e.n)))

\* Ranges are cut off at the last row; too few rows are an error.
DecodeGatherInto(e, ranges, n) ==
    IF ranges = <<>> \/ e.n = 0 THEN SizedInto(Rows(<<>>), n)
    ELSE SizedInto(Rows(FlattenSeq([k \in DOMAIN ranges |->
             DecodeRange(e, ranges[k].begin, ranges[k].end).rows])), n)

Answer(e, c, n) ==
    Dispatch(DecodeAll(e), LAMBDA m : SizedInto(DecodeAll(e), m), LAMBDA i : DecodeAt(e, i),
             LAMBDA s, t : DecodeRange(e, s, t),
             LAMBDA s, t, m : SizedInto(DecodeRange(e, s, t), m),
             LAMBDA rs, m : DecodeGatherInto(e, rs, m), c, n)
=============================================================================

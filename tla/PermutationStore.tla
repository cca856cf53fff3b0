-------------------------- MODULE PermutationStore --------------------------
(***************************************************************************)
(* src/Source/reorderers/PermutationStore.hpp: the formats that keep where *)
(* each row of a column went.  fwd[i + 1] is the new place of row i.  The  *)
(* formats that compress a stream of bits with Zstd or LZ4 get back the    *)
(* stream they had.                                                        *)
(***************************************************************************)
EXTENDS CodecContract, FiniteSetsExt

CONSTANT C  \* bits of a byte (8)

P == INSTANCE Packing WITH W <- C, Accumulator <- C, BatchWidths <- {}

Formats == {"FlatBitPacked", "DeltaBitPacked", "ChunkRelative", "DeltaZstd", "ValueGrouped",
            "InverseEliasFano", "ChunkRelativeZstd"}

BitsNeeded(v) == IF v = 0 THEN 1 ELSE P!BitWidth(v)

Zigzag(v)   == IF v >= 0 THEN 2 * v ELSE -2 * v - 1
Unzigzag(z) == IF z % 2 = 0 THEN z \div 2 ELSE -(z \div 2) - 1

Bit(bytes, pos) == (bytes[(pos \div C) + 1] \div 2^(pos % C)) % 2

\* readBitsAt: a window of whole bytes.
ReadBitsAt(bytes, pos, width) ==
    LET from   == pos \div C
        needed == ((pos % C) + width + C - 1) \div C
        window == FoldLeft(LAMBDA v, b : v + bytes[from + b + 1] * 2^(C * b), 0,
                           [b \in 1 .. needed |-> b - 1])
    IN  (window \div 2^(pos % C)) % 2^width

\* The original rows in their new order.
Origins(fwd) == [j \in DOMAIN fwd |-> CHOOSE i \in 0 .. Len(fwd) - 1 : fwd[i + 1] = j - 1]

\* Their groups of equal values, which ascend.
Groups(fwd, sizes) ==
    LET origins == Origins(fwd)
        Before(k) == FoldLeft(+, 0, SubSeq(sizes, 1, k - 1)) IN
    [k \in DOMAIN sizes |-> SubSeq(origins, Before(k) + 1, Before(k) + sizes[k])]

-----------------------------------------------------------------------------
(* Packing *)

FirstWidth(n) == BitsNeeded(Greater(n - 1, 1))

PackFlat(fwd) ==
    [fmt |-> "FlatBitPacked", n |-> Len(fwd), width |-> FirstWidth(Len(fwd)),
     bytes |-> P!Written(fwd, FirstWidth(Len(fwd)))]

PackDelta(fwd, fmt) ==
    LET zz == [i \in 1 .. Len(fwd) - 1 |-> Zigzag(fwd[i + 1] - fwd[i])]
        width == BitsNeeded(Max(ToSet(zz) \cup {1})) IN
    [fmt |-> fmt, n |-> Len(fwd), first |-> FirstWidth(Len(fwd)), width |-> width,
     bytes |-> FoldLeft(LAMBDA w, z : P!Write(w, z, width),
                        P!Write(P!Writer, fwd[1], FirstWidth(Len(fwd))), zz).bytes]

\* std::clamp(chunk, 2, n) is n where n = 1, as libstdc++ has it.
PackChunks(fwd, chunk, fmt) ==
    LET size == Lesser(Greater(chunk, 2), Len(fwd))
        width == BitsNeeded(size - 1) IN
    [fmt |-> fmt, n |-> Len(fwd), chunk |-> size, width |-> width,
     bytes |-> P!Written([i \in DOMAIN fwd |-> fwd[i] - ((i - 1) \div size) * size], width)]

Gaps(g) == [r \in 1 .. Len(g) - 1 |-> g[r + 1] - g[r]]

GapWidth(g) == BitsNeeded(Max(ToSet(Gaps(g)) \cup {1}))

\* A group: its first row, then the gaps.
PackGaps(g, first, width) ==
    FoldLeft(LAMBDA w, gap : P!Write(w, gap, width), P!Write(P!Writer, g[1], first), Gaps(g)).bytes

GroupedBlob(n, sizes, groups) ==
    [fmt |-> "ValueGrouped", n |-> n, sizes |-> sizes, first |-> FirstWidth(n),
     widths |-> [k \in DOMAIN groups |-> GapWidth(groups[k])],
     bytes |-> FlattenSeq([k \in DOMAIN groups |->
                   PackGaps(groups[k], FirstWidth(n), GapWidth(groups[k]))])]

PackValueGrouped(fwd, sizes) == GroupedBlob(Len(fwd), sizes, Groups(fwd, sizes))

LowWidth(g, n) == IF Len(g) < n THEN P!BitWidth(n \div Len(g)) - 1 ELSE 0

\* The high bits in unary: a 0 for every step, a 1 for every row.
Unary(g, low) ==
    FlattenSeq([r \in DOMAIN g |->
        [z \in 1 .. (g[r] \div 2^low) - (IF r = 1 THEN 0 ELSE g[r - 1] \div 2^low) |-> 0] \o <<1>>])

\* Low bits as they are, then the high ones.
EliasFanoBlob(n, sizes, groups, lows, highs) ==
    [fmt |-> "InverseEliasFano", n |-> n, sizes |-> sizes, low |-> lows,
     highs |-> [k \in DOMAIN groups |-> Len(highs[k])],
     bytes |-> FlattenSeq([k \in DOMAIN groups |->
                   P!Written([r \in DOMAIN groups[k] |-> groups[k][r] % 2^lows[k]], lows[k])
                       \o highs[k]])]

PackInverseEliasFano(fwd, sizes) ==
    LET groups == Groups(fwd, sizes)
        lows == [k \in DOMAIN groups |-> LowWidth(groups[k], Len(fwd))] IN
    EliasFanoBlob(Len(fwd), sizes, groups, lows,
                  [k \in DOMAIN groups |-> P!Written(Unary(groups[k], lows[k]), 1)])

None == [fmt |-> "None", n |-> 0]

\* pack and packWithGroups, with the sizes of the groups of equal values.
Pack(fwd, sizes, fmt, chunk) ==
    CASE fwd = <<>> -> None
      [] fwd # <<>> /\ fmt = "FlatBitPacked" -> PackFlat(fwd)
      [] fwd # <<>> /\ fmt \in {"DeltaBitPacked", "DeltaZstd"} -> PackDelta(fwd, fmt)
      [] fwd # <<>> /\ fmt \in {"ChunkRelative", "ChunkRelativeZstd"} -> PackChunks(fwd, chunk, fmt)
      [] fwd # <<>> /\ fmt = "ValueGrouped" -> PackValueGrouped(fwd, sizes)
      [] fwd # <<>> /\ fmt = "InverseEliasFano" -> PackInverseEliasFano(fwd, sizes)

-----------------------------------------------------------------------------
(* Unpacking *)

SupportsRandomAccess(blob) == blob.fmt \in {"None", "FlatBitPacked", "ChunkRelative"}

UnpackFlat(blob) == [i \in 1 .. blob.n |-> P!Read(blob.bytes, (i - 1) * blob.width, blob.width)]

UnpackDelta(blob) ==
    LET Step(rows, i) ==
            Append(rows, Last(rows) + Unzigzag(
                P!Read(blob.bytes, blob.first + (i - 1) * blob.width, blob.width))) IN
    FoldLeft(Step, <<P!Read(blob.bytes, 0, blob.first)>>, [i \in 1 .. blob.n - 1 |-> i])

UnpackChunks(blob) ==
    [i \in 1 .. blob.n |-> ((i - 1) \div blob.chunk) * blob.chunk
                              + P!Read(blob.bytes, (i - 1) * blob.width, blob.width)]

ValueGroup(blob, k, byte) ==
    LET Step(rows, r) ==
            Append(rows, Last(rows) + P!Read(blob.bytes,
                C * byte + blob.first + (r - 1) * blob.widths[k], blob.widths[k])) IN
    FoldLeft(Step, <<P!Read(blob.bytes, C * byte, blob.first)>>, [r \in 1 .. blob.sizes[k] - 1 |-> r])

ValueGroupBytes(blob, k) == (blob.first + (blob.sizes[k] - 1) * blob.widths[k] + C - 1) \div C

LowBytes(blob, k) == (blob.sizes[k] * blob.low[k] + C - 1) \div C

\* The r-th 1 has as many 0s before it as the row has in its high bits.
EliasFanoGroup(blob, k, byte) ==
    LET start == C * (byte + LowBytes(blob, k))
        ones  == SetToSortSeq({b \in start .. C * Len(blob.bytes) - 1 : Bit(blob.bytes, b) = 1}, <)
    IN  [r \in 1 .. blob.sizes[k] |->
            (ones[r] - start - (r - 1)) * 2^blob.low[k]
                + P!Read(blob.bytes, C * byte + (r - 1) * blob.low[k], blob.low[k])]

EliasFanoBytes(blob, k) == LowBytes(blob, k) + blob.highs[k]

\* The original rows of group k, which starts at a byte, and how many bytes it has.
GroupAt(blob, k, byte) ==
    IF blob.fmt = "ValueGrouped" THEN ValueGroup(blob, k, byte) ELSE EliasFanoGroup(blob, k, byte)

GroupBytes(blob, k) ==
    IF blob.fmt = "ValueGrouped" THEN ValueGroupBytes(blob, k) ELSE EliasFanoBytes(blob, k)

\* The rows of a group are the next ones in sorted order.
Place(blob, s, k, rows) ==
    [fwd |-> FoldLeft(LAMBDA fwd, r : [fwd EXCEPT ![rows[r] + 1] = s.sorted + r - 1], s.fwd,
                      [r \in DOMAIN rows |-> r]),
     sorted |-> s.sorted + blob.sizes[k], byte |-> s.byte + GroupBytes(blob, k)]

UnpackGroups(blob) ==
    FoldLeft(LAMBDA s, k : Place(blob, s, k, GroupAt(blob, k, s.byte)),
             [fwd |-> [i \in 1 .. blob.n |-> 0], sorted |-> 0, byte |-> 0],
             [k \in DOMAIN blob.sizes |-> k]).fwd

UnpackForward(blob) ==
    CASE blob.fmt = "None" -> <<>>
      [] blob.fmt = "FlatBitPacked" -> UnpackFlat(blob)
      [] blob.fmt \in {"DeltaBitPacked", "DeltaZstd"} -> UnpackDelta(blob)
      [] blob.fmt \in {"ChunkRelative", "ChunkRelativeZstd"} -> UnpackChunks(blob)
      [] blob.fmt \in {"ValueGrouped", "InverseEliasFano"} -> UnpackGroups(blob)

\* Mutant of ChunkOf: a place in its chunk is taken for a place in the column.
WholeColumn(blob, i) == 0

ChunkOf(blob, i) == (i \div blob.chunk) * blob.chunk

ForwardAt(blob, i) ==
    CASE blob.fmt = "None" -> i
      [] blob.fmt = "FlatBitPacked" -> ReadBitsAt(blob.bytes, i * blob.width, blob.width)
      [] blob.fmt = "ChunkRelative" ->
            ChunkOf(blob, i) + ReadBitsAt(blob.bytes, i * blob.width, blob.width)
      [] OTHER -> UnpackForward(blob)[i + 1]

\* The places of some rows, in a permutation.
PlacesOf(fwd, rows) == [k \in DOMAIN rows |-> fwd[rows[k] + 1]]

ForwardBulk(blob, rows) ==
    IF rows # <<>> /\ SupportsRandomAccess(blob) THEN [k \in DOMAIN rows |-> ForwardAt(blob, rows[k])]
    ELSE PlacesOf(UnpackForward(blob), rows)
=============================================================================

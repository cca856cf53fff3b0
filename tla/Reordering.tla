----------------------------- MODULE Reordering -----------------------------
(***************************************************************************)
(* ReorderingCodec (src/Source/reorderers/): a reorderer puts a column     *)
(* into an order, or its values into a form, that an inner codec packs     *)
(* better.  The inner codec keeps what it is given.  BitShuffleCodec, a    *)
(* codec of its own, keeps one plane for every bit of the values, and      *)
(* BWTSectionEncoder, another, rotates windows by itself.                  *)
(*                                                                         *)
(* Sort and WindowedSort keep a permutation (PermutationStore); the other  *)
(* reorderers' blobs hold something else.  Values are not negative.        *)
(***************************************************************************)
EXTENDS CodecContract, FiniteSetsExt

CONSTANTS
    C,       \* bits of a byte (8)
    B,       \* bits of a value
    Window   \* rows of a window of WindowedSort, and of windowed MTF and BWT

PS == INSTANCE PermutationStore

\* ReorderingCodec::positionPermuted
PositionPermuted(kind) == kind \in {"Sort", "WindowedSort"}

\* std::stable_sort of 0 .. n - 1
StableOrder(n, Less(_, _)) ==
    SetToSortSeq(0 .. n - 1, LAMBDA a, b : Less(a, b) \/ (~Less(b, a) /\ a < b))

\* The windows of a column; 0 rows are one window.
Parts(d, window) == IF window = 0 THEN <<d>> ELSE Blocks(d, window)

-----------------------------------------------------------------------------
(* Sorting *)

SortedRows(d) == StableOrder(Len(d), LAMBDA a, b : d[a + 1] < d[b + 1])

\* The new place of every row.
Forward(order) == [i \in DOMAIN order |-> (CHOOSE j \in DOMAIN order : order[j] = i - 1) - 1]

\* computeGroupSizes: how often each value occurs, in ascending order.
GroupSizes(d) ==
    [k \in 1 .. Cardinality(ToSet(d)) |->
        Cardinality({i \in DOMAIN d : d[i] = SetToSortSeq(ToSet(d), <)[k]})]

Reordered(d, order) == [j \in DOMAIN d |-> d[order[j] + 1]]

WindowedRows(d) ==
    FlattenSeq([k \in DOMAIN Parts(d, Window) |->
        [r \in DOMAIN Parts(d, Window)[k] |->
            (k - 1) * Window + SortedRows(Parts(d, Window)[k])[r]]])

Unsort(values, fwd) == [i \in DOMAIN values |-> values[fwd[i] + 1]]

-----------------------------------------------------------------------------
(* Gray code: a value xor its half, undone by doubling shifts *)

BitsOf(v) == [b \in 0 .. B - 1 |-> (v \div 2^b) % 2]
ValueOf(bits) == MapThenSumSet(LAMBDA b : bits[b] * 2^b, 0 .. B - 1)

XorShifted(bits, s) == [b \in 0 .. B - 1 |-> (bits[b] + (IF b + s < B THEN bits[b + s] ELSE 0)) % 2]

GrayCode(d) == [i \in DOMAIN d |-> ValueOf(XorShifted(BitsOf(d[i]), 1))]

\* The shifts: 32, 16, ..., 1, as far as they are less than the bits of a value.
Shifts == SetToSortSeq({s \in {2^k : k \in 0 .. B} : s < B}, >)

GrayDecode(values) == [i \in DOMAIN values |-> ValueOf(FoldLeft(XorShifted, BitsOf(values[i]), Shifts))]

-----------------------------------------------------------------------------
(* Move to front *)

ToFront(alphabet, rank) ==
    <<alphabet[rank + 1]>> \o SubSeq(alphabet, 1, rank) \o SubSeq(alphabet, rank + 2, Len(alphabet))

ApplyMTF(d, alphabet) ==
    FoldLeft(LAMBDA s, v : LET rank == SelectInSeq(s.alphabet, LAMBDA u : u = v) - 1 IN
                           [alphabet |-> ToFront(s.alphabet, rank), out |-> Append(s.out, rank)],
             [alphabet |-> alphabet, out |-> <<>>], d).out

ApplyIMTF(ranks, alphabet) ==
    FoldLeft(LAMBDA s, rank : [alphabet |-> ToFront(s.alphabet, rank),
                               out |-> Append(s.out, s.alphabet[rank + 1])],
             [alphabet |-> alphabet, out |-> <<>>], ranks).out

\* Every window starts from the alphabet of the column.
Alphabet(d) == SetToSortSeq(ToSet(d), <)

-----------------------------------------------------------------------------
(* Burrows and Wheeler: the last column of the sorted rotations *)

Rotation(s, a, k) == s[((a + k) % Len(s)) + 1]

LessRotation(s, a, b) ==
    \E k \in 0 .. Len(s) - 1 :
        /\ Rotation(s, a, k) < Rotation(s, b, k)
        /\ \A l \in 0 .. k - 1 : Rotation(s, a, l) = Rotation(s, b, l)

\* The last column, and which rotation is the first row's.
LastColumn(s, order) ==
    [out |-> [j \in DOMAIN s |-> Rotation(s, order[j], Len(s) - 1)],
     primary |-> SelectInSeq(order, LAMBDA a : a = 0) - 1]

BWTForward(s) == LastColumn(s, StableOrder(Len(s), LAMBDA a, b : LessRotation(s, a, b)))

\* lf: which row of the sorted column each row of the last column is.
Walk(bwt, primary, lf) ==
    FoldLeft(LAMBDA s, i : [out |-> <<bwt[s.cur + 1]>> \o s.out, cur |-> lf[s.cur + 1]],
             [out |-> <<>>, cur |-> primary], [i \in DOMAIN bwt |-> i]).out

BWTInverse(bwt, primary) == Walk(bwt, primary, Forward(SortedRows(bwt)))

-----------------------------------------------------------------------------
(* Encoding *)

\* The format that a blob's first byte, the lowest one of its row count, is read
\* as, where the blob does not start with a format.  Columns have less than 256 rows.
Misread(n) ==
    CASE n = 0 -> "None" [] n = 1 -> "FlatBitPacked" [] n = 3 -> "ChunkRelative" [] OTHER -> "Other"

Plain(values, blob, kind) == [n |-> Len(values), kind |-> kind, inner |-> values, blob |-> blob]

\* A blob that is no permutation.
Form(d, window, kept) == [fmt |-> Misread(Len(d)), window |-> window, kept |-> kept]

SortFormats(kind) ==
    IF kind = "Sort" THEN PS!Formats ELSE {"ChunkRelative", "ChunkRelativeZstd"}

\* Sorted, of which windowed sorting does not know the groups of equal values.
Sorted(d, kind, order) ==
    {Plain(Reordered(d, order),
           PS!Pack(Forward(order), IF kind = "Sort" THEN GroupSizes(d) ELSE <<>>, fmt,
                   IF kind = "Sort" THEN 256 ELSE Window), kind) : fmt \in SortFormats(kind)}

MoveToFront(d, window) ==
    Plain(FlattenSeq([k \in DOMAIN Parts(d, window) |-> ApplyMTF(Parts(d, window)[k], Alphabet(d))]),
          Form(d, window, Alphabet(d)), "MTF")

Rotated(d, window, columns) ==
    Plain(FlattenSeq([k \in DOMAIN columns |-> columns[k].out]),
          Form(d, window, [k \in DOMAIN columns |-> columns[k].primary]), "BWT")

Transforms(d, kind) ==
    CASE PositionPermuted(kind) ->
            Sorted(d, kind, IF kind = "Sort" THEN SortedRows(d) ELSE WindowedRows(d))
      [] kind = "GrayCode" -> {Plain(GrayCode(d), PS!None, kind)}
      [] kind = "MTF" -> {MoveToFront(d, w) : w \in {0, Window}}
      [] kind = "BWT" ->
            {Rotated(d, w, [k \in DOMAIN Parts(d, w) |-> BWTForward(Parts(d, w)[k])]) :
                w \in {0, Window}}

\* How the codec was set up, and the permutation that a resident one keeps of an
\* artifact it decoded before; artifacts of one codec differ in their row count.
Setups(d) ==
    {s \in [randomAccess : BOOLEAN, bypass : BOOLEAN, held : {<<>>, <<1, 0>>, <<2, 0, 1>>}] :
        s.held # <<>> => ~s.bypass /\ Len(s.held) # Len(d)}

Encodings(d, kind) == {[codec |-> s] @@ e : s \in Setups(d), e \in Transforms(d, kind)}

-----------------------------------------------------------------------------
(* Decoding *)

Crashed == [kind |-> "crashed", rows |-> <<>>]

\* Reorderer::unreorder.  The blob of a column without rows is empty, which two
\* reorderers read all the same.
Unreorder(e) ==
    CASE PositionPermuted(e.kind) -> Rows(Unsort(e.inner, PS!UnpackForward(e.blob)))
      [] e.kind = "GrayCode" -> Rows(GrayDecode(e.inner))
      [] e.kind \in {"MTF", "BWT"} /\ e.n = 0 -> Crashed
      [] e.kind = "MTF" /\ e.n > 0 -> Rows(FlattenSeq(
            [k \in DOMAIN Parts(e.inner, e.blob.window) |->
                ApplyIMTF(Parts(e.inner, e.blob.window)[k], e.blob.kept)]))
      [] e.kind = "BWT" /\ e.n > 0 -> Rows(FlattenSeq(
            [k \in DOMAIN Parts(e.inner, e.blob.window) |->
                BWTInverse(Parts(e.inner, e.blob.window)[k], e.blob.kept[k])]))

DecodeAll(e) == Unreorder(e)

\* The inner codec's decodeAt
InnerAt(e, j) == IF j < e.n THEN Rows(<<e.inner[j + 1]>>) ELSE Nullopt

\* decodeAt goes by the blob's first byte, whatever the blob is: a width of 0
\* bits, and a chunk of 0 rows, come of one that is no permutation.
PointAt(e, i) ==
    CASE PositionPermuted(e.kind) \/ e.blob.fmt = "None" -> InnerAt(e, PS!ForwardAt(e.blob, i))
      [] OTHER -> IF e.blob.fmt = "FlatBitPacked" THEN InnerAt(e, 0) ELSE Crashed

DecodeAt(e, i) ==
    CASE i >= e.n -> Nullopt
      [] i < e.n /\ PS!SupportsRandomAccess(e.blob) /\ e.codec.randomAccess -> PointAt(e, i)
      [] OTHER -> Rows(<<DecodeAll(e).rows[i + 1]>>)

\* originalToReorderedIndices has an answer for all but MTF and BWT.
Mapped(e, rows) == IF e.kind = "GrayCode" THEN rows ELSE PS!ForwardBulk(e.blob, rows)

RowsFrom(start, end) == [k \in 1 .. end - start |-> start + k - 1]

\* The values the inner codec gathers.
Gathered(e, places) == Rows([k \in DOMAIN places |-> e.inner[places[k] + 1]])

DecodeRange(e, start, end) ==
    LET last == Lesser(end, e.n) IN
    CASE start >= last -> Rows(<<>>)
      [] start < last /\ e.codec.randomAccess /\ e.kind \notin {"MTF", "BWT"} ->
            Gathered(e, Mapped(e, RowsFrom(start, last)))
      [] OTHER -> Rows(Slice(DecodeAll(e).rows, start, last))

\* forwardPermutation: the one a resident codec has, if it is as long as the column.
ForwardPermutation(e) ==
    CASE ~PositionPermuted(e.kind) -> <<>>
      [] PositionPermuted(e.kind) /\ e.codec.held # <<>> /\ Len(e.codec.held) = e.n -> e.codec.held
      [] OTHER -> PS!UnpackForward(e.blob)

UnreorderBy(e, fwd) == IF fwd # <<>> THEN Rows(Unsort(e.inner, fwd)) ELSE Unreorder(e)

UnreorderInto(e) == UnreorderBy(e, ForwardPermutation(e))

DecodeAllInto(e, n) ==
    CASE e.codec.bypass -> SizedInto(DecodeAll(e), n)
      [] ~e.codec.bypass /\ n # e.n -> Threw
      [] OTHER -> IF n = 0 THEN Rows(<<>>) ELSE UnreorderInto(e)

\* mapForward: row by row, from a permutation, or not at all.
MapForward(e, rows) ==
    IF PositionPermuted(e.kind) /\ PS!SupportsRandomAccess(e.blob)
    THEN [k \in DOMAIN rows |-> PS!ForwardAt(e.blob, rows[k])]
    ELSE IF PositionPermuted(e.kind) THEN PS!PlacesOf(ForwardPermutation(e), rows) ELSE <<>>

\* The rows in question, at their places or, without any, out of the column decoded.
SelectedAt(e, rows, places) ==
    IF places # <<>> THEN Gathered(e, places) ELSE Rows(PS!PlacesOf(UnreorderInto(e).rows, rows))

Selected(e, rows) ==
    IF rows = <<>> THEN Rows(<<>>)
    ELSE SelectedAt(e, rows, IF e.codec.randomAccess THEN MapForward(e, rows) ELSE <<>>)

IntoMemory(e, rows, refuses, n) ==
    IF refuses \/ Len(rows) # n THEN Threw ELSE Selected(e, rows)

RowsOfRanges(ranges) ==
    FlattenSeq([k \in DOMAIN ranges |-> RowsFrom(ranges[k].begin, ranges[k].end)])

DecodeRangeInto(e, start, end, n) ==
    IF e.codec.bypass THEN SizedInto(DecodeRange(e, start, end), n)
    ELSE IntoMemory(e, RowsFrom(start, Lesser(end, e.n)), FALSE, n)

DecodeGatherInto(e, ranges, n) ==
    IF e.codec.bypass
    THEN DefaultGather(LAMBDA s, t, m : DecodeRangeInto(e, s, t, m), ranges, n)
    ELSE IntoMemory(e, RowsOfRanges(ranges), \E r \in ToSet(ranges) : r.end > e.n, n)

Answer(e, c, n) ==
    Dispatch(DecodeAll(e), LAMBDA m : DecodeAllInto(e, m), LAMBDA i : DecodeAt(e, i),
             LAMBDA s, t : DecodeRange(e, s, t), LAMBDA s, t, m : DecodeRangeInto(e, s, t, m),
             LAMBDA rs, m : DecodeGatherInto(e, rs, m), c, n)

-----------------------------------------------------------------------------
(* BitShuffleCodec: bit b of row i is bit b * n + i of the planes *)

BitShuffle(d) ==
    LET n == Len(d)
        Set(pos) == pos < B * n /\ (d[(pos % n) + 1] \div 2^(pos \div n)) % 2 = 1 IN
    [n |-> n,
     planes |-> [at \in 1 .. B * ((n + C - 1) \div C) |->
                    MapThenSumSet(LAMBDA j : 2^j, {j \in 0 .. C - 1 : Set((at - 1) * C + j)})]]

PlanePosition(e, b, i) == b * e.n + i

Unshuffled(e, i) == MapThenSumSet(LAMBDA b : 2^b * PS!Bit(e.planes, PlanePosition(e, b, i)), 0 .. B - 1)

ShuffleRange(e, start, end) ==
    Rows([k \in 1 .. Greater(Lesser(end, e.n) - start, 0) |-> Unshuffled(e, start + k - 1)])

ShuffleAnswer(e, c, n) ==
    LET InRange(s, t) == ShuffleRange(e, s, t)
        Into(s, t, m) == DefaultRangeInto(InRange, s, t, m)
        all == ShuffleRange(e, 0, e.n) IN
    Dispatch(all, LAMBDA m : SizedInto(all, m),
             LAMBDA i : IF i < e.n THEN Rows(<<Unshuffled(e, i)>>) ELSE Nullopt,
             InRange, Into, LAMBDA rs, m : DefaultGather(Into, rs, m), c, n)
-----------------------------------------------------------------------------
(* BWTSectionEncoder (src/Source/encoders/): rotated window by window, the *)
(* first rows' rotations in the encoding itself.  Nothing at all is kept   *)
(* of a column without rows, and read all the same.                        *)

\* W, the rows of a window, is a parameter of the class.
SectionEncode(d, window) ==
    LET columns == [k \in DOMAIN Blocks(d, window) |-> BWTForward(Blocks(d, window)[k])] IN
    [n |-> Len(d), window |-> window,
     inner |-> FlattenSeq([k \in DOMAIN columns |-> columns[k].out]),
     primary |-> [k \in DOMAIN columns |-> columns[k].primary]]

SectionWindow(e, k) ==
    BWTInverse(Slice(e.inner, k * e.window, Lesser((k + 1) * e.window, e.n)), e.primary[k + 1])

SectionAll(e) ==
    IF e.n = 0 THEN Crashed
    ELSE Rows(FlattenSeq([k \in DOMAIN e.primary |-> SectionWindow(e, k - 1)]))

\* The window of the row, by the inner codec's decodeRange.
SectionAt(e, i) ==
    CASE e.n = 0 -> Crashed
      [] e.n > 0 /\ i >= e.n -> Nullopt
      [] OTHER -> Rows(<<SectionWindow(e, i \div e.window)[(i % e.window) + 1]>>)

SectionRange(e, start, end) ==
    IF e.n = 0 THEN Crashed ELSE Rows(Slice(SectionAll(e).rows, start, end))

SectionAnswer(e, c, n) ==
    LET InRange(s, t) == SectionRange(e, s, t)
        Into(s, t, m) == DefaultRangeInto(InRange, s, t, m) IN
    Dispatch(SectionAll(e), LAMBDA m : SizedInto(SectionAll(e), m), LAMBDA i : SectionAt(e, i),
             InRange, Into, LAMBDA rs, m : DefaultGather(Into, rs, m), c, n)
=============================================================================

------------------------------- MODULE VarInt -------------------------------
(***************************************************************************)
(* VarIntEncoder and DeltaVarIntEncoder (src/Source/encoders/): numbers,   *)
(* or the differences of neighbours, as groups of bits with a continuation *)
(* bit each.  No row can be found but by reading all before it.  Values    *)
(* are kept as unsigned numbers of B bits.                                 *)
(***************************************************************************)
EXTENDS CodecContract, FiniteSetsExt

CONSTANTS
    B,  \* bits of a value
    G   \* bits of a group (7)

Wrapped(v) == v % 2^B

-----------------------------------------------------------------------------
(* LEB128 and ZigZag *)

\* (v << 1) ^ (v >> B - 1): the second is all ones for what is negative.
ZigzagEncode(v) == IF v < 2^(B - 1) THEN 2 * v ELSE 2^B - 1 - Wrapped(2 * v)

ZigzagDecode(u) == IF u % 2 = 0 THEN u \div 2 ELSE 2^B - 1 - (u \div 2)

More == 2^G

WriteLEB128(u) ==
    LET groups == Max({1} \cup {k \in 1 .. B : u >= 2^(G * (k - 1))}) IN
    [k \in 1 .. groups |->
        ((u \div 2^(G * (k - 1))) % More) + (IF k < groups THEN More ELSE 0)]

\* Position after the number at p.
SkipOne(stream, p) == 1 + Min({q \in p .. Len(stream) : stream[q] < More})

ReadLEB128(stream, p) ==
    FoldLeft(LAMBDA v, k : Wrapped(v + (stream[p + k] % More) * 2^(G * k)), 0,
             [k \in 1 .. SkipOne(stream, p) - p |-> k - 1])

Written(values, zigzag) ==
    FlattenSeq([k \in DOMAIN values |->
        WriteLEB128(IF zigzag THEN ZigzagEncode(values[k]) ELSE values[k])])

DecodeOne(e, p) ==
    LET u == ReadLEB128(e.stream, p) IN IF e.zigzag THEN ZigzagDecode(u) ELSE u

-----------------------------------------------------------------------------
(* VarIntEncoder *)

Encode(d, zigzag) == [n |-> Len(d), zigzag |-> zigzag, stream |-> Written(d, zigzag)]

\* Position of the k-th number from p.
Skipped(e, p, k) == FoldLeft(LAMBDA q, i : SkipOne(e.stream, q), p, [i \in 1 .. k |-> i])

Decoded(e, p, count) == [k \in 1 .. count |-> DecodeOne(e, Skipped(e, p, k - 1))]

DecodeAll(e) == Rows(Decoded(e, 1, e.n))

DecodeAt(e, i) == IF i >= e.n THEN Nullopt ELSE Rows(<<DecodeOne(e, Skipped(e, 1, i))>>)

DecodeRange(e, start, end) ==
    LET stop == Lesser(end, e.n) IN
    Rows(IF start >= stop THEN <<>> ELSE Decoded(e, Skipped(e, 1, start), stop - start))

\* A gather goes once through the stream, with the position and the row of it;
\* Forward(s, begin, end) does so for one range.
InOnePass(n, ranges, wanted, state, Forward(_, _, _)) ==
    IF ranges = <<>> THEN IF wanted # 0 THEN Threw ELSE Rows(<<>>)
    ELSE SizedInto(Rows(FoldLeft(LAMBDA s, r :
                                    IF RangeSize(r) = 0 \/ r.begin >= n THEN s
                                    ELSE Forward(s, r.begin, Lesser(r.end, n)),
                                 state, ranges).rows), wanted)

Forward(e, s, begin, end) ==
    LET p == Skipped(e, s.p, begin - s.last) IN
    [rows |-> s.rows \o Decoded(e, p, end - begin), p |-> Skipped(e, p, end - begin), last |-> end]

DecodeGatherInto(e, ranges, n) ==
    InOnePass(e.n, ranges, n, [rows |-> <<>>, p |-> 1, last |-> 0],
              LAMBDA s, begin, end : Forward(e, s, begin, end))

Answer(e, c, n) ==
    Dispatch(DecodeAll(e), LAMBDA m : SizedInto(DecodeAll(e), m), LAMBDA i : DecodeAt(e, i),
             LAMBDA s, t : DecodeRange(e, s, t),
             LAMBDA s, t, m : SizedInto(DecodeRange(e, s, t), m),
             LAMBDA rs, m : DecodeGatherInto(e, rs, m), c, n)

-----------------------------------------------------------------------------
(* DeltaVarIntEncoder *)

DeltaEncode(d, zigzag) ==
    [n |-> Len(d), zigzag |-> zigzag, anchor |-> IF d = <<>> THEN 0 ELSE d[1],
     stream |-> Written([k \in 1 .. Len(d) - 1 |-> Wrapped(d[k + 1] - d[k])], zigzag)]

\* Rows first .. last, of which row 0 takes no difference, when `current` is
\* the row before and p is where the difference of the first is.
Accumulated(e, current, p, first, last) ==
    FoldLeft(LAMBDA s, i : IF i = 0 THEN [s EXCEPT !.rows = Append(@, e.anchor)]
                           ELSE LET v == Wrapped(s.current + DecodeOne(e, s.p)) IN
                                [rows |-> Append(s.rows, v), current |-> v,
                                 p |-> SkipOne(e.stream, s.p)],
             [rows |-> <<>>, current |-> current, p |-> p],
             [k \in 1 .. last - first + 1 |-> first + k - 1])

FromAnchor(e, last) == Accumulated(e, e.anchor, 1, 0, last).rows

\* Even without rows, the anchor is returned.
DeltaDecodeAll(e) == Rows(FromAnchor(e, Greater(e.n, 1) - 1))

DeltaDecodeAt(e, i) == IF i >= e.n THEN Nullopt ELSE Rows(<<FromAnchor(e, i)[i + 1]>>)

DeltaDecodeRange(e, start, end) ==
    LET stop == Lesser(end, e.n) IN
    Rows(IF start >= stop THEN <<>> ELSE SubSeq(FromAnchor(e, stop - 1), start + 1, stop))

\* Rows on from one state of the pass to the next, kept or skipped.
Onward(e, s, to) == Accumulated(e, s.current, s.p, s.last, to - 1)

Kept(rows, s, end) == [rows |-> rows \o s.rows, current |-> s.current, p |-> s.p, last |-> end]

DeltaForward(e, s, begin, end) ==
    Kept(s.rows, Onward(e, Onward(e, s, begin) @@ [last |-> begin], end), end)

DeltaDecodeGatherInto(e, ranges, n) ==
    InOnePass(e.n, ranges, n, [rows |-> <<>>, current |-> e.anchor, p |-> 1, last |-> 0],
              LAMBDA s, begin, end : DeltaForward(e, s, begin, end))

DeltaAnswer(e, c, n) ==
    Dispatch(DeltaDecodeAll(e), LAMBDA m : SizedInto(DeltaDecodeAll(e), m),
             LAMBDA i : DeltaDecodeAt(e, i), LAMBDA s, t : DeltaDecodeRange(e, s, t),
             LAMBDA s, t, m : SizedInto(DeltaDecodeRange(e, s, t), m),
             LAMBDA rs, m : DeltaDecodeGatherInto(e, rs, m), c, n)
=============================================================================

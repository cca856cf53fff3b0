---------------------------- MODULE DeltaStreams ----------------------------
(***************************************************************************)
(* Three more codecs of differences (src/Source/encoders/):                *)
(* DeltaRunLengthEncoder keeps runs of equal ones, DeltaPrepassEncoder     *)
(* hands them to a leaf codec and answers from the whole column decoded,   *)
(* DeltaSubIntEncoder (DeltaCodec.hpp) hands them to a SubIntEncoder and   *)
(* keeps the value of every BlockSize-th row beside them.  The inner       *)
(* codecs return what they were given.                                     *)
(***************************************************************************)
EXTENDS CodecContract, FiniteSetsExt

CONSTANTS
    B,         \* bits of a value
    BlockSize  \* rows between two checkpoints

Wrapped(v) == v % 2^B

Deltas(d) == [k \in 1 .. Len(d) - 1 |-> Wrapped(d[k + 1] - d[k])]

Sum(v, deltas) == FoldLeft(LAMBDA a, b : Wrapped(a + b), v, deltas)

\* The values that deltas lead to, the first value among them.
Sums(v, deltas) == [k \in 1 .. Len(deltas) + 1 |-> Sum(v, SubSeq(deltas, 1, k - 1))]

-----------------------------------------------------------------------------
(* DeltaRunLengthEncoder: run r starts at difference starts[r + 1] *)

RunsEncode(d) ==
    LET deltas == Deltas(d)
        starts == SetToSortSeq({k \in DOMAIN deltas : k = 1 \/ deltas[k] # deltas[k - 1]}, <) IN
    [n |-> Len(d), first |-> IF d = <<>> THEN 0 ELSE d[1],
     starts |-> [r \in DOMAIN starts |-> starts[r] - 1],
     values |-> [r \in DOMAIN starts |-> deltas[starts[r]]]]

\* Every delta by the end of its run; without runs there is still a first value.
RunsDecodeAll(e) ==
    LET End(r) == IF r < Len(e.starts) THEN e.starts[r + 1] ELSE e.n - 1 IN
    Rows(Sums(e.first, FlattenSeq([r \in DOMAIN e.starts |->
                          [k \in 1 .. End(r) - e.starts[r] |-> e.values[r]]])))

\* The run of difference i, searched for from an earlier run on.
RunFrom(e, run, i) == Max({run} \cup {r \in run .. Len(e.starts) : r > run /\ e.starts[r] <= i})

\* Adds the differences from .. to - 1, and tells the values on the way.
Walk(e, s, from, to) ==
    FoldLeft(LAMBDA t, i : LET run == RunFrom(e, t.run, i)
                               v == Wrapped(t.current + e.values[run]) IN
                           [run |-> run, current |-> v, rows |-> Append(t.rows, v)],
             [s EXCEPT !.rows = <<>>], [k \in 1 .. to - from |-> from + k - 1])

Origin(e) == [run |-> 1, current |-> e.first, rows |-> <<>>]

RunsDecodeAt(e, i) == IF i >= e.n THEN Nullopt ELSE Rows(<<Walk(e, Origin(e), 0, i).current>>)

RunsDecodeRange(e, start, end) ==
    LET at == Walk(e, Origin(e), 0, start) IN
    IF start >= e.n THEN Rows(<<>>)
    \* (A range without rows still has its first one; reserve(0) allows it.)
    ELSE Rows(<<at.current>> \o Walk(e, at, start, Lesser(end, e.n) - 1).rows)

\* One walk up to the last row asked for, that stores the rows of the ranges.
RunsDecodeGatherInto(e, ranges, n) ==
    IF ranges = <<>> THEN IF n # 0 THEN Threw ELSE Rows(<<>>)
    ELSE LET lastEnd == Lesser(ranges[Len(ranges)].end, e.n)
             values == <<e.first>> \o Walk(e, Origin(e), 0, lastEnd - 1).rows
             In(i) == \E r \in ToSet(ranges) : r.begin <= i /\ i < r.end
             wanted == SelectSeq([k \in 1 .. lastEnd |-> k], LAMBDA k : In(k - 1)) IN
         SizedInto(Rows([k \in DOMAIN wanted |-> values[wanted[k]]]), n)

RunsAnswer(e, c, n) ==
    LET InRange(s, t) == RunsDecodeRange(e, s, t) IN
    Dispatch(RunsDecodeAll(e), LAMBDA m : SizedInto(RunsDecodeAll(e), m),
             LAMBDA i : RunsDecodeAt(e, i), InRange,
             LAMBDA s, t, m : DefaultRangeInto(InRange, s, t, m),
             LAMBDA rs, m : RunsDecodeGatherInto(e, rs, m), c, n)

-----------------------------------------------------------------------------
(* DeltaPrepassEncoder *)

PrepassEncode(d) ==
    [n |-> Len(d), anchor |-> IF d = <<>> THEN 0 ELSE d[1], leaf |-> Deltas(d)]

PrepassRows(e) ==
    IF e.n = 0 THEN Rows(<<>>)
    ELSE IF Len(e.leaf) # e.n - 1 THEN Threw
    ELSE Rows(Sums(e.anchor, e.leaf))

\* refreshCache: one row, or some, of all of them.
PrepassAt(e, i) == IF i >= Len(PrepassRows(e).rows) THEN Nullopt
                   ELSE Rows(<<PrepassRows(e).rows[i + 1]>>)

PrepassRange(e, start, end) == Rows(Slice(PrepassRows(e).rows, start, end))

PrepassAnswer(e, c, n) ==
    LET InRange(s, t) == PrepassRange(e, s, t)
        Into(s, t, m) == DefaultRangeInto(InRange, s, t, m) IN
    Dispatch(PrepassRows(e), LAMBDA m : SizedInto(PrepassRows(e), m), LAMBDA i : PrepassAt(e, i),
             InRange, Into, LAMBDA rs, m : DefaultGather(Into, rs, m), c, n)

-----------------------------------------------------------------------------
(* DeltaSubIntEncoder *)

\* The first difference is the first value.
SubIntEncode(d) ==
    [n |-> Len(d),
     skipTable |-> [b \in 1 .. (Len(d) + BlockSize - 1) \div BlockSize |->
                       d[((b - 1) * BlockSize) + 1]],
     deltas |-> IF d = <<>> THEN <<>> ELSE <<d[1]>> \o Deltas(d)]

SubIntDecodeAll(e) ==
    IF e.n = 0 THEN Rows(<<>>) ELSE Rows(Sums(e.deltas[1], Tail(e.deltas)))

\* Rows first .. last of one column: from the checkpoint before the first, with
\* the differences after it.
FromCheckpoint(e, first, last) ==
    LET block == first \div BlockSize
        deltas == Slice(e.deltas, block * BlockSize + 1, last + 1) IN
    SubSeq(Sums(e.skipTable[block + 1], deltas), (first % BlockSize) + 1, Len(deltas) + 1)

SubIntDecodeAt(e, i) == IF i >= e.n THEN Nullopt ELSE Rows(FromCheckpoint(e, i, i))

SubIntDecodeRange(e, start, end) ==
    LET stop == Lesser(end, e.n) IN
    Rows(IF start >= stop THEN <<>> ELSE FromCheckpoint(e, start, stop - 1))

SubIntAnswer(e, c, n) ==
    LET InRange(s, t) == SubIntDecodeRange(e, s, t)
        Into(s, t, m) == DefaultRangeInto(InRange, s, t, m) IN
    Dispatch(SubIntDecodeAll(e), LAMBDA m : SizedInto(SubIntDecodeAll(e), m),
             LAMBDA i : SubIntDecodeAt(e, i), InRange, Into,
             LAMBDA rs, m : DefaultGather(Into, rs, m), c, n)
=============================================================================

------------------------------- MODULE Delta -------------------------------
(***************************************************************************)
(* DeltaEncoder (src/Source/encoders/DeltaEncoder.hpp): the first value,   *)
(* and the difference of each value to the one before it, both integers of *)
(* B bits that wrap around.  An empty column is a buffer too short to hold *)
(* a first value.                                                          *)
(***************************************************************************)
EXTENDS CodecContract

CONSTANT B      \* bits of a value

Wrapped(v) == v % PowerOfTwo[B]

Encode(d) ==
    IF d = <<>> THEN [empty |-> TRUE]
    ELSE [empty |-> FALSE, startValue |-> d[1],
          deltas |-> [i \in 1 .. Len(d) - 1 |-> Wrapped(d[i + 1] - d[i])]]

TotalElements(e) == Len(e.deltas) + 1

\* value plus the deltas first .. last, which count from 1.
Accumulated(e, value, first, last) ==
    Wrapped(value + Total(SubSeq(e.deltas, first, last)))

DecodeAll(e) ==
    IF e.empty THEN Rows(<<>>)
    ELSE Rows([k \in 1 .. TotalElements(e) |-> Accumulated(e, e.startValue, 1, k - 1)])

\* Mutant of DecodeAt: one delta too few.
OneShort(e, i) ==
    IF e.empty \/ i >= TotalElements(e) THEN Nullopt
    ELSE Rows(<<Accumulated(e, e.startValue, 1, i - 1)>>)

DecodeAt(e, i) ==
    IF e.empty \/ i >= TotalElements(e) THEN Nullopt
    ELSE Rows(<<Accumulated(e, e.startValue, 1, i)>>)

\* The value of row `start` is reached before the loop that builds the result,
\* and that loop adds the delta of its first row, too.
\* (Not called with end < start: the vector's reserve would wrap.)
DecodeRange(e, start, end) ==
    IF e.empty \/ start >= TotalElements(e) THEN Rows(<<>>)
    ELSE LET stop  == Lesser(end, TotalElements(e))
             value == Accumulated(e, e.startValue, 1, start)
             first == Greater(start, 1) IN
         Rows((IF start = 0 THEN <<e.startValue>> ELSE <<>>)
              \o [k \in 1 .. stop - first |-> Accumulated(e, value, first, first + k - 1)])

\* The other entry points are the defaults.
DecodeAllInto(e, n) == SizedInto(DecodeAll(e), n)
DecodeRangeInto(e, start, end, n) == SizedInto(DecodeRange(e, start, end), n)
DecodeGatherInto(e, ranges, n) ==
    DefaultGather(LAMBDA s, t, m : DecodeRangeInto(e, s, t, m), ranges, n)

Answer(e, c, n) ==
    Dispatch(DecodeAll(e), LAMBDA m : DecodeAllInto(e, m), LAMBDA i : DecodeAt(e, i),
             LAMBDA s, t : DecodeRange(e, s, t), LAMBDA s, t, m : DecodeRangeInto(e, s, t, m),
             LAMBDA rs, m : DecodeGatherInto(e, rs, m), c, n)
=============================================================================

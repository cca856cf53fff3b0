--------------------------- MODULE CodecContract ---------------------------
(***************************************************************************)
(* What every codec answers, by the contract and the default methods of    *)
(* src/Source/encodings/Encoder.hpp, for the codecs modelled as operators. *)
(*                                                                         *)
(* Data is a sequence of values; row i of the code is data[i + 1].  A call *)
(* is [op, start, end, ranges]; the calls that fill memory of the caller   *)
(* pass the n the contract asks for, the number of rows selected.          *)
(***************************************************************************)
EXTENDS Integers, SequencesExt, Arithmetic

Rows(s)  == [kind |-> "rows", rows |-> s]
Nullopt  == [kind |-> "nullopt", rows |-> <<>>]
Threw    == [kind |-> "threw", rows |-> <<>>]

\* The content of memory nothing was stored to.
Junk == -99

Lesser(a, b)  == IF a < b THEN a ELSE b
Greater(a, b) == IF a > b THEN a ELSE b

\* The numbers of S below n, in ascending order.
Ascending(S, n) ==
    LET up[k \in 0 .. n] ==
            IF k = 0 THEN <<>>
            ELSE IF k - 1 \in S THEN Append(up[k - 1], k - 1) ELSE up[k - 1]
    IN  up[n]

RangeSize(r) == Greater(r.end - r.begin, 0)
Slice(d, start, end) == SubSeq(d, start + 1, Lesser(end, Len(d)))

\* What memory of n rows holds after the writes <<row, value>>, in any order: a
\* row that is written twice, or never, holds nothing to rely on.
Stored(n, writes) ==
    [k \in 1 .. n |->
        LET at == {w \in writes : w[1] = k - 1} IN
        IF \E w \in at : at = {w} THEN (CHOOSE w \in at : TRUE)[2] ELSE Junk]

\* n rows of memory whose first ones were stored to.
Padded(rows, n) == rows \o [k \in 1 .. n - Len(rows) |-> Junk]

\* The n that comes with a call: the end of a range is clamped at the last
\* row, the ranges of a gather are not.
Asked(d, c) ==
    CASE c.op = "allInto"   -> Len(d)
      [] c.op = "rangeInto" -> Greater(Lesser(c.end, Len(d)) - c.start, 0)
      [] c.op = "gather"    -> Total([k \in DOMAIN c.ranges |-> RangeSize(c.ranges[k])])

\* The defaults: the result of the call that allocates, if its size is n.
SizedInto(answer, n) ==
    IF answer.kind = "rows" /\ Len(answer.rows) # n THEN Threw ELSE answer

\* Appends one range's answer to those before it; an exception ends the call.
Then(so_far, answer) ==
    CASE so_far.kind = "threw" -> Threw
      [] answer.kind = "threw" -> Threw
      [] OTHER -> Rows(so_far.rows \o answer.rows)

\* The answers to the ranges of a gather, one after the other.
GatherByRange(answers, n) ==
    IF \E k \in DOMAIN answers : answers[k].kind = "threw" THEN Threw
    ELSE SizedInto(Rows(FlattenSeq([k \in DOMAIN answers |-> answers[k].rows])), n)

\* decodeRangeInto's and decodeGatherInto's defaults for a codec that answers
\* decodeRange and decodeRangeInto: one decodeRangeInto per range that is not
\* empty, with the size of its range.
DefaultRangeInto(DecodeRange(_, _), start, end, n) == SizedInto(DecodeRange(start, end), n)

DefaultGather(DecodeRangeInto(_, _, _), ranges, n) ==
    GatherByRange([k \in DOMAIN ranges |->
        IF RangeSize(ranges[k]) = 0 THEN Rows(<<>>)
        ELSE DecodeRangeInto(ranges[k].begin, ranges[k].end, RangeSize(ranges[k]))], n)

\* Calls that are asked of rows start .. end - 1 of a column in blocks of
\* `size` rows: Part(b, from, to) is what block b delivers of its rows, and
\* delivering stops after `room` rows.
OverBlocks(size, total, start, end, room, Part(_, _, _)) ==
    LET first == start \div size
        last  == (end - 1) \div size
        From(b) == IF b = first THEN start - b * size ELSE 0
        To(b)   == IF b = last THEN end - b * size ELSE Lesser(size, total - b * size)
        Step(rows, b) ==
            IF Len(rows) >= room THEN rows
            ELSE rows \o Part(b, From(b), Lesser(To(b), From(b) + room - Len(rows)))
    IN  FoldLeft(Step, <<>>, [k \in 1 .. last - first + 1 |-> first + k - 1])

\* The rows of d in blocks of `size`.
Blocks(d, size) ==
    [b \in 1 .. (Len(d) + size - 1) \div size |-> Slice(d, (b - 1) * size, b * size)]

\* A call, by the method it is made of.
Dispatch(all, AllInto(_), At(_), InRange(_, _), RangeInto(_, _, _), Gather(_, _), c, n) ==
    CASE c.op = "all"       -> all
      [] c.op = "allInto"   -> AllInto(n)
      [] c.op = "at"        -> At(c.start)
      [] c.op = "range"     -> InRange(c.start, c.end)
      [] c.op = "rangeInto" -> RangeInto(c.start, c.end, n)
      [] c.op = "gather"    -> Gather(c.ranges, n)

\* What a call is to return.  A gather that runs past the last row cannot
\* deliver as many rows as it is asked for: it throws, or, of a codec whose
\* decodeRangeInto is silent, leaves the rows that are not there as they were.
Expected(d, c, silent) ==
    CASE c.op \in {"all", "allInto"} -> Rows(d)
      [] c.op = "at" -> IF c.start < Len(d) THEN Rows(<<d[c.start + 1]>>) ELSE Nullopt
      [] c.op \in {"range", "rangeInto"} -> Rows(Slice(d, c.start, c.end))
      [] c.op = "gather" ->
            IF ~silent /\ \E r \in ToSet(c.ranges) : RangeSize(r) > 0 /\ r.end > Len(d)
            THEN Threw
            ELSE Rows(FlattenSeq([k \in DOMAIN c.ranges |->
                    Padded(Slice(d, c.ranges[k].begin, c.ranges[k].end),
                           RangeSize(c.ranges[k]))]))
=============================================================================

--------------------------- MODULE MainlyConstant ---------------------------
(***************************************************************************)
(* MainlyConstantEncoder (src/Source/encoders/MainlyConstantEncoder.hpp):  *)
(* a most frequent value, a bitmap of the rows that have it, and the other *)
(* values in row order, raw or encoded by a chain of encoders of the same  *)
(* kind.  The place of a row's value among the others is its rank, a count *)
(* of zero bits over words of W bits (64 in the code).                     *)
(***************************************************************************)
EXTENDS CodecContract, FiniteSetsExt

CONSTANT W      \* bits of a bitmap word

\* Any of the values that occur most often: the order of a hash table decides.
MostFrequent(d) ==
    LET values == {d[i] : i \in DOMAIN d}
        Count(v) == Cardinality({i \in DOMAIN d : d[i] = v}) IN
    {v \in values : \A u \in values : Count(u) <= Count(v)}

NumWords(n) == (n + W - 1) \div W

\* Bit b of the bitmap: common, or past the last row.
Bitmap(d, v) == [b \in 0 .. NumWords(Len(d)) * W - 1 |-> b >= Len(d) \/ d[b + 1] = v]

\* The values that are not common, in row order.
Others(d, v) ==
    LET at == Ascending({i \in 0 .. Len(d) - 1 : d[i + 1] # v}, Len(d)) IN
    [k \in DOMAIN at |-> d[at[k] + 1]]

\* What one encoder of a chain stores of its column, but for the other values.
Level(d, v) == [n |-> Len(d), common |-> v, bits |-> Bitmap(d, v)]

Empty == [levels |-> <<>>, others |-> <<>>]

\* One encoder more, for the other values, if there are any.
Extended(e) ==
    IF e.others = <<>> THEN {e}
    ELSE {[levels |-> Append(e.levels, Level(e.others, v)), others |-> Others(e.others, v)] :
             v \in MostFrequent(e.others)}

\* Every encoding of d by a chain that is `depth` deep.  The other values of each
\* level are the column of the next, those of the last level are raw.
Encodings(d, depth) ==
    LET chains[k \in 0 .. depth + 1] ==
            IF k = 0 THEN {[Empty EXCEPT !.others = d]}
            ELSE UNION {Extended(e) : e \in chains[k - 1]}
    IN  chains[depth + 1]

Size(e) == IF e.levels = <<>> THEN 0 ELSE e.levels[1].n

-----------------------------------------------------------------------------
(* Counting the zero bits of one level *)

\* Those of word w from bit `from` on and before bit `to`.
Zeros(l, w, from, to) == Cardinality({b \in from .. to - 1 : ~l.bits[w * W + b]})

FullWords(l, lo, hi) == Total([k \in 1 .. hi - lo |-> Zeros(l, lo + k - 1, 0, W)])

PrefixNonCommonCount(l, limit) ==
    FullWords(l, 0, limit \div W)
        + (IF limit % W > 0 THEN Zeros(l, limit \div W, 0, limit % W) ELSE 0)

\* A remainder of 0 leaves the word unmasked.
UpTo(rem) == IF rem = 0 THEN W ELSE rem

\* Mutant of RangeNonCommonCount: the last word is not counted.
TailForgotten(l, a, b) ==
    IF a >= b THEN 0
    ELSE IF a \div W = b \div W THEN Zeros(l, a \div W, a % W, UpTo(b % W))
    ELSE Zeros(l, a \div W, a % W, W) + FullWords(l, a \div W + 1, b \div W)

RangeNonCommonCount(l, a, b) ==
    IF a >= b THEN 0
    ELSE IF a \div W = b \div W THEN Zeros(l, a \div W, a % W, UpTo(b % W))
    ELSE Zeros(l, a \div W, a % W, W)
            + FullWords(l, a \div W + 1, b \div W)
            + (IF b % W > 0 THEN Zeros(l, b \div W, 0, b % W) ELSE 0)

\* The rows of the zero bits of rows start .. end - 1: the words between, the first
\* masked below start and the last from end on.
Uncommon(l, start, end) ==
    LET first == start \div W
        last  == (end - 1) \div W
        InWord(w, b) == /\ w = first => b >= start % W
                        /\ w = last => b < UpTo(end % W) IN
    Ascending({i \in first * W .. (last + 1) * W - 1 : InWord(i \div W, i % W) /\ ~l.bits[i]},
              (last + 1) * W)

-----------------------------------------------------------------------------
(* The entry points; n bytes of a nested encoding carry no other metadata *)

\* Row i of the column of level k.
DecodeAt(e, i) ==
    LET at[k \in 1 .. Len(e.levels) + 1] ==
            [j \in Nat |->
                IF k > Len(e.levels) THEN Rows(<<e.others[j + 1]>>)
                ELSE LET l == e.levels[k] IN
                     IF j >= l.n THEN Nullopt
                     ELSE IF l.bits[j] THEN Rows(<<l.common>>)
                     ELSE at[k + 1][PrefixNonCommonCount(l, j)]]
    IN  IF e.levels = <<>> THEN Nullopt ELSE at[1][i]

\* Rows start .. end - 1 of level l, all common but for those that `slice`
\* has the values of.
Scatter(l, start, end, slice) ==
    LET at == Uncommon(l, start, end) IN
    [k \in 1 .. end - start |->
        IF \E j \in DOMAIN at : at[j] = start + k - 1
        THEN LET j == CHOOSE j \in DOMAIN at : at[j] = start + k - 1 IN
             IF j \in DOMAIN slice THEN slice[j] ELSE Junk
        ELSE l.common]

\* The other values among rows start .. end - 1 of level k.
Needed(e, k, start, end) ==
    IF k = Len(e.levels) THEN Len(Uncommon(e.levels[k], start, end))
    ELSE RangeNonCommonCount(e.levels[k], start, end)

\* Rows start .. end - 1 of e; `rank` is the rank of start.  What a level needs of
\* the other values is one range of the next.
Scattered(e, start, end, rank) ==
    LET rows[k \in 1 .. Len(e.levels)] ==
            [p \in Nat \X Nat \X Nat |->
                LET r == p[3]
                    needed == Needed(e, k, p[1], p[2]) IN
                Scatter(e.levels[k], p[1], p[2],
                        IF k = Len(e.levels) THEN SubSeq(e.others, r + 1, r + needed)
                        ELSE IF needed = 0 THEN <<>>
                        ELSE rows[k + 1][<<r, r + needed, PrefixNonCommonCount(e.levels[k + 1], r)>>])]
    IN  rows[1][<<start, end, rank>>]

RowsOf(e, start, end) == Scattered(e, start, end, PrefixNonCommonCount(e.levels[1], start))

DecodeAll(e) == IF Size(e) = 0 THEN Rows(<<>>) ELSE Rows(RowsOf(e, 0, Size(e)))

\* Returns without a word when n is not the number of rows.
DecodeAllInto(e, n) ==
    IF Size(e) = 0 \/ Size(e) # n THEN Rows([k \in 1 .. n |-> Junk]) ELSE DecodeAll(e)

DecodeRange(e, start, end) ==
    IF start >= end \/ start >= Size(e) THEN Rows(<<>>)
    ELSE Rows(RowsOf(e, start, Lesser(end, Size(e))))

DecodeRangeInto(e, start, end, n) ==
    LET stop == Lesser(end, Size(e)) IN
    IF start >= end \/ start >= Size(e) \/ stop - start # n
    THEN Rows([k \in 1 .. n |-> Junk])
    ELSE Rows(RowsOf(e, start, stop))

\* One range of a gather.  The rank of each but the first is the last one's plus
\* the zero bits of the gap.
ScatterRange(e, acc, begin, end) ==
    LET rank == IF acc.have THEN acc.rank + RangeNonCommonCount(e.levels[1], acc.end, begin)
                ELSE PrefixNonCommonCount(e.levels[1], begin) IN
    [rows |-> acc.rows \o Scattered(e, begin, end, rank),
     rank |-> rank + Needed(e, 1, begin, end), end |-> end, have |-> TRUE]

\* The size is checked first.
DecodeGatherInto(e, ranges, n) ==
    LET stop(r) == Lesser(r.end, Size(e))
        after[k \in 0 .. Len(ranges)] ==
            IF k = 0 THEN [rows |-> <<>>, rank |-> 0, end |-> 0, have |-> FALSE]
            ELSE IF ranges[k].begin >= stop(ranges[k]) THEN after[k - 1]
            ELSE ScatterRange(e, after[k - 1], ranges[k].begin, stop(ranges[k])) IN
    IF Total([k \in DOMAIN ranges |-> Greater(0, stop(ranges[k]) - ranges[k].begin)]) # n THEN Threw
    ELSE Rows(after[Len(ranges)].rows)

Answer(e, c, n) ==
    Dispatch(DecodeAll(e), LAMBDA m : DecodeAllInto(e, m), LAMBDA i : DecodeAt(e, i),
             LAMBDA s, t : DecodeRange(e, s, t), LAMBDA s, t, m : DecodeRangeInto(e, s, t, m),
             LAMBDA rs, m : DecodeGatherInto(e, rs, m), c, n)
=============================================================================

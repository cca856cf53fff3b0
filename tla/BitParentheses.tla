--------------------------- MODULE BitParentheses ---------------------------
(***************************************************************************)
(* BitParenthesesEncoder (src/Source/encoders/BitParenthesesEncoder.hpp):  *)
(* each count as so many ones and a zero, the bits kept as runs, and the   *)
(* bit after each element.                                                 *)
(***************************************************************************)
EXTENDS CodecContract

NoRows == [n |-> 0, runs |-> <<>>, boundaries |-> <<>>]

\* The runs with `length` more bits, which the last run takes if they are alike.
Extended(runs, one, length) ==
    IF length = 0 THEN runs
    ELSE IF runs # <<>> /\ Last(runs).one = one
    THEN [runs EXCEPT ![Len(runs)].length = @ + length]
    ELSE Append(runs, [one |-> one, length |-> length])

Appended(e, count) ==
    [n |-> e.n + 1,
     runs |-> Extended(Extended(e.runs, TRUE, count), FALSE, 1),
     boundaries |-> Append(e.boundaries,
                           (IF e.n = 0 THEN 0 ELSE Last(e.boundaries)) + count + 1)]

Encode(d) == FoldLeft(Appended, NoRows, d)

-----------------------------------------------------------------------------
(* Counting ones: a cursor is the number of runs consumed, which stand     *)
(* before the bit the code carries as currentRunPos.                       *)

Position(e, cursor) ==
    FoldLeft(LAMBDA bits, run : bits + run.length, 0, SubSeq(e.runs, 1, cursor))

\* The first bit of element i, and its separator.
From(e, i)      == IF i = 0 THEN 0 ELSE e.boundaries[i]
Separator(e, i) == e.boundaries[i + 1] - 1

\* One run at least is consumed, if there is one, and then every run that begins
\* no later than the separator: a run of several zeros goes with the first.
Consumed(e, i, cursor) ==
    CHOOSE next \in cursor .. Len(e.runs) :
        /\ next = cursor => cursor = Len(e.runs)
        /\ next < Len(e.runs) => Position(e, next) > Separator(e, i)
        /\ \A k \in cursor + 1 .. next - 1 : Position(e, k) <= Separator(e, i)

OnesOf(e, k, i) ==
    IF ~e.runs[k].one THEN 0
    ELSE Greater(Lesser(Position(e, k) - 1, Separator(e, i))
                     - Greater(Position(e, k - 1), From(e, i)) + 1, 0)

\* countOnesInRLERangeStateful for element i.
Count(e, i, cursor, next) ==
    FoldLeft(LAMBDA ones, k : ones + OnesOf(e, k, i), 0,
             [k \in 1 .. next - cursor |-> cursor + k])

Counted(e, state, i) ==
    LET next == Consumed(e, i, state.cursor) IN
    [cursor |-> next, rows |-> Append(state.rows, Count(e, i, state.cursor, next))]

\* Rows start .. end - 1, counting from the run after `cursor` on.
CountedFrom(e, start, end, cursor) ==
    FoldLeft(LAMBDA state, i : Counted(e, state, i), [cursor |-> cursor, rows |-> <<>>],
             [k \in 1 .. end - start |-> start + k - 1]).rows

\* The run that ends at or after the first bit of row `start`, by skipping whole
\* runs up to that bit and stepping back over the last.
Before(e, start) ==
    IF start = 0 THEN 0
    ELSE (CHOOSE k \in 1 .. Len(e.runs) :
            /\ Position(e, k) >= From(e, start)
            /\ Position(e, k - 1) < From(e, start)) - 1

-----------------------------------------------------------------------------
DecodeAll(e) == Rows(CountedFrom(e, 0, e.n, 0))

DecodeAt(e, i) == IF i >= e.n THEN Nullopt ELSE Rows(CountedFrom(e, i, i + 1, 0))

DecodeRange(e, start, end) ==
    IF start >= end \/ start >= e.n THEN Rows(<<>>)
    ELSE Rows(CountedFrom(e, start, Lesser(end, e.n), Before(e, start)))

Answer(e, c, n) ==
    LET InRange(s, t) == DecodeRange(e, s, t)
        Into(s, t, m) == DefaultRangeInto(InRange, s, t, m)
    IN  Dispatch(DecodeAll(e), LAMBDA m : SizedInto(DecodeAll(e), m), LAMBDA i : DecodeAt(e, i),
                 InRange, Into, LAMBDA rs, m : DefaultGather(Into, rs, m), c, n)

\* A separator joined the one before it: one run holds the zeros of two elements.
JoinedSeparators(e) == \E k \in DOMAIN e.runs : ~e.runs[k].one /\ e.runs[k].length > 1
=============================================================================

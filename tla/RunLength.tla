----------------------------- MODULE RunLength -----------------------------
(***************************************************************************)
(* RunLengthEncoder (src/Source/encoders/RunLengthEncoder.hpp): the starts *)
(* and values of the runs, raw in the buffer or (composed) behind codecs   *)
(* of their own, which are asked for single entries.  Rows and runs count  *)
(* from 0.                                                                 *)
(***************************************************************************)
EXTENDS CodecContract, FiniteSetsExt

Encode(d, composed) ==
    LET starts == Ascending({i \in 0 .. Len(d) - 1 : i = 0 \/ d[i + 1] # d[i]}, Len(d)) IN
    [n |-> Len(d), starts |-> starts, composed |-> composed,
     values |-> [k \in DOMAIN starts |-> d[starts[k] + 1]]]

NumRuns(e)     == Len(e.starts)
RunStart(e, r) == e.starts[r + 1]
RunValue(e, r) == e.values[r + 1]
RunEnd(e, r)   == IF r + 1 < NumRuns(e) THEN RunStart(e, r + 1) ELSE e.n

-----------------------------------------------------------------------------
(* The run of a row *)

\* The first of the runs lo .. hi - 1 that starts after row i, or hi.
UpperBound(e, lo, hi, i) == Min({r \in lo .. hi - 1 : RunStart(e, r) > i} \cup {hi})

Guess(e, i) == (i * (NumRuns(e) - 1)) \div (e.n - 1)

\* Interpolation, and a search of one side where it misses.
FindRunRaw(e, i) ==
    IF NumRuns(e) = 1 THEN 0
    ELSE LET guess == Guess(e, i) IN
         IF RunStart(e, guess) > i THEN UpperBound(e, 0, guess, i) - 1
         ELSE IF guess + 1 = NumRuns(e) \/ RunStart(e, guess + 1) > i THEN guess
         ELSE UpperBound(e, guess + 1, NumRuns(e), i) - 1

\* Bisection; the answer is in lo .. hi - 1.
FindRunComposed(e, i) ==
    LET runs == 0 .. NumRuns(e)
        bisect[p \in runs \X runs] ==
            LET lo == p[1]
                hi == p[2]
                mid == lo + (hi - lo) \div 2 IN
            IF lo + 1 >= hi THEN lo
            ELSE IF RunStart(e, mid) <= i THEN bisect[<<mid, hi>>] ELSE bisect[<<lo, mid>>]
    IN bisect[<<0, NumRuns(e)>>]

FindRun(e, i) == IF e.composed THEN FindRunComposed(e, i) ELSE FindRunRaw(e, i)

-----------------------------------------------------------------------------
(* Filling rows start .. end - 1, from a run that starts at or before them *)

\* Mutant of Skipped: on to the first run that starts after start.
SkippedPast(e, run, start) ==
    UpperBound(e, run + 1, NumRuns(e), start)

\* The last run from `run` on that starts no later than start.
Skipped(e, run, start) == UpperBound(e, run + 1, NumRuns(e), start) - 1

\* The rows, and the run the next range's search resumes from.
Filled(e, start, end, seed) ==
    LET from == Skipped(e, seed, start)
        used == {r \in from .. NumRuns(e) - 1 : RunStart(e, r) < end}
        Covers(r, row) == RunStart(e, r) <= row /\ row < RunEnd(e, r) IN
    [rows |-> [k \in 1 .. end - start |->
                 IF \E r \in used : Covers(r, start + k - 1)
                 THEN RunValue(e, CHOOSE r \in used : Covers(r, start + k - 1))
                 ELSE Junk],
     run |-> Max(used \cup {from})]

-----------------------------------------------------------------------------
(* The entry points *)

DecodeAll(e) ==
    Rows(FlattenSeq([k \in 1 .. NumRuns(e) |->
            [i \in 1 .. RunEnd(e, k - 1) - RunStart(e, k - 1) |-> RunValue(e, k - 1)]]))

\* The last run ends at n, whatever the number of rows.
DecodeAllInto(e, n) ==
    IF NumRuns(e) = 0 THEN IF n # 0 THEN Threw ELSE Rows(<<>>)
    ELSE DecodeAll([e EXCEPT !.n = n])

DecodeAt(e, i) ==
    IF NumRuns(e) = 0 \/ i >= e.n THEN Nullopt ELSE Rows(<<RunValue(e, FindRun(e, i))>>)

\* (Not called with end < start: the vector's reserve would wrap.)
DecodeRange(e, start, end) ==
    IF start >= e.n THEN Rows(<<>>)
    ELSE LET stop == Lesser(end, e.n)
             Part(r) == [i \in 1 .. Greater(0, Lesser(RunEnd(e, r), stop)
                                                 - Greater(RunStart(e, r), start))
                            |-> RunValue(e, r)]
             first == FindRun(e, start) IN
         Rows(FlattenSeq([k \in 1 .. NumRuns(e) - first |-> Part(first + k - 1)]))

DecodeRangeInto(e, start, end, n) ==
    LET stop == Lesser(end, e.n) IN
    IF start >= stop THEN IF n # 0 THEN Threw ELSE Rows(<<>>)
    ELSE IF stop - start # n THEN Threw
    ELSE Rows(Filled(e, start, stop, FindRun(e, start)).rows)

\* One search for the first range; each later one resumes where the last ended.
DecodeGatherInto(e, ranges, n) ==
    IF ranges = <<>> THEN IF n # 0 THEN Threw ELSE Rows(<<>>)
    ELSE LET seed == IF NumRuns(e) = 0 THEN 0
                     ELSE FindRun(e, Lesser(ranges[1].begin, Greater(e.n - 1, 0)))
             Step(acc, r) ==
                LET stop == Lesser(r.end, e.n) IN
                IF RangeSize(r) = 0 \/ r.begin >= stop THEN acc
                ELSE LET f == Filled(e, r.begin, stop, acc.run) IN
                     [rows |-> acc.rows \o f.rows, run |-> f.run]
             after[k \in 0 .. Len(ranges)] ==
                IF k = 0 THEN [rows |-> <<>>, run |-> seed] ELSE Step(after[k - 1], ranges[k])
         IN SizedInto(Rows(after[Len(ranges)].rows), n)

Answer(e, c, n) ==
    Dispatch(DecodeAll(e), LAMBDA m : DecodeAllInto(e, m), LAMBDA i : DecodeAt(e, i),
             LAMBDA s, t : DecodeRange(e, s, t), LAMBDA s, t, m : DecodeRangeInto(e, s, t, m),
             LAMBDA rs, m : DecodeGatherInto(e, rs, m), c, n)
=============================================================================

------------------------------- MODULE Frames -------------------------------
(***************************************************************************)
(* Frames of reference: FOREncoder, CascadingFOREncoder and RangePack's    *)
(* section codec (src/Source/encoders/).  A column is cut into frames, of  *)
(* each a reference is kept, and of each value what it differs by, from    *)
(* the reference or, by policy PREV, from the value before it in its       *)
(* frame.  Sums do not overflow here; AdaptiveFOR models those that do.    *)
(* The inner codecs return what they were given.                           *)
(***************************************************************************)
EXTENDS CodecContract, FiniteSetsExt

CONSTANTS
    FrameSize,  \* rows of a frame of FOREncoder
    OutBits,    \* bits of TOut, signed
    B           \* bits of an unsigned value (RangePack)

Policies == {"MIN", "FIRST", "MID", "PREV"}

FrameStart(i, size) == (i \div size) * size

\* Mutant of Leading: the difference of row i is not among them.
LeadingBefore(i, size) == FrameStart(i, size) + 1 .. i - 1

\* The rows whose differences lead from the reference to row i.
Leading(i, size) == FrameStart(i, size) + 1 .. i

\* computeFrameReferenceAndResiduals, for all frames of a column.
Reference(frame, policy) ==
    LET least == Min(ToSet(frame)) IN
    CASE policy = "MIN" -> least
      [] policy = "MID" -> least + ((Max(ToSet(frame)) - least) \div 2)
      [] OTHER          -> frame[1]

References(d, size, policy) ==
    [f \in DOMAIN Blocks(d, size) |-> Reference(Blocks(d, size)[f], policy)]

Residuals(d, size, policy) ==
    [k \in DOMAIN d |->
        IF policy # "PREV" THEN d[k] - References(d, size, policy)[((k - 1) \div size) + 1]
        ELSE IF (k - 1) % size = 0 THEN 0 ELSE d[k] - d[k - 1]]

-----------------------------------------------------------------------------
(* Back to values *)

RefOf(refs, size, i) == refs[(i \div size) + 1]

\* Rows start .. end - 1, each from the one before or, at the start of a frame,
\* from the reference alone; `start` starts a frame.
Chained(refs, residuals, size, start, end) ==
    FoldLeft(LAMBDA values, i : Append(values, IF i % size = 0 THEN RefOf(refs, size, i)
                                               ELSE Last(values) + residuals[i + 1]),
             <<>>, [k \in 1 .. end - start |-> start + k - 1])

Rebuilt(refs, residuals, size, policy) ==
    IF policy = "PREV" THEN Chained(refs, residuals, size, 0, Len(residuals))
    ELSE [k \in DOMAIN residuals |-> RefOf(refs, size, k - 1) + residuals[k]]

\* One row.
ValueAt(refs, residuals, size, policy, i) ==
    IF policy = "PREV"
    THEN RefOf(refs, size, i) + MapThenSumSet(LAMBDA k : residuals[k + 1], Leading(i, size))
    ELSE RefOf(refs, size, i) + residuals[i + 1]

\* Rows start .. end - 1 frame by frame: the first of a frame on its own, then
\* one difference after the other.
Segments(refs, residuals, size, start, end) ==
    LET Segment(values, f) ==
            LET i == Greater(start, f * size)
                stop == Lesser(end, (f + 1) * size) IN
            values \o FoldLeft(LAMBDA vs, k : Append(vs, Last(vs) + residuals[k + 1]),
                               <<ValueAt(refs, residuals, size, "PREV", i)>>,
                               [k \in 1 .. stop - i - 1 |-> i + k])
    IN FoldLeft(Segment, <<>>, [k \in 1 .. ((end - 1) \div size) - (start \div size) + 1 |->
                                   (start \div size) + k - 1])

-----------------------------------------------------------------------------
(* FOREncoder; `random` tells whether the inner codec has random access.   *)

\* A residual that does not fit into TOut ends the encode with overflow_error.
Encodings(d, policy, random) ==
    LET residuals == Residuals(d, FrameSize, policy) IN
    IF \E r \in ToSet(residuals) : r \notin -(2^(OutBits - 1)) .. 2^(OutBits - 1) - 1 THEN {}
    ELSE {[n |-> Len(d), policy |-> policy, random |-> random,
           refs |-> References(d, FrameSize, policy), residuals |-> residuals]}

DecodeAll(e) == Rows(Rebuilt(e.refs, e.residuals, FrameSize, e.policy))

DecodeAt(e, i) ==
    IF i >= e.n THEN Nullopt
    ELSE Rows(<<ValueAt(e.refs, e.residuals, FrameSize, e.policy, i)>>)

DecodeRange(e, start, end) ==
    LET stop == Lesser(end, e.n)
        from == FrameStart(start, FrameSize) IN
    Rows(IF start >= stop THEN <<>>
         ELSE IF e.policy # "PREV"
         THEN [k \in 1 .. stop - start |->
                  ValueAt(e.refs, e.residuals, FrameSize, e.policy, start + k - 1)]
         ELSE IF e.random THEN Segments(e.refs, e.residuals, FrameSize, start, stop)
         ELSE Slice(Chained(e.refs, e.residuals, FrameSize, from, stop), start - from, stop - from))

Answer(e, c, n) ==
    LET InRange(s, t) == DecodeRange(e, s, t)
        Into(s, t, m) == DefaultRangeInto(InRange, s, t, m) IN
    Dispatch(DecodeAll(e), LAMBDA m : SizedInto(DecodeAll(e), m), LAMBDA i : DecodeAt(e, i),
             InRange, Into, LAMBDA rs, m : DefaultGather(Into, rs, m), c, n)

-----------------------------------------------------------------------------
(* RangePackSectionCodec: values are unsigned, and the inner codec is made *)
(* for as many bits as the greatest difference needs.                      *)

RangeEncode(d) ==
    IF d = <<>> THEN [n |-> 0, min |-> 0, inner |-> <<>>]
    ELSE LET least == Min(ToSet(d))
             range == Max(ToSet(d)) - least
             narrowedBits == IF range = 0 THEN 1 ELSE Min({b \in 1 .. B : range < 2^b}) IN
         [n |-> Len(d), min |-> least,
          inner |-> [k \in DOMAIN d |-> (d[k] - least) % 2^narrowedBits]]

Widened(e, start, end) == [k \in 1 .. end - start |-> (e.inner[start + k] + e.min) % 2^B]

RangeDecodeRange(e, start, end) ==
    LET stop == Lesser(end, e.n) IN Rows(IF start >= stop THEN <<>> ELSE Widened(e, start, stop))

RangeAnswer(e, c, n) ==
    LET all == Rows(Widened(e, 0, e.n))
        InRange(s, t) == RangeDecodeRange(e, s, t)
        Into(s, t, m) == SizedInto(InRange(s, t), m) IN
    Dispatch(all, LAMBDA m : SizedInto(all, m),
             LAMBDA i : IF i >= e.n THEN Nullopt ELSE Rows(Widened(e, i, i + 1)),
             InRange, Into, LAMBDA rs, m : DefaultGather(Into, rs, m), c, n)

-----------------------------------------------------------------------------
(* CascadingFOREncoder.  A schedule is a sequence of levels [size, policy]: *)
(* each takes its frames off what the one before left over, and the last   *)
(* leaves what the leaf codec gets.                                        *)

Level(level, refs) == [size |-> level.size, policy |-> level.policy, refs |-> refs]

\* The references of a level of references are kept as they are.
EncodeReferenceLevel(d, schedule) ==
    FoldLeft(LAMBDA s, level :
                [levels |-> Append(s.levels, Level(level, References(s.leaf, level.size, level.policy))),
                 leaf |-> Residuals(s.leaf, level.size, level.policy)],
             [levels |-> <<>>, leaf |-> d], schedule)

\* The references of a level of residuals are a cascade of their own.
EncodeResidualLevel(d, schedule, referenceSchedule) ==
    LET plain == EncodeReferenceLevel(d, schedule) IN
    [plain EXCEPT !.levels = [k \in DOMAIN @ |->
        Level(@[k], EncodeReferenceLevel(@[k].refs, referenceSchedule))]]

CascadeEncode(d, residualSchedule, referenceSchedule) ==
    [n |-> Len(d), body |-> EncodeResidualLevel(d, residualSchedule, referenceSchedule)]

DecodeReferenceLevel(body) ==
    FoldRight(LAMBDA level, values : Rebuilt(level.refs, values, level.size, level.policy),
              body.levels, body.leaf)

DecodeResidualLevel(body) ==
    FoldRight(LAMBDA level, values :
                  Rebuilt(DecodeReferenceLevel(level.refs), values, level.size, level.policy),
              body.levels, body.leaf)

CascadeAll(e) == Rows(DecodeResidualLevel(e.body))

\* Row i of what a level and those below it give; by PREV, one row below for
\* every row of the frame so far.
DecodeReferenceLevelAt(body, i) ==
    LET at[k \in 1 .. Len(body.levels) + 1, j \in 0 .. Len(body.leaf) - 1] ==
            IF k > Len(body.levels) THEN body.leaf[j + 1]
            ELSE LET level == body.levels[k] IN
                 RefOf(level.refs, level.size, j)
                     + (IF level.policy # "PREV" THEN at[k + 1, j]
                        ELSE MapThenSumSet(LAMBDA m : at[k + 1, m], Leading(j, level.size)))
    IN  at[1, i]

DecodeResidualLevelAt(body, l, i) ==
    LET at[k \in 1 .. Len(body.levels) + 1, j \in 0 .. Len(body.leaf) - 1] ==
            IF k > Len(body.levels) THEN body.leaf[j + 1]
            ELSE LET level == body.levels[k] IN
                 DecodeReferenceLevelAt(level.refs, j \div level.size)
                     + (IF level.policy # "PREV" THEN at[k + 1, j]
                        ELSE MapThenSumSet(LAMBDA m : at[k + 1, m], Leading(j, level.size)))
    IN  at[l, i]

CascadeAt(e, i) ==
    IF i >= e.n THEN Nullopt ELSE Rows(<<DecodeResidualLevelAt(e.body, 1, i)>>)

\* The frames of the first level, each with its reference decoded once.
CascadeRange(e, start, end) ==
    LET stop == Lesser(end, e.n)
        top == e.body.levels[1]
        refs == [f \in 1 .. (e.n + top.size - 1) \div top.size |-> DecodeReferenceLevelAt(top.refs, f - 1)]
        residuals == [k \in 1 .. e.n |-> DecodeResidualLevelAt(e.body, 2, k - 1)] IN
    Rows(IF start >= stop THEN <<>>
         ELSE IF e.body.levels = <<>>
         THEN [k \in 1 .. stop - start |-> DecodeResidualLevelAt(e.body, 1, start + k - 1)]
         ELSE IF top.policy = "PREV" THEN Segments(refs, residuals, top.size, start, stop)
         ELSE [k \in 1 .. stop - start |->
                  ValueAt(refs, residuals, top.size, top.policy, start + k - 1)])

CascadeAnswer(e, c, n) ==
    LET InRange(s, t) == CascadeRange(e, s, t)
        Into(s, t, m) == DefaultRangeInto(InRange, s, t, m) IN
    Dispatch(CascadeAll(e), LAMBDA m : SizedInto(CascadeAll(e), m), LAMBDA i : CascadeAt(e, i),
             InRange, Into, LAMBDA rs, m : DefaultGather(Into, rs, m), c, n)
=============================================================================

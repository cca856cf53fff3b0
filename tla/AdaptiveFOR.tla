---------------------------- MODULE AdaptiveFOR ----------------------------
(***************************************************************************)
(* AdaptiveFOREncoder (src/Source/encoders/AdaptiveFOREncoder.hpp): frames *)
(* of reference of a size and a policy of its own choice, over signed      *)
(* values of B bits whose differences may overflow; residuals are a flat   *)
(* array of the narrowest type that holds them, or packed bits.            *)
(***************************************************************************)
EXTENDS CodecContract, FiniteSetsExt

CONSTANTS
    B,           \* bits of TIn
    C,           \* bits of a byte
    Widths,      \* bits of the residual types (8, 16, 32, 64)
    FrameSizes   \* kCandidates

P == INSTANCE Packing WITH W <- B, Accumulator <- B + 1 + C, BatchWidths <- {}

Signed(v, bits) == ((v + 2^(bits - 1)) % 2^bits) - 2^(bits - 1)
Fits(v, bits)   == v \in -(2^(bits - 1)) .. 2^(bits - 1) - 1

ZigzagEncode(v) == IF v >= 0 THEN 2 * v ELSE (-2 * v) - 1
ZigzagDecode(u) == IF u % 2 = 0 THEN u \div 2 ELSE -(u \div 2) - 1

\* Row i's reference, and its residual before it is made to fit anything.
Refs(d, size, policy) ==
    [f \in DOMAIN Blocks(d, size) |->
        IF policy = "PREV" THEN Blocks(d, size)[f][1] ELSE Min(ToSet(Blocks(d, size)[f]))]

Residual(d, size, policy, k) ==
    IF policy = "MIN" THEN d[k] - Refs(d, size, policy)[((k - 1) \div size) + 1]
    ELSE IF (k - 1) % size = 0 THEN 0 ELSE d[k] - d[k - 1]

\* estimateResidualWidth: bits to pack the residuals with, and the narrowest
\* type.  By MIN both come from the residuals as TIn holds them; by PREV the
\* bits come from the differences themselves.
BitsFor(v) == IF v = 0 THEN 1 ELSE P!BitWidth(v)

PackedBits(d, size, policy) ==
    BitsFor(Max({IF policy = "MIN" THEN Signed(Residual(d, size, policy, k), B)
                 ELSE ZigzagEncode(Residual(d, size, policy, k)) : k \in DOMAIN d}))

TypedBits(d, size, policy) ==
    Min({w \in Widths :
            w = Max(Widths)
            \/ IF policy = "MIN" THEN PackedBits(d, size, policy) <= w - 1
               ELSE \A k \in DOMAIN d : Fits(Signed(Residual(d, size, policy, k), B), w)})

\* choosePlan takes the smallest encoding; any frame size, policy and form may
\* be it.  A typed residual that does not fit ends the encode.
Encodings(d) ==
    IF d = <<>> THEN {[n |-> 0]}
    ELSE UNION {
        LET bits == PackedBits(d, size, policy)
            plan == [n |-> Len(d), size |-> size, policy |-> policy,
                     refs |-> Refs(d, size, policy)]
            Packed(k) == LET r == Residual(d, size, policy, k) IN
                         IF policy = "MIN" THEN r ELSE ZigzagEncode(r)
            typed == [k \in DOMAIN d |-> Signed(Residual(d, size, policy, k), B)] IN
        {plan @@ [bits |-> bits, stream |-> P!Written([k \in DOMAIN d |-> Packed(k)], bits)]}
            \cup {plan @@ [bits |-> 0, stream |-> typed] :
                     w \in {w \in {TypedBits(d, size, policy)} :
                               \A k \in DOMAIN d : Fits(typed[k], w)}} :
        size \in FrameSizes, policy \in {"MIN", "PREV"}}

-----------------------------------------------------------------------------
Unzigzagged(e, raw) == IF e.policy = "PREV" THEN ZigzagDecode(raw) ELSE raw

\* readOneResidual, and as many as are left from row `start` on.
ReadOne(e, i) == IF e.bits = 0 THEN e.stream[i + 1]
                 ELSE Unzigzagged(e, P!Read(e.stream, i * e.bits, e.bits))

ReadOn(e, start, count) ==
    IF e.bits = 0 THEN Rows(SubSeq(e.stream, start + 1, start + count))
    ELSE LET r == P!ReadFast(e.stream, count, e.bits, start * e.bits) IN
         IF r.threw THEN Threw ELSE Rows([k \in 1 .. count |-> Unzigzagged(e, r.values[k])])

RefOf(e, i) == e.refs[(i \div e.size) + 1]

\* Rows start .. start + Len(residuals) - 1, the one before them being `before`.
Summed(e, before, start, residuals) ==
    FoldLeft(LAMBDA values, k :
                LET i == start + k - 1 IN
                Append(values,
                    IF e.policy = "MIN" THEN Signed(RefOf(e, i) + residuals[k], B)
                    ELSE IF i % e.size = 0 THEN RefOf(e, i)
                    ELSE Signed((IF k = 1 THEN before ELSE values[k - 1]) + residuals[k], B)),
             <<>>, [k \in DOMAIN residuals |-> k])

DecodeAll(e) ==
    IF e.n = 0 THEN Rows(<<>>)
    ELSE LET r == ReadOn(e, 0, e.n) IN
         IF r.kind = "threw" THEN Threw ELSE Rows(Summed(e, 0, 0, r.rows))

\* By PREV, from the start of the frame, one residual at a time.
RowAt(e, i) ==
    LET start == (i \div e.size) * e.size IN
    IF e.policy = "MIN" THEN Signed(RefOf(e, i) + ReadOne(e, i), B)
    ELSE FoldLeft(LAMBDA v, k : Signed(v + ReadOne(e, start + k), B), RefOf(e, i),
                  [k \in 1 .. i - start |-> k])

DecodeAt(e, i) == IF i >= e.n THEN Nullopt ELSE Rows(<<RowAt(e, i)>>)

DecodeRange(e, start, end) ==
    LET count == Lesser(end, e.n) - start IN
    IF count <= 0 THEN Rows(<<>>)
    ELSE IF e.policy = "PREV"
    THEN LET first == RowAt(e, start) IN
         Rows(<<first>> \o Summed(e, first, start + 1,
                                  [k \in 1 .. count - 1 |-> ReadOne(e, start + k)]))
    ELSE LET r == ReadOn(e, start, count) IN
         IF r.kind = "threw" THEN Threw ELSE Rows(Summed(e, 0, start, r.rows))

Answer(e, c, n) ==
    LET InRange(s, t) == DecodeRange(e, s, t)
        Into(s, t, m) == DefaultRangeInto(InRange, s, t, m) IN
    Dispatch(DecodeAll(e), LAMBDA m : SizedInto(DecodeAll(e), m), LAMBDA i : DecodeAt(e, i),
             InRange, Into, LAMBDA rs, m : DefaultGather(Into, rs, m), c, n)
=============================================================================

---------------------------- MODULE RawBitPacked ----------------------------
(***************************************************************************)
(* RawBitPackedEncoder (src/Source/encoders/RawBitPackedEncoder.hpp):      *)
(* differences from the smallest value, of as many bits as the greatest    *)
(* needs, in words.                                                        *)
(***************************************************************************)
EXTENDS CodecContract, FiniteSetsExt

CONSTANTS
    W,  \* bits of a word
    B   \* bits of a value

P == INSTANCE Packing WITH C <- W, Accumulator <- W, BatchWidths <- {}

DeltaFromBase(v, base) == (v - base) % 2^B
AddBase(delta, base)   == (base + delta) % 2^B

Encode(d) ==
    IF d = <<>> THEN [n |-> 0, width |-> 0, base |-> 0, words |-> <<>>]
    ELSE LET base == Min(ToSet(d))
             width == P!BitWidth(DeltaFromBase(Max(ToSet(d)), base)) IN
         [n |-> Len(d), width |-> width, base |-> base,
          words |-> IF width = 0 THEN <<>>
                    ELSE P!PackValues([k \in DOMAIN d |-> DeltaFromBase(d[k], base)], width)]

\* extractValue, without the words if the values are all alike.
Value(e, i) ==
    IF e.width = 0 THEN e.base ELSE AddBase(P!ExtractAt(e.words, e.width * i, e.width), e.base)

Unpacked(e, start, count) == [k \in 1 .. count |-> Value(e, start + k - 1)]

DecodeAll(e) == Rows(Unpacked(e, 0, e.n))

DecodeAllInto(e, n) == IF e.n # n THEN Threw ELSE Rows(Unpacked(e, 0, n))

DecodeAt(e, i) == IF i >= e.n THEN Nullopt ELSE Rows(<<Value(e, i)>>)

DecodeRange(e, start, end) ==
    IF start >= e.n THEN Rows(<<>>) ELSE Rows(Unpacked(e, start, Lesser(end, e.n) - start))

DecodeRangeInto(e, start, end, n) ==
    LET stop == Lesser(end, e.n) IN
    IF start >= stop THEN IF n # 0 THEN Threw ELSE Rows(<<>>)
    ELSE IF stop - start # n THEN Threw
    ELSE Rows(Unpacked(e, start, n))

Answer(e, c, n) ==
    LET Into(s, t, m) == DecodeRangeInto(e, s, t, m) IN
    Dispatch(DecodeAll(e), LAMBDA m : DecodeAllInto(e, m), LAMBDA i : DecodeAt(e, i),
             LAMBDA s, t : DecodeRange(e, s, t), Into,
             LAMBDA rs, m : DefaultGather(Into, rs, m), c, n)
=============================================================================

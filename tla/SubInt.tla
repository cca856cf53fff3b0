-------------------------------- MODULE SubInt --------------------------------
(***************************************************************************)
(* SubIntEncoder (src/Source/encoders/SubIntEncoder.hpp): every value is   *)
(* cut into a low and a high group; a group is a code into a dictionary of *)
(* its own, or one both share, or is kept as it is.  Least significant bit *)
(* first; values are unsigned.  The cached context of an encoding goes the *)
(* way of the view caches in SubIntSplitCache.                             *)
(***************************************************************************)
EXTENDS CodecContract, FiniteSetsExt

CONSTANTS
    C,           \* bits of a byte
    MaxCode,     \* maxCodeWidth, by the bits of a group
    ReaderBits   \* bits BitReader::read returns (32)

P == INSTANCE Packing WITH W <- C, Accumulator <- C, BatchWidths <- {}

Left(v, split)  == v % 2^split.left
Right(v, split) == v \div 2^split.left
Joined(left, right, split) == left + right * 2^split.left

\* adaptiveWidth: the least power of two that holds n codes, or the greatest width.
AdaptiveWidth(n, greatest) ==
    Min({greatest} \cup {w \in {2^k : k \in 0 .. greatest} : n <= 2^w})

\* A group's values in the order they first occur; its codes are their places.
DictOf(values) == FoldLeft(LAMBDA dict, v : IF Contains(dict, v) THEN dict ELSE Append(dict, v),
                           <<>>, values)

Code(dict, v) == SelectInSeq(dict, LAMBDA u : u = v) - 1

\* Too many values for a dictionary, or a dictionary that does not pay: dictWorthIt
\* weighs bytes, and any group may be raw.
GroupForms(values, bits) ==
    {<<>>} \cup (IF values = <<>> \/ Len(DictOf(values)) > 2^MaxCode[bits] THEN {}
                 ELSE {DictOf(values)})

\* Bits per row and group, `raw` bits without a dictionary.
CodeWidth(dict, bits) == IF dict = <<>> THEN bits ELSE AdaptiveWidth(Len(dict), MaxCode[bits])

\* checkSharedBenefit weighs bytes too, of a merged dictionary that fits.
SharedForms(left, right, split) ==
    {FALSE} \cup (IF split.left = split.right /\ left # <<>> /\ right # <<>>
                     /\ Len(DictOf(left \o right)) <= 2^MaxCode[split.left] THEN {TRUE} ELSE {})

Layout(d, split, left, right, wraps) ==
    LET lw == CodeWidth(left, split.left)
        rw == CodeWidth(right, split.right)
        Field(dict, v) == IF dict = <<>> THEN v ELSE Code(dict, v) IN
    [n |-> Len(d), split |-> split, left |-> left, right |-> right, lw |-> lw, rw |-> rw,
     wraps |-> wraps,
     stream |-> IF left = <<>> /\ right = <<>> THEN d
                ELSE FoldLeft(LAMBDA w, v :
                        P!Write(P!Write(w, Field(left, Left(v, split)), lw),
                                Field(right, Right(v, split)), rw),
                        P!Writer, d).bytes]

\* `wraps`: the build takes the distance of a shift by ReaderBits or more modulo
\* ReaderBits; otherwise such a shift leaves nothing.
Encodings(d, split) ==
    LET lefts  == [i \in DOMAIN d |-> Left(d[i], split)]
        rights == [i \in DOMAIN d |-> Right(d[i], split)] IN
    UNION {{IF shared THEN Layout(d, split, DictOf(l \o r), DictOf(l \o r), u)
            ELSE Layout(d, split, l, r, u) :
              shared \in SharedForms(l, r, split), u \in BOOLEAN} :
           l \in GroupForms(lefts, split.left), r \in GroupForms(rights, split.right)}

-----------------------------------------------------------------------------
BothRaw(e) == e.left = <<>> /\ e.right = <<>>

\* A group of row i.  readBits64 takes two reads for what one cannot return.
Group(dict, raw) == IF dict = <<>> THEN raw ELSE dict[raw + 1]

LeftBits(e, i)  == P!Read(e.stream, i * (e.lw + e.rw), e.lw)
RightBits(e, i) == P!Read(e.stream, i * (e.lw + e.rw) + e.lw, e.rw)

DecodeOne(e, i) ==
    IF BothRaw(e) THEN e.stream[i + 1]
    ELSE Joined(Group(e.left, LeftBits(e, i)), Group(e.right, RightBits(e, i)), e.split)

\* decodeSequential reads a raw group with one call, whatever its width.
Returned(raw, width, wraps) ==
    LET Set(j) == (raw \div 2^j) % 2 = 1
        Lands(j, k) == j = k \/ (wraps /\ j % ReaderBits = k) IN
    MapThenSumSet(LAMBDA k : 2^k,
                  {k \in 0 .. ReaderBits - 1 : \E j \in 0 .. width - 1 : Set(j) /\ Lands(j, k)})

InOneRead(e, dict, width, bits) ==
    Group(dict, IF dict = <<>> THEN Returned(bits, width, e.wraps) ELSE bits)

DecodeSequential(e, start, end) ==
    [k \in 1 .. end - start |->
        LET i == start + k - 1 IN
        IF BothRaw(e) THEN e.stream[i + 1]
        ELSE Joined(InOneRead(e, e.left, e.lw, LeftBits(e, i)),
                    InOneRead(e, e.right, e.rw, RightBits(e, i)), e.split)]

DecodeAll(e) == Rows(DecodeSequential(e, 0, e.n))

DecodeAt(e, i) == IF i >= e.n THEN Nullopt ELSE Rows(<<DecodeOne(e, i)>>)

DecodeRange(e, start, end) ==
    Rows(IF start >= e.n THEN <<>> ELSE DecodeSequential(e, start, Lesser(end, e.n)))

Answer(e, c, n) ==
    LET InRange(s, t) == DecodeRange(e, s, t)
        Into(s, t, m) == DefaultRangeInto(InRange, s, t, m) IN
    Dispatch(DecodeAll(e), LAMBDA m : SizedInto(DecodeAll(e), m), LAMBDA i : DecodeAt(e, i),
             InRange, Into, LAMBDA rs, m : DefaultGather(Into, rs, m), c, n)

\* A raw group that no single read returns, beside a dictionary.
WideRaw(e) ==
    /\ e.n > 0
    /\ ~BothRaw(e)
    /\ \/ e.left = <<>> /\ e.lw > ReaderBits
       \/ e.right = <<>> /\ e.rw > ReaderBits
=============================================================================

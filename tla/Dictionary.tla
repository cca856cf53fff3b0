----------------------------- MODULE Dictionary -----------------------------
(***************************************************************************)
(* DictionaryEncoder and AdaptiveDictionaryEncoder (src/Source/encoders/): *)
(* the distinct values in the order they first occur, and a packed key per *)
(* row; the second starts anew in every block.  The cached view of an      *)
(* encoding is modelled in SubIntSplitCache.                               *)
(***************************************************************************)
EXTENDS CodecContract

CONSTANTS
    W,           \* bits of a word
    BatchWidths, \* key widths decoded by whole words
    BlockSizes   \* kCandidates

P == INSTANCE Packing WITH C <- W, Accumulator <- W, BatchWidths <- BatchWidths

\* The values of d in the order they first occur.
Distinct(d) == FoldLeft(LAMBDA dict, v : IF Contains(dict, v) THEN dict ELSE Append(dict, v),
                        <<>>, d)

KeysOf(d) == [i \in DOMAIN d |-> SelectInSeq(Distinct(d), LAMBDA v : v = d[i]) - 1]

\* `exact`: allowNonPowerOfTwoKeyWidths.
Encode(d, exact) ==
    LET width == P!ChooseKeyBitWidth(Len(Distinct(d)), exact) IN
    [n |-> Len(d), dict |-> Distinct(d), width |-> IF d = <<>> THEN 0 ELSE width,
     keys |-> IF width = P!Raw THEN KeysOf(d) ELSE P!WordsOf(P!Written(KeysOf(d), width))]

\* planBlockSize takes the cheapest of the sizes; any may be.
AdaptiveEncodings(d, exact) ==
    {[n |-> Len(d), size |-> size,
      blocks |-> [b \in DOMAIN Blocks(d, size) |-> Encode(Blocks(d, size)[b], exact)]] :
        size \in BlockSizes}

\* Key i, raw or joined from its words.
Key(e, i) == IF e.width = P!Raw THEN e.keys[i + 1] ELSE P!ExtractAt(e.keys, i * e.width, e.width)

-----------------------------------------------------------------------------
(* DictionaryEncoder *)

\* All rows take whole words where the width allows.
DecodeAll(e) ==
    Rows(IF e.dict = <<>> THEN <<>>
         ELSE IF e.width = P!Raw THEN [i \in 1 .. e.n |-> e.dict[e.keys[i] + 1]]
         ELSE P!DispatchDecode(e.keys, e.dict, e.n, e.width, 0))

DecodeAt(e, i) ==
    IF e.dict = <<>> \/ i >= e.n THEN Nullopt
    ELSE IF Key(e, i) >= Len(e.dict) THEN Nullopt ELSE Rows(<<e.dict[Key(e, i) + 1]>>)

DecodeRange(e, start, end) ==
    IF e.dict = <<>> \/ start >= e.n THEN Rows(<<>>)
    ELSE LET count == Lesser(end, e.n) - start IN
         Rows(IF e.width = P!Raw THEN [k \in 1 .. count |-> e.dict[e.keys[start + k] + 1]]
              ELSE P!DecodeGeneral(e.keys, e.dict, count, e.width, start * e.width))

Answer(e, c, n) ==
    LET InRange(s, t) == DecodeRange(e, s, t)
        Into(s, t, m) == DefaultRangeInto(InRange, s, t, m) IN
    Dispatch(DecodeAll(e), LAMBDA m : SizedInto(DecodeAll(e), m), LAMBDA i : DecodeAt(e, i),
             InRange, Into, LAMBDA rs, m : DefaultGather(Into, rs, m), c, n)

-----------------------------------------------------------------------------
(* AdaptiveDictionaryEncoder *)

\* Rows from .. to - 1 of a block: from its first row, by whole words.
BlockPart(block, from, to) ==
    IF from = 0 THEN P!DispatchDecode(block.keys, block.dict, to, block.width, 0)
    ELSE P!DecodeGeneral(block.keys, block.dict, to - from, block.width, from * block.width)

AdaptivePart(e, start, end, room) ==
    OverBlocks(e.size, e.n, start, end, room,
               LAMBDA b, from, to : BlockPart(e.blocks[b + 1], from, to))

AdaptiveAll(e, count) ==
    FlattenSeq([b \in 1 .. Len(e.blocks) |->
        IF (b - 1) * e.size >= count THEN <<>>
        ELSE BlockPart(e.blocks[b], 0, Lesser(e.size, count - (b - 1) * e.size))])

AdaptiveAt(e, i) ==
    IF i >= e.n THEN Nullopt
    ELSE LET block == e.blocks[(i \div e.size) + 1]
             key == Key(block, i % e.size) IN
         IF key >= Len(block.dict) THEN Nullopt ELSE Rows(<<block.dict[key + 1]>>)

AdaptiveRange(e, start, end) ==
    LET stop == Lesser(end, e.n) IN
    Rows(IF start >= stop THEN <<>> ELSE AdaptivePart(e, start, stop, stop - start))

\* Not a word about rows that are not there.
AdaptiveAllInto(e, n) == Rows(Padded(AdaptiveAll(e, Lesser(n, e.n)), n))

AdaptiveRangeInto(e, start, end, n) ==
    LET stop == Lesser(end, e.n) IN
    Rows(Padded(IF n = 0 \/ start >= stop THEN <<>> ELSE AdaptivePart(e, start, stop, n), n))

AdaptiveAnswer(e, c, n) ==
    LET Into(s, t, m) == AdaptiveRangeInto(e, s, t, m) IN
    Dispatch(Rows(AdaptiveAll(e, e.n)), LAMBDA m : AdaptiveAllInto(e, m),
             LAMBDA i : AdaptiveAt(e, i), LAMBDA s, t : AdaptiveRange(e, s, t), Into,
             LAMBDA rs, m : DefaultGather(Into, rs, m), c, n)
=============================================================================

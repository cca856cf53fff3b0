---------------------------- MODULE OtherCodecs ----------------------------
(***************************************************************************)
(* The codecs that Codecs leaves open: what each makes of a column, and    *)
(* how it answers.                                                         *)
(***************************************************************************)
EXTENDS Codecs

DE == INSTANCE Delta WITH B <- ValueBits
FR == INSTANCE Frames WITH FrameSize <- 2, OutBits <- ValueBits + 1, B <- ValueBits
FP == INSTANCE FrequencyPartition WITH W <- WordBits, BlockWords <- 2, Stride <- 2, MaxTiers <- 2
BP == INSTANCE BlockFrequencyPartition WITH B <- ValueBits
RP == INSTANCE RawBitPacked WITH W <- WordBits, B <- ValueBits
DI == INSTANCE Dictionary WITH W <- WordBits, BatchWidths <- {1}
AD == INSTANCE Dictionary WITH W <- 3, BatchWidths <- {1, 3}
VI == INSTANCE VarInt WITH B <- ValueBits, G <- 1
DS == INSTANCE DeltaStreams WITH B <- ValueBits, BlockSize <- 2
AF == INSTANCE AdaptiveFOR WITH B <- ValueBits + 1, C <- 1, Widths <- {ValueBits, ValueBits + 1},
                                FrameSizes <- BlockSizes
BF == INSTANCE BlockFORFPE WITH Stride <- 2, MaxTiers <- 2, C <- 4, Accumulator <- 8, WriterBits <- 4
RO == INSTANCE Reordering WITH C <- 2, B <- ValueBits, Window <- 2
PX == INSTANCE AdaptiveFramedBitPrefix WITH B <- ValueBits + 1, C <- 2, ReaderBits <- 1,
                                            FrameSizes <- BlockSizes
PA == INSTANCE BitParentheses
HU == INSTANCE Huffman WITH C <- 2, Accumulator <- 4, MaxFastBits <- 2, MaxCodeBits <- 24
FS == INSTANCE FSE WITH C <- 2, Accumulator <- 6, FreqBits <- 5, MinTableLog <- 2,
                        DefaultTableLog <- 2, LegacyMaxTableLog <- 2, MaxTableLog <- 4
FL == INSTANCE FSE WITH C <- 2, Accumulator <- 6, FreqBits <- 5, MinTableLog <- 4,
                        DefaultTableLog <- 4, LegacyMaxTableLog <- 4, MaxTableLog <- 4
SI == INSTANCE SubInt WITH C <- 1, MaxCode <- <<1, 1, 1>>, ReaderBits <- 1

Splits == {[left |-> left, right |-> ValueBits - left] : left \in 1 .. ValueBits - 1}

Level(size, policy) == [size |-> size, policy |-> policy]

\* Schedules of CascadingFOREncoder: none, nested and other frame sizes, and
\* policy PREV above and below another.
Schedules == {<<>>, <<Level(2, "MID")>>, <<Level(4, "MIN"), Level(2, "FIRST")>>,
              <<Level(2, "PREV"), Level(3, "MIN")>>, <<Level(3, "MIN"), Level(2, "PREV")>>}

EncodingsOf(k, d) ==
    CASE k = "Delta"             -> {DE!Encode(d)}
      [] k = "FOR"               -> UNION {FR!Encodings(d, policy, random) :
                                              policy \in FR!Policies, random \in BOOLEAN}
      [] k = "RangePack"         -> {FR!RangeEncode(d)}
      [] k = "CascadingFOR"      -> {FR!CascadeEncode(d, residuals, references) :
                                        residuals, references \in Schedules}
      [] k = "DeltaVarInt"       -> {VI!DeltaEncode(d, zigzag) : zigzag \in BOOLEAN}
      [] k = "DeltaRunLength"    -> {DS!RunsEncode(d)}
      [] k = "DeltaPrepass"      -> {DS!PrepassEncode(d)}
      [] k = "DeltaSubInt"       -> {DS!SubIntEncode(d)}
      [] k = "AdaptiveFOR"       -> AF!Encodings(d)
      [] k = "BlockFORFPE"       -> BF!Encodings(d)
      [] k = "SubInt"            -> UNION {SI!Encodings(d, split) : split \in Splits}
      [] k \in ReorderingKinds   -> RO!Encodings(d, k)
      [] k = "BitShuffle"        -> {RO!BitShuffle(d)}
      [] k = "BWTSection"        -> {RO!SectionEncode(d, window) : window \in {2, 3}}
      [] k = "FramedBitPrefix"   -> PX!Encodings(d)
      [] k = "RawBitPacked"      -> {RP!Encode(d)}
      [] k = "BitParentheses"    -> {PA!Encode(d)}
      [] k = "Huffman"           -> HU!Encodings(d)
      [] k = "FSE"               -> FS!Encodings(d) \cup FL!Encodings(d)
      [] k = "BlockFSE"          -> FS!BlockEncodings(d)
      [] k = "Dictionary"        -> {DI!Encode(d, exact) : exact \in BOOLEAN}
      [] k = "AdaptiveDictionary" -> UNION {AD!AdaptiveEncodings(d, exact) : exact \in BOOLEAN}
      [] k = "VarInt"            -> {VI!Encode(d, zigzag) : zigzag \in BOOLEAN}
      [] k = "Bitmaps"           -> FP!Encodings(d, "bitmaps")
      [] k = "Tags"              -> FP!Encodings(d, "tags")
      [] k = "EliasFano"         -> FP!Encodings(d, "eliasFano")
      [] k = "NoIndex"           -> FP!Encodings(d, "none")
      [] k = "BlockPartition"    -> UNION {BP!Encodings(d, FALSE, packed, caps) :
                                              packed \in BOOLEAN, caps \in {<<2, 1>>, <<1, 1, 1>>}}
      [] k = "BlockPartitionFOR" -> UNION {BP!Encodings(d, TRUE, packed, <<1, 1>>) :
                                              packed \in BOOLEAN}

AnswerOf(k, e, c, n) ==
    CASE k = "Delta"          -> DE!Answer(e, c, n)
      [] k = "FOR"            -> FR!Answer(e, c, n)
      [] k = "RangePack"      -> FR!RangeAnswer(e, c, n)
      [] k = "CascadingFOR"   -> FR!CascadeAnswer(e, c, n)
      [] k = "DeltaVarInt"    -> VI!DeltaAnswer(e, c, n)
      [] k = "DeltaRunLength" -> DS!RunsAnswer(e, c, n)
      [] k = "DeltaPrepass"   -> DS!PrepassAnswer(e, c, n)
      [] k = "DeltaSubInt"    -> DS!SubIntAnswer(e, c, n)
      [] k = "AdaptiveFOR"    -> AF!Answer(e, c, n)
      [] k = "BlockFORFPE"    -> BF!Answer(e, c, n)
      [] k = "SubInt"         -> SI!Answer(e, c, n)
      [] k \in ReorderingKinds -> RO!Answer(e, c, n)
      [] k = "BitShuffle"     -> RO!ShuffleAnswer(e, c, n)
      [] k = "BWTSection"     -> RO!SectionAnswer(e, c, n)
      [] k = "FramedBitPrefix" -> PX!Answer(e, c, n)
      [] k = "RawBitPacked"   -> RP!Answer(e, c, n)
      [] k = "BitParentheses" -> PA!Answer(e, c, n)
      [] k = "Huffman"        -> HU!Answer(e, c, n)
      [] k = "FSE"            -> FS!Answer(e, c, n)
      [] k = "BlockFSE"       -> FS!BlockAnswer(e, c, n)
      [] k = "Dictionary"     -> DI!Answer(e, c, n)
      [] k = "AdaptiveDictionary" -> AD!AdaptiveAnswer(e, c, n)
      [] k = "VarInt"         -> VI!Answer(e, c, n)
      [] k \in PartitionKinds -> FP!Answer(e, c, n)
      [] k \in BlockPartitionKinds \ {"BlockFORFPE"} -> BP!Answer(e, c, n)

\* The rows an encoding is to hold, in its own order.
HeldBy(k, d, e) == IF k = "NoIndex" THEN FP!TierOrder(d, e) ELSE d

-----------------------------------------------------------------------------
(* Correctness *)

\* Two codecs return their first value where a call selects no row: of an empty
\* column, and DeltaRunLengthEncoder of a range that ends where it starts.
AnchorForNoRow ==
    \/ kind \in {"DeltaVarInt", "DeltaRunLength"} /\ call.op \in {"all", "allInto"} /\ data = <<>>
    \/ /\ kind = "DeltaRunLength"
       /\ call.op \in {"range", "rangeInto"} /\ call.start = call.end /\ call.start < Len(data)

\* The delta codecs rebuild every value from the first, whatever wrapped around on
\* the way and wherever a call starts; but DeltaEncoder's decodeRange, whose second
\* loop adds the difference that leads to its first row once more (217).
DeltaAgrees ==
    /\ kind \in DeltaKinds
    /\ kind = "Delta" => call.op \in {"all", "allInto", "at"}
    /\ ~AnchorForNoRow
    => AsExpected

\* AdaptiveFOREncoder holds what its values' differences fit into their type.
DifferencesFit == \A u, v \in ToSet(data) : u - v < 2^ValueBits

\* The frame-of-reference codecs add up what they subtracted, by every policy,
\* frame size and schedule of levels, wherever a call starts and ends in a frame;
\* AdaptiveFOREncoder does unless a frame's differences overflow.
FramesAgree ==
    /\ kind \in FrameKinds
    /\ kind = "AdaptiveFOR" => DifferencesFit
    => AsExpected

\* AdaptiveFOREncoder declares Lossless (AdaptiveFOREncoder.hpp), whatever the
\* differences of its values.
AdaptiveIsLossless == kind = "AdaptiveFOR" => AsExpected

\* The codecs that store a few bits for each value, SubIntEncoder some for each
\* group of its bits, HuffmanEncoder and FSEEncoder the fewer the more often it
\* comes, read them back by whole words or bytes, by single fields that spill over
\* and from any position they seek; but for one row alone that shares no bit with
\* the others of its frame (AdaptiveFramedBitPrefixEncoder.hpp:193 shifts by the
\* whole width), for a raw group too wide for the one read that decodeAll and
\* decodeRange of SubIntEncoder make of it, and for the rows that
\* BitParenthesesEncoder counts one after the other where separators joined.
\* Of HuffmanEncoder its header says that decodeAt() and decodeRange() throw
\* (HuffmanEncoder.hpp:27-28); the code (452-473) decodes everything and returns
\* the rows, and the property follows the code.
PackedAgrees ==
    /\ kind \in PackedKinds /\ call # NoCall
    /\ kind = "FramedBitPrefix" =>
          call.op # "at" \/ ~PX!WholeSuffix(encoded.width, encoded.frames)
    /\ kind = "SubInt" => call.op = "at" \/ ~SI!WideRaw(encoded)
    /\ kind = "BitParentheses" => call.op = "at" \/ ~PA!JoinedSeparators(encoded)
    => AsExpected

\* test_bit_parentheses.cpp:114-122 asserts of zeros among the counts that
\* decodeAll returns the column: BitParenthesesEncoder, which declares Lossless,
\* returns every count.
CountsComeBack == kind = "BitParentheses" => AsExpected

\* FrequencyPartitionEncoder answers every call alike over each of its indexes:
\* the rank of a row in its tier, or in the fallback, comes out the same from
\* bitmaps, sampled tags, Elias-Fano rows and tier prefixes.
PartitionAgrees == kind \in PartitionKinds => AsExpected

\* The codecs that partition a column by frequency block by block answer for any
\* span of blocks, whatever the plan of each: its tiers, its own fallback or the
\* one all share, its samples; but for residuals that readBits has no room for.
BlockPartitionAgrees ==
    /\ kind \in BlockPartitionKinds
    /\ kind = "BlockFORFPE" /\ call # NoCall => ~BF!Overruns(encoded)
    => AsExpected

\* BlockFORFPEEncoder.hpp:880 says of readBits "Works for numBits 1..64 regardless
\* of alignment": residuals of any width come back.
AnyWidthIsRead == kind = "BlockFORFPE" => AsExpected

\* ReorderingCodec goes wrong where it takes a form of the values for an order of
\* the rows (decodeAt, and decodeRange of a Gray code, called by the default
\* methods too), and where it reads the blob of a column without rows; and it
\* refuses a range that is empty beyond the last row.
FormTakenForOrder ==
    \/ kind \in {"GrayCode", "MTF", "BWT"} /\ call.op = "at"
    \/ kind = "GrayCode" /\ call.op = "range"
    \/ kind = "GrayCode" /\ call.op \in {"rangeInto", "gather"} /\ encoded.codec.bypass

EmptyBlobRead ==
    /\ kind \in {"MTF", "BWT"} /\ data = <<>>
    /\ call.op = "all" \/ (call.op = "allInto" /\ encoded.codec.bypass)

EmptyPastEnd == \E r \in ToSet(call.ranges) : RangeSize(r) = 0 /\ r.end > Len(data)

\* ReorderingCodec returns the rows in their first order, from every format of
\* the permutation, point by point or out of the column decoded, and never by a
\* resident permutation of other rows; BitShuffleCodec does from its bit planes,
\* and BWTSectionEncoder from its windows, if there are any.
ReorderedAgrees ==
    \/ kind = "BitShuffle"
    \/ kind = "BWTSection" /\ data # <<>>
    \/ kind \in ReorderingKinds /\ ~FormTakenForOrder /\ ~EmptyBlobRead /\ ~EmptyPastEnd
    => AsExpected

\* SubIntEncoder declares Lossless (SubIntEncoder.hpp), whatever its split.
SubIntIsLossless == kind = "SubInt" => AsExpected
=============================================================================

------------------------------- MODULE Codecs -------------------------------
(***************************************************************************)
(* One codec, a column it has encoded, and the calls of src/Source/        *)
(* encodings/Encoder.hpp on that encoding, one at a time.  The codecs are  *)
(* modules of operators; an action is one call of the interface.           *)
(***************************************************************************)
EXTENDS CodecContract

CONSTANTS Kinds,        \* the codecs to try, of AllKinds
          Values,       \* what a row may hold, by codec
          MaxRows,      \* bound: rows of a column, by codec
          MaxRanges,    \* bound: ranges of a gather
          WordBits,     \* bits of a bitmap word (64 in the code)
          ValueBits,    \* bits of a value
          BlockSizes,   \* rows of a block, where a codec chooses
          MaxDepth,     \* bound: depth of a chain of MainlyConstantEncoders
          OtherEncodings(_, _),      \* what the codecs of other modules do:
          OtherAnswer(_, _, _, _),   \* see OtherCodecs
          OtherHeld(_, _, _)

FrameKinds == {"FOR", "RangePack", "CascadingFOR", "AdaptiveFOR"}
ReorderingKinds == {"Sort", "WindowedSort", "GrayCode", "MTF", "BWT"}
RunLengthKinds == {"RunLength", "ComposedRunLength"}
PartitionKinds == {"Bitmaps", "Tags", "EliasFano", "NoIndex"}
BlockPartitionKinds == {"BlockPartition", "BlockPartitionFOR", "BlockFORFPE"}

PackedKinds == {"RawBitPacked", "Dictionary", "AdaptiveDictionary", "VarInt", "FramedBitPrefix",
                "SubInt", "BitParentheses", "Huffman", "FSE", "BlockFSE"}
DeltaKinds == {"Delta", "DeltaVarInt", "DeltaRunLength", "DeltaPrepass", "DeltaSubInt"}

AllKinds == RunLengthKinds \cup PartitionKinds \cup BlockPartitionKinds \cup PackedKinds
               \cup DeltaKinds \cup FrameKinds \cup ReorderingKinds
               \cup {"MainlyConstant", "BitShuffle", "BWTSection"}

\* Those that the operators below know of; OtherCodecs knows of the others.
OwnKinds == RunLengthKinds \cup {"MainlyConstant"}

ASSUME KindsAssumption == Kinds \subseteq AllKinds

ASSUME BoundsAssumption ==
    /\ \A k \in Kinds : Values[k] \subseteq Int /\ MaxRows[k] \in Nat
    /\ MaxRanges \in Nat /\ MaxDepth \in Nat
    /\ WordBits \in Nat \ {0} /\ ValueBits \in Nat \ {0}

RL == INSTANCE RunLength
MC == INSTANCE MainlyConstant WITH W <- WordBits

VARIABLES kind, data, encoded, call, answer

vars == <<kind, data, encoded, call, answer>>

NoCall == [op |-> "none", start |-> 0, end |-> 0, ranges |-> <<>>]
NoAnswer == Rows(<<>>)
NotEncoded == [n |-> -1]

-----------------------------------------------------------------------------
(* The calls a caller makes: ranges that do not run backwards, and gathers *)
(* of ascending ranges that do not overlap; both may pass the last row.    *)

Positions == [k \in Kinds |-> 0 .. MaxRows[k] + 1]

Spans ==
    [k \in Kinds |-> {r \in [begin : Positions[k], end : Positions[k]] : r.begin <= r.end}]

\* Codecs that only tell equal values from others see every column if each new
\* value is the least that is left (FSEEncoder, which also sorts its symbols, sees
\* those whose symbols come in order, a bound); codecs that only compare values do if no
\* value is left out below another.
Nominal == {"MainlyConstant", "Dictionary", "AdaptiveDictionary", "FSE"} \cup RunLengthKinds
Ordinal == {"Sort", "WindowedSort", "MTF", "BWT", "BWTSection", "Huffman"}

Columns ==
    [k \in Kinds |->
        {d \in SeqOf(Values[k], MaxRows[k]) :
            \A i \in DOMAIN d : \A v \in Values[k] :
                /\ k \in Nominal /\ v < d[i] => \E j \in 1 .. i - 1 : d[j] = v
                /\ k \in Ordinal /\ v < d[i] => \E j \in DOMAIN d : d[j] = v}]

\* The codecs with a gather of their own; the others gather range by range.
OwnGather == RunLengthKinds \cup PartitionKinds
                \cup {"Sort", "GrayCode", "MainlyConstant", "VarInt", "DeltaVarInt", "DeltaRunLength",
                     "FramedBitPrefix"}

Gathers ==
    [k \in Kinds |->
        {rs \in SeqOf(Spans[k], IF k \in OwnGather THEN MaxRanges ELSE 1) :
            \A i \in 1 .. Len(rs) - 1 : rs[i].end <= rs[i + 1].begin}]

-----------------------------------------------------------------------------
(* One call, by the codec's class *)

Encodings(k, d) ==
    CASE k = "RunLength"         -> {RL!Encode(d, FALSE)}
      [] k = "ComposedRunLength" -> {RL!Encode(d, TRUE)}
      [] k = "MainlyConstant"    -> UNION {MC!Encodings(d, depth) : depth \in 0 .. MaxDepth}
      [] OTHER                   -> OtherEncodings(k, d)

Answer(k, e, c, n) ==
    CASE k \in RunLengthKinds -> RL!Answer(e, c, n)
      [] k = "MainlyConstant" -> MC!Answer(e, c, n)
      [] OTHER                -> OtherAnswer(k, e, c, n)

\* The rows an encoding is to hold, in its own order.
Held(k, d, e) == IF k \in OwnKinds THEN d ELSE OtherHeld(k, d, e)

\* decodeRangeInto returns without a word where there are no rows.
Silent == BlockPartitionKinds \cup {"AdaptiveDictionary", "BlockFSE"}

\* decodeRangeInto throws there, whatever the size of the memory.
Strict == PartitionKinds

-----------------------------------------------------------------------------
Init ==
    /\ kind \in Kinds
    /\ data = <<>>
    /\ encoded = NotEncoded
    /\ call = NoCall
    /\ answer = NoAnswer

Encode(d) ==
    /\ encoded' \in Encodings(kind, d)
    /\ data' = Held(kind, d, encoded')
    /\ UNCHANGED <<kind, call, answer>>

DecodeAll            == [NoCall EXCEPT !.op = "all"]
DecodeAllInto        == [NoCall EXCEPT !.op = "allInto"]
DecodeAt(i)          == [NoCall EXCEPT !.op = "at", !.start = i]
DecodeRange(r)       == [NoCall EXCEPT !.op = "range", !.start = r.begin, !.end = r.end]
DecodeRangeInto(r)   == [NoCall EXCEPT !.op = "rangeInto", !.start = r.begin, !.end = r.end]
DecodeGatherInto(rs) == [NoCall EXCEPT !.op = "gather", !.ranges = rs]

Calls ==
    [k \in Kinds |->
        {DecodeAll, DecodeAllInto}
            \cup {DecodeAt(i) : i \in Positions[k]}
            \cup {DecodeRange(r) : r \in Spans[k]}
            \cup {DecodeRangeInto(r) : r \in Spans[k]}
            \cup {DecodeGatherInto(rs) : rs \in Gathers[k]}]

\* The codec answers one call.
Call(c) ==
    /\ call' = c
    /\ answer' = Answer(kind, encoded, c, Asked(data, c))
    /\ UNCHANGED <<kind, data, encoded>>

\* The caller has its rows, and may ask again.
Return ==
    /\ call' = NoCall
    /\ answer' = NoAnswer
    /\ UNCHANGED <<kind, data, encoded>>

Next ==
    \/ encoded = NotEncoded /\ \E d \in Columns[kind] : Encode(d)
    \/ encoded # NotEncoded /\ call = NoCall /\ \E c \in Calls[kind] : Call(c)
    \/ call # NoCall /\ Return

Spec == Init /\ [][Next]_vars

-----------------------------------------------------------------------------
(* Correctness *)

\* A range into memory that has no rows in it, of a codec that refuses those.
Refused == kind \in Strict /\ call.op = "rangeInto" /\ Asked(data, call) = 0

AsExpected ==
    call # NoCall =>
        answer = IF Refused THEN Threw ELSE Expected(data, call, kind \in Silent)

\* RunLengthEncoder, with raw or with composed runs, answers every entry point
\* with the rows it was given: interpolation, bisection and the gather's
\* resumed scan find the same runs.
RunLengthAgrees == kind \in RunLengthKinds => AsExpected

\* MainlyConstantEncoder does, at every depth of its chain: the rank of a row
\* among the other values is the same counted from the first row, or carried
\* by a gather over the gaps between its ranges.
MainlyConstantAgrees == kind = "MainlyConstant" => AsExpected


=============================================================================

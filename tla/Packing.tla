------------------------------ MODULE Packing ------------------------------
(***************************************************************************)
(* Values of a few bits each in a stream of bits: the words of             *)
(* RawBitPackedEncoder and src/Source/encoders/detail/DictionaryHelpers.hpp, *)
(* and the bytes of src/Source/core/BitPacker.hpp.  An | of bits that do    *)
(* not overlap is a sum.  Reading where nothing was allocated has no value  *)
(* here: TLC would report it.                                              *)
(***************************************************************************)
EXTENDS Integers, SequencesExt, FiniteSetsExt

CONSTANTS
    W,            \* bits of a word (64)
    C,            \* bits of a byte (8)
    Accumulator,  \* bits of readFast's accumulator (64): a byte more than any width
    BatchWidths   \* key widths with a decoder by whole words (1, 2, 4, 8, 16)

Lesser(a, b) == IF a < b THEN a ELSE b

Shifted(v, n) == (v * 2^n) % 2^W

\* std::bit_width
BitWidth(v) == CHOOSE b \in 0 .. v : v < 2^b /\ (b > 0 => 2^(b - 1) <= v)

-----------------------------------------------------------------------------
(* Words *)

\* packValues: a value that does not fit into its word spills into the next.
PackValues(values, width) ==
    LET Step(words, k) ==
            LET pos == width * (k - 1)
                at == (pos \div W) + 1
                offset == pos % W
                first == [words EXCEPT ![at] = @ + Shifted(values[k] % 2^width, offset)]
            IN  IF offset + width > W
                THEN [first EXCEPT ![at + 1] = @ + (values[k] % 2^width) \div 2^(W - offset)]
                ELSE first
    IN FoldLeft(Step, [k \in 1 .. (width * Len(values) + W - 1) \div W |-> 0],
                [k \in DOMAIN values |-> k])

\* Mutant of ExtractAt: the next word is not looked at.
ExtractUnspilled(words, pos, width) == (words[(pos \div W) + 1] \div 2^(pos % W)) % 2^width

ExtractAt(words, pos, width) ==
    LET offset == pos % W
        value == words[(pos \div W) + 1] \div 2^offset IN
    (IF offset + width > W THEN value + Shifted(words[(pos \div W) + 2], W - offset) ELSE value)
        % 2^width

\* decodeGeneral: n keys from bit `start` on.
DecodeGeneral(words, dict, n, width, start) ==
    [k \in 1 .. n |-> dict[1 + ExtractAt(words, start + width * (k - 1), width)]]

\* decodeBatch: whole words, then what is left of the last one.
DecodeBatch(words, dict, n, width) ==
    LET perWord == W \div width
        full == n \div perWord
        Keys(at, count) ==
            [j \in 1 .. count |-> dict[((words[at] \div 2^(width * (j - 1))) % 2^width) + 1]]
    IN  FlattenSeq([at \in 1 .. full |-> Keys(at, perWord)])
            \o (IF n % perWord > 0 THEN Keys(full + 1, n % perWord) ELSE <<>>)

DispatchDecode(words, dict, n, width, start) ==
    IF start = 0 /\ width \in BatchWidths THEN DecodeBatch(words, dict, n, width)
    ELSE DecodeGeneral(words, dict, n, width, start)

\* Keys too wide for those are not packed.
Raw == 32

\* chooseKeyBitWidth: exact, or the next width that has a batch decoder.
ChooseKeyBitWidth(entries, exact) ==
    LET bits == IF entries <= 1 THEN 1 ELSE BitWidth(entries - 1)
        wide == {b \in BatchWidths : b >= bits} IN
    IF exact THEN bits ELSE IF wide = {} THEN Raw ELSE Min(wide)

\* The words of a byte stream that is padded with a word of zeros.
WordsOf(bytes) ==
    LET padded == bytes \o [k \in 1 .. W \div C |-> 0] IN
    [at \in 1 .. Len(padded) \div (W \div C) |->
        FoldLeft(LAMBDA v, j : v + padded[((at - 1) * (W \div C)) + j + 1] * 2^(C * j), 0,
                 [j \in 1 .. W \div C |-> j - 1])]

-----------------------------------------------------------------------------
(* BitWriter and BitReader, least significant bit first *)

\* The current byte takes as many bits as it has room for.
Put(w, take) ==
    [bytes  |-> IF w.offset = 0 THEN Append(w.bytes, w.value % 2^take)
                ELSE [w.bytes EXCEPT ![Len(w.bytes)] =
                         @ + (((w.value % 2^take) * 2^w.offset) % 2^C)],
     offset |-> (w.offset + take) % C,
     value  |-> w.value \div 2^take,
     left   |-> w.left - take]

\* One write, until the value is out.
Write(writer, value, width) ==
    FoldLeft(LAMBDA w, k : IF w.left = 0 THEN w ELSE Put(w, Lesser(w.left, C - w.offset)),
             [writer EXCEPT !.value = value % 2^width, !.left = width], [k \in 1 .. width |-> k])

Writer == [bytes |-> <<>>, offset |-> 0, value |-> 0, left |-> 0]

Written(values, width) == FoldLeft(LAMBDA w, v : Write(w, v, width), Writer, values).bytes

\* seekToBit, which empties the accumulator.
Seek(pos) == [byte |-> pos \div C, offset |-> pos % C, buf |-> 0, avail |-> 0]

\* What a seek left of its byte.
TakeRest(bytes, r) ==
    IF r.offset > 0 /\ r.byte < Len(bytes)
    THEN [byte |-> r.byte + 1, offset |-> 0,
          buf |-> bytes[r.byte + 1] \div 2^r.offset, avail |-> C - r.offset]
    ELSE r

\* Whole bytes while they fit.
Refill(bytes, r) ==
    FoldLeft(LAMBDA s, k :
                IF s.avail > Accumulator - C \/ s.byte >= Len(bytes) THEN s
                ELSE [s EXCEPT !.byte = @ + 1, !.avail = @ + C,
                               !.buf = @ + bytes[s.byte + 1] * 2^s.avail],
             TakeRest(bytes, r), [k \in 1 .. (Accumulator \div C) + 1 |-> k])

\* The next value out of a reader; without enough bits, std::out_of_range.
Draw(r, reader, width) ==
    [values |-> Append(r.values, reader.buf % 2^width),
     reader |-> [reader EXCEPT !.buf = @ \div 2^width, !.avail = @ - width],
     threw  |-> r.threw \/ reader.avail < width]

\* n values from bit `pos` on.
ReadFast(bytes, n, width, pos) ==
    FoldLeft(LAMBDA r, k :
                Draw(r, IF r.reader.avail < width THEN Refill(bytes, r.reader) ELSE r.reader, width),
             [values |-> <<>>, reader |-> Seek(pos), threw |-> FALSE], [k \in 1 .. n |-> k])

\* read: within a byte, or byte by byte.
Read(bytes, pos, width) ==
    LET Step(r, k) ==
            IF r.left = 0 THEN r
            ELSE LET offset == r.pos % C
                     take == Lesser(r.left, C - offset) IN
                 [pos |-> r.pos + take, left |-> r.left - take, shift |-> r.shift + take,
                  value |-> r.value
                      + (((bytes[(r.pos \div C) + 1] \div 2^offset) % 2^take) * 2^r.shift)]
    IN FoldLeft(Step, [pos |-> pos, left |-> width, shift |-> 0, value |-> 0],
                [k \in 1 .. width |-> k]).value
=============================================================================

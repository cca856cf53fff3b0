-------------------------------- MODULE FSE --------------------------------
(***************************************************************************)
(* FSEEncoder (src/Source/encoders/FSEEncoder.hpp): a table of L states,   *)
(* 2^tableLog of them, spread over the symbols by frequency; the encoder   *)
(* walks it from the last row to the first, the decoder back.  And         *)
(* BlockFSEEncoder (src/Source/encoders/BlockFSEEncoder.hpp), which        *)
(* encodes block by block.  A symbol is its place in the sorted table.     *)
(***************************************************************************)
EXTENDS CodecContract, FiniteSetsExt

CONSTANTS
    C,                   \* bits of a byte (8)
    Accumulator,         \* bits of the reader's buffer (64)
    FreqBits,            \* bits of a stored frequency (16)
    MinTableLog,         \* kMinTableLog (5)
    DefaultTableLog,     \* kDefaultTableLog (10)
    LegacyMaxTableLog,   \* kLegacyMaxTableLog (12)
    MaxTableLog,         \* kMaxTableLog (20)
    BlockSizes           \* kCandidates of BlockFSEEncoder: the cheapest is any of them

P == INSTANCE Packing WITH W <- C, BatchWidths <- {}

Clamp(v, low, high) == Lesser(Greater(v, low), high)

-----------------------------------------------------------------------------
(* The tables *)

ChooseTableLog(numSymbols) ==
    LET minLog == P!BitWidth(numSymbols - 1) IN
    CASE numSymbols <= 2 -> MinTableLog
      [] numSymbols > 2 /\ numSymbols <= 2^LegacyMaxTableLog ->
            Clamp(Greater(minLog + 2, DefaultTableLog), MinTableLog, LegacyMaxTableLog)
      [] OTHER -> Clamp(minLog, LegacyMaxTableLog + 1, MaxTableLog)

\* What is over L goes from the larger frequencies first, down to 1 each; of
\* equals, the sort of a few leaves the first first.
Reduced(raw, freqs, L) ==
    LET Before(a, b) ==
            \/ freqs[a] > freqs[b]
            \/ freqs[a] = freqs[b] /\ raw[a] > raw[b]
            \/ freqs[a] = freqs[b] /\ raw[a] = raw[b] /\ a < b
        Drop(s, id) ==
            LET drop == Lesser(s.freqs[id] - 1, s.excess) IN
            [freqs |-> [s.freqs EXCEPT ![id] = @ - drop], excess |-> s.excess - drop]
    IN  FoldLeft(Drop, [freqs |-> freqs, excess |-> Total(freqs) - L],
                 SetToSortSeq(DOMAIN freqs, Before)).freqs

\* What is missing to L goes to the first of the most frequent.
Raised(raw, freqs, L) ==
    LET largest == Min({k \in DOMAIN raw : \A j \in DOMAIN raw : raw[j] <= raw[k]}) IN
    [freqs EXCEPT ![largest] = @ + L - Total(freqs)]

\* normalizeFreqs: frequencies of 1 or more that add up to L.
NormalizeFreqs(raw, L) ==
    LET freqs == [k \in DOMAIN raw |-> Greater(1, (raw[k] * L) \div Total(raw))] IN
    IF Total(freqs) > L THEN Reduced(raw, freqs, L) ELSE Raised(raw, freqs, L)

\* buildSpread: the slots of each symbol in turn, a step apart; the step is odd,
\* so that it meets every slot.
BuildSpread(freqs, L) ==
    LET step == (L \div 2) + (L \div 8) + 3
        symbols == FlattenSeq([k \in DOMAIN freqs |-> [j \in 1 .. freqs[k] |-> k]])
    IN  FoldLeft(LAMBDA spread, j : [spread EXCEPT ![((j - 1) * step) % L] = symbols[j]],
                 [slot \in 0 .. L - 1 |-> 0], [j \in DOMAIN symbols |-> j])

\* How many slots before this one are its symbol's.
Occurrence(spread, slot) == Cardinality({s \in 0 .. slot - 1 : spread[s] = spread[slot]})

EntryOf(symbol, x, tableLog) ==
    LET nb == tableLog - P!BitWidth(x) + 1 IN
    [symbol |-> symbol, nbBits |-> nb, newState |-> x * 2^nb]

BuildDecodeTable(spread, freqs, tableLog) ==
    [slot \in DOMAIN spread |->
        EntryOf(spread[slot], freqs[spread[slot]] + Occurrence(spread, slot), tableLog)]

-----------------------------------------------------------------------------
(* Encoding *)

\* encodeStates: the state of the k-th slot of a symbol.
EncodeState(spread, symbol, k, L) ==
    L + CHOOSE slot \in DOMAIN spread : spread[slot] = symbol /\ Occurrence(spread, slot) = k

\* EncInfo: the bits a symbol takes from a state, one more from its threshold on.
NbBits(f, state, tableLog) ==
    LET nbBitsMin == tableLog - P!BitWidth(f) IN
    nbBitsMin + (IF state >= f * 2^(nbBitsMin + 1) THEN 1 ELSE 0)

\* One turn of encodeSymbols; the rows are met from the last to the first.
EncodeSymbol(s, symbol, spread, freqs, tableLog) ==
    LET nb == NbBits(freqs[symbol], s.state, tableLog) IN
    [state |-> EncodeState(spread, symbol, (s.state \div 2^nb) - freqs[symbol], 2^tableLog),
     queue |-> <<[bits |-> s.state % 2^nb, nb |-> nb]>> \o s.queue]

EncodeSymbols(symbols, spread, freqs, tableLog) ==
    FoldLeft(LAMBDA s, symbol : EncodeSymbol(s, symbol, spread, freqs, tableLog),
             [state |-> 2^tableLog, queue |-> <<>>], Reverse(symbols))

\* LSBBitWriter
WriteBits(w, bits, nb) ==
    LET filled == w.filled + nb
        buf == w.buf + bits * 2^w.filled
        out == filled \div C IN
    [bytes |-> w.bytes \o [k \in 1 .. out |-> (buf \div 2^(C * (k - 1))) % 2^C],
     filled |-> filled % C, buf |-> buf \div 2^(C * out)]

Flush(w) == IF w.filled > 0 THEN Append(w.bytes, w.buf) ELSE w.bytes

Payload(queue) ==
    Flush(FoldLeft(LAMBDA w, q : WriteBits(w, q.bits, q.nb),
                   [bytes |-> <<>>, filled |-> 0, buf |-> 0], queue))

NoRows == [n |-> 0, tableLog |-> 0, symbols |-> <<>>, freqs |-> <<>>, state |-> 0, bytes |-> <<>>]

Stream(d, syms, freqs, tableLog, coded) ==
    [n |-> Len(d), tableLog |-> tableLog, symbols |-> syms,
     freqs |-> [k \in DOMAIN freqs |-> freqs[k] % 2^FreqBits],
     state |-> coded.state, bytes |-> Payload(coded.queue)]

Encode(d) ==
    LET syms == SetToSortSeq(ToSet(d), <)
        tableLog == ChooseTableLog(Len(syms))
        Raw(k) == Cardinality({i \in DOMAIN d : d[i] = syms[k]})
        freqs == NormalizeFreqs([k \in DOMAIN syms |-> Raw(k)], 2^tableLog)
        symbols == [i \in DOMAIN d |-> SelectInSeq(syms, LAMBDA v : v = d[i])]
    IN  Stream(d, syms, freqs, tableLog,
               EncodeSymbols(symbols, BuildSpread(freqs, 2^tableLog), freqs, tableLog))

\* A column of more symbols than the table has slots is an error of encode.
Encodings(d) ==
    IF d = <<>> THEN {NoRows}
    ELSE {Encode(d) : x \in {x \in {Cardinality(ToSet(d))} : x <= 2^ChooseTableLog(x)}}

-----------------------------------------------------------------------------
(* Decoding *)

\* LSBBitReader
Refill(bytes, r) ==
    FoldLeft(LAMBDA s, k :
                IF s.avail > Accumulator - C \/ s.byte >= Len(bytes) THEN s
                ELSE [byte |-> s.byte + 1, buf |-> s.buf + bytes[s.byte + 1] * 2^s.avail,
                      avail |-> s.avail + C],
             r, [k \in 1 .. Accumulator \div C |-> k])

\* The bits of one state change, if they are there and the state is one.
Advance(s, reader, entry, symbol) ==
    IF reader.avail < entry.nbBits THEN [s EXCEPT !.answer = Threw]
    ELSE [answer |-> Then(s.answer, Rows(<<symbol>>)),
          state |-> entry.newState + (reader.buf % 2^entry.nbBits),
          reader |-> [reader EXCEPT !.buf = @ \div 2^entry.nbBits, !.avail = @ - entry.nbBits]]

DecodeSymbol(e, table, s) ==
    LET L == 2^e.tableLog IN
    IF s.answer = Threw \/ s.state \notin L .. 2 * L - 1 THEN [s EXCEPT !.answer = Threw]
    ELSE LET entry == table[s.state - L] IN
         Advance(s, IF s.reader.avail < entry.nbBits THEN Refill(e.bytes, s.reader) ELSE s.reader,
                 entry, e.symbols[entry.symbol])

RunDecodeLoop(e, table, count) ==
    FoldLeft(LAMBDA s, k : DecodeSymbol(e, table, s),
             [answer |-> Rows(<<>>), state |-> e.state,
              reader |-> [byte |-> 0, buf |-> 0, avail |-> 0]],
             [k \in 1 .. count |-> k]).answer

TableOf(e) == BuildDecodeTable(BuildSpread(e.freqs, 2^e.tableLog), e.freqs, e.tableLog)

Valid(e) ==
    /\ e.tableLog \in MinTableLog .. MaxTableLog
    /\ e.symbols # <<>> /\ \A k \in DOMAIN e.freqs : e.freqs[k] # 0
    /\ Total(e.freqs) = 2^e.tableLog
    /\ e.state \in 2^e.tableLog .. 2^(e.tableLog + 1) - 1

DecodeAll(e) ==
    CASE e.n = 0                -> Rows(<<>>)
      [] e.n > 0 /\ ~Valid(e)   -> Threw
      [] e.n > 0 /\ Valid(e)    -> RunDecodeLoop(e, TableOf(e), e.n)

RowOf(all, i) ==
    CASE all.kind = "threw"        -> Threw
      [] i >= Len(all.rows)        -> Nullopt
      [] OTHER                     -> Rows(<<all.rows[i + 1]>>)

RowsWithin(all, start, end) ==
    IF all.kind = "threw" THEN Threw ELSE Rows(Slice(all.rows, start, end))

DecodeAt(e, i) == RowOf(DecodeAll(e), i)

DecodeRange(e, start, end) == RowsWithin(DecodeAll(e), start, end)

Answer(e, c, n) ==
    LET InRange(s, t) == DecodeRange(e, s, t)
        Into(s, t, m) == DefaultRangeInto(InRange, s, t, m)
    IN  Dispatch(DecodeAll(e), LAMBDA m : SizedInto(DecodeAll(e), m), LAMBDA i : DecodeAt(e, i),
                 InRange, Into, LAMBDA rs, m : DefaultGather(Into, rs, m), c, n)

-----------------------------------------------------------------------------
(* BlockFSEEncoder *)

BlockEncodings(d) ==
    {[n |-> Len(d), blockSize |-> size,
      blocks |-> [b \in DOMAIN Blocks(d, size) |-> Encode(Blocks(d, size)[b])]] :
        size \in IF d = <<>> THEN {1} ELSE BlockSizes}

\* What the decode table of the block before is kept by: fnv64 of the symbol
\* table, taken to differ where the symbol tables do.
CacheKey(block) ==
    [tableLog |-> block.tableLog, numSymbols |-> Len(block.symbols),
     symTableHash |-> <<block.symbols, block.freqs>>]

\* The block whose table serves block b of a call that began with block `first`:
\* the first of the blocks up to b that share its key.
Builder(e, first, b) ==
    Min({c \in first .. b : \A k \in c .. b : CacheKey(e.blocks[k + 1]) = CacheKey(e.blocks[b + 1])})

\* decodeBlockInto: the first rows of a block; after an error rows are missing.
DecodeBlock(e, first, b, count) ==
    IF ~Valid(e.blocks[b + 1]) THEN <<>>
    ELSE RunDecodeLoop(e.blocks[b + 1], TableOf(e.blocks[Builder(e, first, b) + 1]), count).rows

\* From its first row on a block is decoded in place, else into scratch memory.
BlockPart(e, first, b, from, to) ==
    IF from = 0 THEN DecodeBlock(e, first, b, to)
    ELSE Slice(DecodeBlock(e, first, b, e.blocks[b + 1].n), from, to)

RowsFrom(e, start, end, n) ==
    OverBlocks(e.blockSize, e.n, start, end, n,
               LAMBDA b, from, to : BlockPart(e, start \div e.blockSize, b, from, to))

BlockAllInto(e, n) ==
    IF e.n = 0 \/ n = 0 THEN Rows(Padded(<<>>, n))
    ELSE Rows(Padded(RowsFrom(e, 0, e.n, Lesser(n, e.n)), n))

BlockAll(e) == IF e.n = 0 THEN Rows(<<>>) ELSE BlockAllInto(e, e.n)

BlockAt(e, i) ==
    IF i >= e.n THEN Nullopt
    ELSE LET b == i \div e.blockSize IN
         Rows(<<DecodeBlock(e, b, b, e.blocks[b + 1].n)[(i % e.blockSize) + 1]>>)

BlockRangeInto(e, start, end, n) ==
    LET stop == Lesser(end, e.n) IN
    IF start >= stop \/ n = 0 THEN Rows(Padded(<<>>, n))
    ELSE Rows(Padded(RowsFrom(e, start, stop, n), n))

BlockRange(e, start, end) ==
    LET stop == Lesser(end, e.n) IN
    IF start >= stop THEN Rows(<<>>) ELSE BlockRangeInto(e, start, stop, stop - start)

BlockAnswer(e, c, n) ==
    LET Into(s, t, m) == BlockRangeInto(e, s, t, m) IN
    Dispatch(BlockAll(e), LAMBDA m : BlockAllInto(e, m), LAMBDA i : BlockAt(e, i),
             LAMBDA s, t : BlockRange(e, s, t), Into,
             LAMBDA rs, m : DefaultGather(Into, rs, m), c, n)
=============================================================================

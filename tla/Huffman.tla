------------------------------ MODULE Huffman ------------------------------
(***************************************************************************)
(* HuffmanEncoder (src/Source/encoders/HuffmanEncoder.hpp): canonical      *)
(* codes, most significant bit first, read by a table of the short codes   *)
(* and bit by bit.  Bits that were written out or consumed are dropped     *)
(* from a buffer here; in the code they stay above those that count.       *)
(***************************************************************************)
EXTENDS CodecContract, FiniteSetsExt

CONSTANTS
    C,            \* bits of a byte (8)
    Accumulator,  \* bits of the reader's buffer (64)
    MaxFastBits,  \* kMaxFastBits (12)
    MaxCodeBits   \* kMaxCodeBits (24): a longer code is an error of encode

-----------------------------------------------------------------------------
(* buildCanonical *)

\* A tree is its frequency and the depth of each of its symbols.
Leaf(d, sym) ==
    [freq |-> Cardinality({i \in DOMAIN d : d[i] = sym}), depth |-> [s \in {sym} |-> 0]]

Joined(a, b) ==
    [freq |-> a.freq + b.freq,
     depth |-> [s \in DOMAIN a.depth \cup DOMAIN b.depth |->
                   1 + IF s \in DOMAIN a.depth THEN a.depth[s] ELSE b.depth[s]]]

\* The tops of the queue: which of several trees of one frequency comes first
\* depends on the hash map and the heap.
Tops(forest) == {a \in forest : \A b \in forest : a.freq <= b.freq}

Merged(forest) ==
    UNION {{(forest \ {a, b}) \cup {Joined(a, b)} : b \in Tops(forest \ {a})} : a \in Tops(forest)}

Trees(d) ==
    LET leaves == {Leaf(d, sym) : sym \in ToSet(d)} IN
    UNION FoldLeft(LAMBDA forests, k : UNION {Merged(f) : f \in forests}, {leaves},
                   [k \in 1 .. Cardinality(leaves) - 1 |-> k])

\* Shorter codes first, then by symbol; a lone symbol has a code of one bit.
SymLens(tree) ==
    SetToSortSeq({[sym |-> s, len |-> Greater(tree.depth[s], 1)] : s \in DOMAIN tree.depth},
                 LAMBDA a, b : a.len < b.len \/ (a.len = b.len /\ a.sym < b.sym))

\* Each code is the one before it and 1, shifted where codes get longer.
Coded(symLens) ==
    FoldLeft(LAMBDA entries, e :
                LET code == IF entries = <<>> THEN 0
                            ELSE (Last(entries).code + 1) * 2^(e.len - Last(entries).len) IN
                Append(entries, [sym |-> e.sym, len |-> e.len, code |-> code]),
             <<>>, symLens)

-----------------------------------------------------------------------------
(* BitWriter and encode *)

WriteCode(w, entry) ==
    LET filled == w.filled + entry.len
        buf == w.buf * 2^entry.len + entry.code
        out == filled \div C IN
    [bytes |-> w.bytes \o [k \in 1 .. out |-> (buf \div 2^(filled - C * k)) % 2^C],
     filled |-> filled % C,
     buf |-> buf % 2^(filled % C)]

Flush(w) ==
    IF w.filled > 0 THEN Append(w.bytes, (w.buf * 2^(C - w.filled)) % 2^C) ELSE w.bytes

EntryOf(entries, sym) == entries[CHOOSE k \in DOMAIN entries : entries[k].sym = sym]

Payload(d, entries) ==
    Flush(FoldLeft(LAMBDA w, sym : WriteCode(w, EntryOf(entries, sym)),
                   [bytes |-> <<>>, filled |-> 0, buf |-> 0], d))

Encodings(d) ==
    IF d = <<>> THEN {[n |-> 0, symbols |-> <<>>, bytes |-> <<>>]}
    ELSE {[n |-> Len(d), symbols |-> s, bytes |-> Payload(d, Coded(s))] :
             s \in {s \in {SymLens(tree) : tree \in Trees(d)} : Last(s).len <= MaxCodeBits}}

-----------------------------------------------------------------------------
(* BitReader *)

Refill(bytes, r) ==
    FoldLeft(LAMBDA s, k :
                IF s.avail > Accumulator - C \/ s.byte >= Len(bytes) THEN s
                ELSE [byte |-> s.byte + 1, buf |-> s.buf * 2^C + bytes[s.byte + 1],
                      avail |-> s.avail + C],
             r, [k \in 1 .. Accumulator \div C |-> k])

Peek(r, n) == (r.buf \div 2^(r.avail - n)) % 2^n

Consume(r, n) == [r EXCEPT !.avail = @ - n, !.buf = @ % 2^(r.avail - n)]

-----------------------------------------------------------------------------
(* decodeOneSymbol *)

SlowPathLen == 0

\* The symbol of every slot that begins with its code.
FastTable(entries) ==
    [slot \in 0 .. 2^MaxFastBits - 1 |->
        LET at == {k \in DOMAIN entries :
                      /\ entries[k].len <= MaxFastBits
                      /\ slot \div 2^(MaxFastBits - entries[k].len) = entries[k].code}
        IN  IF at = {} THEN [sym |-> Junk, len |-> SlowPathLen]
            ELSE [sym |-> entries[Max(at)].sym, len |-> entries[Max(at)].len]]

Tables(entries) ==
    [fast |-> FastTable(entries),
     slow |-> {entries[k] : k \in {k \in DOMAIN entries : entries[k].len > MaxFastBits}},
     maxCodeLen |-> Last(entries).len]

\* The symbols whose code the bits are, if there is one.
Matches(tables, code, len) ==
    IF len > MaxFastBits
    THEN {e.sym : e \in {e \in tables.slow : e.len = len /\ e.code = code}}
    ELSE LET fe == tables.fast[code * 2^(MaxFastBits - len)] IN
         IF fe.len = len THEN {fe.sym} ELSE {}

\* One more bit of a code.  Out of bits, or past the longest code, none is found.
NextBit(bytes, tables, s) ==
    LET reader == IF s.reader.avail = 0 THEN Refill(bytes, s.reader) ELSE s.reader
        code == 2 * s.code + Peek(reader, 1)
    IN  IF s.found # {} \/ s.len > tables.maxCodeLen \/ reader.avail = 0 THEN s
        ELSE [reader |-> Consume(reader, 1), code |-> code, len |-> s.len + 1,
              found |-> Matches(tables, code, s.len + 1)]

BitByBit(bytes, tables, reader, code, len) ==
    FoldLeft(LAMBDA s, k : NextBit(bytes, tables, s),
             [reader |-> reader, code |-> code, len |-> len, found |-> {}],
             [k \in 1 .. tables.maxCodeLen + 1 - len |-> k])

\* A code of the table at once; one that is longer, and those of the last bits,
\* bit by bit.
DecodeOneSymbol(bytes, tables, reader) ==
    LET r == Refill(bytes, reader) IN
    IF r.avail < MaxFastBits THEN BitByBit(bytes, tables, r, 0, 0)
    ELSE LET slot == Peek(r, MaxFastBits)
             fe == tables.fast[slot]
         IN  IF fe.len # SlowPathLen
             THEN [reader |-> Consume(r, fe.len), code |-> slot, len |-> fe.len,
                   found |-> {fe.sym}]
             ELSE BitByBit(bytes, tables, Consume(r, MaxFastBits), slot, MaxFastBits)

Onto(answer, found) == IF found = {} THEN Threw ELSE Then(answer, Rows(SetToSeq(found)))

\* decodeAll, with the tables.
Symbols(e, tables) ==
    FoldLeft(LAMBDA s, k :
                LET one == DecodeOneSymbol(e.bytes, tables, s.reader) IN
                [reader |-> one.reader, answer |-> Onto(s.answer, one.found)],
             [reader |-> [byte |-> 0, buf |-> 0, avail |-> 0], answer |-> Rows(<<>>)],
             [k \in 1 .. e.n |-> k]).answer

DecodeAll(e) == IF e.n = 0 THEN Rows(<<>>) ELSE Symbols(e, Tables(Coded(e.symbols)))

\* decodeAt and decodeRange decode the whole column.
DecodeAt(all, i) ==
    CASE all.kind = "threw" -> Threw
      [] all.kind = "rows" /\ i >= Len(all.rows) -> Nullopt
      [] OTHER -> Rows(<<all.rows[i + 1]>>)

DecodeRange(all, start, end) ==
    IF start < end /\ all.kind = "threw" THEN Threw
    ELSE Rows(IF start < end THEN Slice(all.rows, start, end) ELSE <<>>)

AnswerFrom(all, c, n) ==
    LET InRange(s, t) == DecodeRange(all, s, t)
        Into(s, t, m) == DefaultRangeInto(InRange, s, t, m)
    IN  Dispatch(all, LAMBDA m : SizedInto(all, m), LAMBDA i : DecodeAt(all, i),
                 InRange, Into, LAMBDA rs, m : DefaultGather(Into, rs, m), c, n)

Answer(e, c, n) == AnswerFrom(DecodeAll(e), c, n)
=============================================================================

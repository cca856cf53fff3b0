---------------------- MODULE SubIntSplitDecodeProofs ----------------------
(***************************************************************************)
(* Proofs about SubIntSplitDecode, for every number of rows, sections and  *)
(* threads, every chunk size and every set of requests:                    *)
(*   - every variable keeps its type;                                      *)
(*   - no task uses a freed buffer, none outlives its call, codecs and     *)
(*     accumulation never overlap, and no two accumulation tasks share a   *)
(*     chunk;                                                              *)
(*   - a range reported done has been delivered exactly;                   *)
(*   - a predecode that failed stored nothing, and the entry points        *)
(*     implement the contract, Decoder, for every request that fits.       *)
(* All follow from the inductive invariant IInv, the last two with what is *)
(* known of the destination (FreshInv, DeliveredInv).  Its arithmetic      *)
(* (spans of chunks are disjoint and cover the range) is in the lemmas     *)
(* that come first; the steps of the machine only cite them.               *)
(***************************************************************************)
EXTENDS SubIntSplitDecode, Induction

-----------------------------------------------------------------------------
(* Arithmetic.                                                             *)

\* Division brackets the dividend.
LEMMA DivBounds ==
    ASSUME NEW a \in Nat, NEW b \in Nat \ {0}
    PROVE  /\ a \div b \in Nat
           /\ (a \div b) * b <= a
           /\ a < (a \div b) * b + b
  OBVIOUS

\* CeilDiv rounds up: enough groups of b, and not one too many.
LEMMA CeilDivBounds ==
    ASSUME NEW a \in Nat, NEW b \in Nat \ {0}
    PROVE  /\ CeilDiv(a, b) \in Nat
           /\ a <= CeilDiv(a, b) * b
           /\ a > 0 => CeilDiv(a, b) > 0
           /\ CeilDiv(a, b) * b < a + b
  <1>1. a + b - 1 \in Nat
    OBVIOUS
  <1>2. QED
    BY <1>1, DivBounds DEF CeilDiv

\* effectiveThreadCount allows one thread at least.
LEMMA ThreadCapPositive == ThreadCap \in Nat \ {0}
  BY SizesAssumption DEF ThreadCap

\* The partition of a non-empty range into chunks and threads is well formed.
LEMMA PartitionTypes ==
    ASSUME NEW n \in Nat \ {0}
    PROVE  /\ NumChunks(n) \in Nat \ {0}
           /\ EffectiveThreadCount(NumChunks(n)) \in Nat \ {0}
           /\ EffectiveThreadCount(NumChunks(n)) <= ThreadCap
           /\ ChunksPerThread(n) \in Nat \ {0}
           /\ NumChunks(n) <= ChunksPerThread(n) * EffectiveThreadCount(NumChunks(n))
  <1>1. NumChunks(n) \in Nat \ {0}
    BY CeilDivBounds, SizesAssumption DEF NumChunks
  <1>2. /\ EffectiveThreadCount(NumChunks(n)) \in Nat \ {0}
        /\ EffectiveThreadCount(NumChunks(n)) <= ThreadCap
    BY <1>1, ThreadCapPositive DEF EffectiveThreadCount, Least
  <1> DEFINE c == NumChunks(n)
             e == EffectiveThreadCount(NumChunks(n))
  <1>3. CeilDiv(c, e) \in Nat \ {0} /\ c <= CeilDiv(c, e) * e
    <2> HIDE DEF c, e
    <2>1. c \in Nat \ {0} /\ e \in Nat \ {0}
      BY <1>1, <1>2 DEF c, e
    <2>2. QED
      BY <2>1, CeilDivBounds
  <1>4. QED
    BY <1>1, <1>2, <1>3 DEF ChunksPerThread

\* The span of a thread lies within the chunks, and is empty only beyond them.
LEMMA SpanBounds ==
    ASSUME NEW n \in Nat \ {0}, NEW t \in Nat
    PROVE  /\ FirstChunk(t, n) \in Nat
           /\ LastChunk(t, n) \in Nat
           /\ LastChunk(t, n) <= NumChunks(n)
           /\ FirstChunk(t, n) < NumChunks(n) => FirstChunk(t, n) < LastChunk(t, n)
  <1>1. FirstChunk(t, n) \in Nat
    BY PartitionTypes DEF FirstChunk
  <1>2. /\ NumChunks(n) \in Nat /\ ChunksPerThread(n) \in Nat \ {0}
        /\ FirstChunk(t, n) + ChunksPerThread(n) \in Nat
    BY <1>1, PartitionTypes
  <1>3. QED
    BY <1>1, <1>2 DEF LastChunk, Least

\* The span of a thread ends before that of any later thread begins.
LEMMA SpansOrdered ==
    ASSUME NEW n \in Nat \ {0}, NEW t \in Nat, NEW u \in Nat, t < u
    PROVE  /\ LastChunk(t, n) <= FirstChunk(u, n)
           /\ FirstChunk(t, n) <= FirstChunk(u, n)
  <1> DEFINE p == ChunksPerThread(n)
  <1>1. p \in Nat
    BY PartitionTypes
  <1>2. t * p + p <= u * p
    <2>1. (t + 1) * p <= u * p
      BY <1>1
    <2>2. (t + 1) * p = t * p + p
      BY <1>1
    <2>3. QED
      BY <2>1, <2>2
  <1>3. LastChunk(t, n) <= t * p + p
    <2>1. NumChunks(n) \in Nat /\ t * p \in Nat
      BY <1>1, PartitionTypes
    <2>2. QED
      BY <1>1, <2>1 DEF LastChunk, FirstChunk, Least
  <1>4. t * p \in Nat /\ u * p \in Nat /\ t * p <= u * p
    BY <1>1
  <1>5. LastChunk(t, n) \in Nat
    BY SpanBounds
  <1>6. QED
    BY <1>1, <1>2, <1>3, <1>4, <1>5 DEF FirstChunk

\* Every chunk is in the span of a thread that is started.
LEMMA ThreadsCoverChunks ==
    ASSUME NEW n \in Nat \ {0}, NEW c \in Nat, c < NumChunks(n)
    PROVE  \E t \in 0..(EffectiveThreadCount(NumChunks(n)) - 1) :
               c \in FirstChunk(t, n)..(LastChunk(t, n) - 1)
  <1> DEFINE p == ChunksPerThread(n)
             e == EffectiveThreadCount(NumChunks(n))
             t == c \div p
  <1>1. /\ p \in Nat \ {0} /\ e \in Nat \ {0}
        /\ NumChunks(n) \in Nat /\ NumChunks(n) <= p * e
    BY PartitionTypes
  <1>2. t \in Nat /\ t * p <= c /\ c < t * p + p
    BY <1>1, DivBounds
  <1>3. t < e
    <2>1. SUFFICES ASSUME e <= t PROVE FALSE
      BY <1>1, <1>2
    <2>2. e * p <= t * p
      BY <1>1, <1>2, <2>1
    <2>3. QED
      BY <1>1, <1>2, <2>2
  <1>4. c \in FirstChunk(t, n)..(LastChunk(t, n) - 1)
    <2>1. FirstChunk(t, n) = t * p
      BY DEF FirstChunk
    <2>2. c < LastChunk(t, n)
      BY <1>1, <1>2, <2>1 DEF LastChunk, Least
    <2>3. LastChunk(t, n) \in Nat /\ FirstChunk(t, n) \in Nat
      BY <1>2, SpanBounds
    <2>4. QED
      BY <1>2, <2>1, <2>2, <2>3
  <1>5. QED
    BY <1>1, <1>2, <1>3, <1>4

\* Past the threads that are started there is no chunk.
LEMMA BeyondThreads ==
    ASSUME NEW n \in Nat \ {0}, NEW t \in Nat,
           EffectiveThreadCount(NumChunks(n)) <= t
    PROVE  NumChunks(n) <= FirstChunk(t, n)
  <1> DEFINE p == ChunksPerThread(n)
             e == EffectiveThreadCount(NumChunks(n))
  <1>1. /\ p \in Nat /\ e \in Nat /\ NumChunks(n) \in Nat
        /\ NumChunks(n) <= p * e
    BY PartitionTypes
  <1>2. e * p <= t * p /\ e * p = p * e /\ t * p \in Nat /\ p * e \in Nat
    BY <1>1
  <1>3. QED
    BY <1>1, <1>2 DEF FirstChunk

\* A chunk is made of offsets of the range.
LEMMA ChunkOffsetsInRange ==
    ASSUME NEW n \in Nat, NEW c \in Nat
    PROVE  ChunkOffsets(c, n) \subseteq 0..(n - 1)
  <1>1. c * ChunkSize \in Nat
    BY SizesAssumption
  <1>2. QED
    BY <1>1, SizesAssumption DEF ChunkOffsets, Least

\* No offset is in two chunks.
LEMMA ChunksDisjoint ==
    ASSUME NEW n \in Nat, NEW c \in Nat, NEW d \in Nat, c # d
    PROVE  ChunkOffsets(c, n) \cap ChunkOffsets(d, n) = {}
  <1>1. ASSUME NEW a \in Nat, NEW b \in Nat, a < b
        PROVE  a * ChunkSize + ChunkSize <= b * ChunkSize
    <2>1. (a + 1) * ChunkSize <= b * ChunkSize
      BY <1>1, SizesAssumption
    <2>2. (a + 1) * ChunkSize = a * ChunkSize + ChunkSize
      BY SizesAssumption
    <2>3. QED
      BY <2>1, <2>2
  <1>2. c * ChunkSize \in Nat /\ d * ChunkSize \in Nat
    BY SizesAssumption
  <1>3. CASE c < d
    BY <1>1, <1>2, <1>3, SizesAssumption DEF ChunkOffsets, Least
  <1>4. CASE d < c
    BY <1>1, <1>2, <1>4, SizesAssumption DEF ChunkOffsets, Least
  <1>5. QED
    BY <1>3, <1>4

\* Every offset of the range is in a chunk.
LEMMA ChunksCoverRange ==
    ASSUME NEW n \in Nat \ {0}, NEW i \in 0..(n - 1)
    PROVE  \E c \in 0..(NumChunks(n) - 1) : i \in ChunkOffsets(c, n)
  <1> DEFINE c == i \div ChunkSize
  <1>1. c \in Nat /\ c * ChunkSize <= i /\ i < c * ChunkSize + ChunkSize
    BY DivBounds, SizesAssumption
  <1>2. /\ NumChunks(n) \in Nat
        /\ n <= NumChunks(n) * ChunkSize
    BY CeilDivBounds, SizesAssumption DEF NumChunks
  <1>3. c < NumChunks(n)
    <2>1. SUFFICES ASSUME NumChunks(n) <= c PROVE FALSE
      BY <1>1, <1>2
    <2>2. NumChunks(n) * ChunkSize <= c * ChunkSize
      BY <1>1, <1>2, <2>1, SizesAssumption
    <2>3. QED
      BY <1>1, <1>2, <2>2, SizesAssumption
  <1>4. i \in ChunkOffsets(c, n)
    BY <1>1, SizesAssumption DEF ChunkOffsets, Least
  <1>5. QED
    BY <1>1, <1>2, <1>3, <1>4

-----------------------------------------------------------------------------
(* The invariant.                                                          *)

\* What depends only on the request and the memory keeps with them.
LEMMA StableRequest ==
    ASSUME req' = req
    PROVE  /\ Count' = Count
           /\ NThreads' = NThreads
           /\ \A s : Decoded(s)' = Decoded(s)
  BY DEF Count, NThreads, Decoded, Token

\* What a chunk holds depends only on the destination and the range.
LEMMA StableChunks ==
    ASSUME req' = req, dst' = dst
    PROVE  \A c, secs : ChunkHolds(c, secs)' = ChunkHolds(c, secs)
  BY DEF ChunkHolds, Count, Token

\* A decoded section is the content of a section buffer.
LEMMA DecodedType ==
    ASSUME TypeOK, NEW s \in Sections
    PROVE  Decoded(s) \in [Rows -> Cell]
  <1>1. Decoded(s) = [i \in Rows |-> IF i < Count THEN {<<s, req.start + i>>} ELSE {Junk}]
    BY DEF Decoded, Token
  <1>2. ASSUME NEW i \in Rows
        PROVE  (IF i < Count THEN {<<s, req.start + i>>} ELSE {Junk}) \in Cell
    <2>1. req.start + i \in Nat
      BY SizesAssumption DEF TypeOK, Rows
    <2>2. QED
      BY <2>1 DEF Cell
  <1>3. QED
    BY <1>1, <1>2

\* Combining a section into a chunk leaves a destination.
LEMMA CombinedType ==
    ASSUME TypeOK, Count \in Nat, Count <= N, NEW c \in Nat, NEW s \in Sections,
           NEW cells \in [Rows -> Cell]
    PROVE  Combined(dst, c, s, cells) \in [Slots -> Cell]
  <1>1. ASSUME NEW x \in Slots, x - req.off \in ChunkOffsets(c, Count)
        PROVE  x - req.off \in Rows
    BY <1>1, ChunkOffsetsInRange, SizesAssumption DEF Rows
  <1>2. ASSUME NEW x \in Slots
        PROVE  (IF x - req.off \in ChunkOffsets(c, Count)
                THEN cells[x - req.off] \cup (IF s = 0 THEN {} ELSE dst[x])
                ELSE dst[x]) \in Cell
    BY <1>1 DEF TypeOK, Cell
  <1>3. QED
    BY <1>2 DEF Combined

\* The range at hand is a range of a request that was made.
LEMMA RangeAtHand ==
    ASSUME TypeOK, idx <= Len(call.ranges)
    PROVE  /\ call.ranges[idx] \in RowRange
           /\ RangeSize(call.ranges[idx]) \in Nat
  <1>1. call # NoCall
    BY DEF TypeOK, NoCall
  <1>2. call.ranges \in Seq(RowRange)
    BY <1>1, RequestsAssumption DEF TypeOK
  <1>3. call.ranges[idx] \in RowRange
    BY <1>2 DEF TypeOK
  <1>4. QED
    BY <1>3 DEF RangeSize, RowRange

\* A range being decoded is partitioned as the arithmetic above says.
LEMMA RangeBeingDecoded ==
    ASSUME TypeOK, ReqInv, pc \in Decoding \cup {"rangeDone", "unwind"}
    PROVE  /\ Count \in Nat \ {0}
           /\ Count <= N
           /\ NThreads \in Nat \ {0}
           /\ \A t \in Nat : t < NThreads => t \in Threads
           /\ NumChunks(Count) \in Nat \ {0}
           /\ \A t \in Threads : FirstChunk(t, Count) \in Nat /\ LastChunk(t, Count) \in Nat
  <1>1. Count \in Nat \ {0} /\ Count <= N
    BY SizesAssumption DEF TypeOK, ReqInv, Count
  <1> HIDE DEF Count
  <1>2. /\ NThreads \in Nat \ {0} /\ NThreads <= ThreadCap
        /\ NumChunks(Count) \in Nat \ {0}
    BY <1>1, PartitionTypes DEF NThreads
  <1>3. \A t \in Threads : FirstChunk(t, Count) \in Nat /\ LastChunk(t, Count) \in Nat
    BY <1>1, SpanBounds, ThreadCapPositive DEF Threads
  <1>4. QED
    BY <1>1, <1>2, <1>3, ThreadCapPositive DEF Threads

\* Combining one more section into a chunk adds it there and nowhere else.
LEMMA CombineHolds ==
    ASSUME TypeOK, Count \in Nat, NEW c \in Nat, NEW s \in Sections, NEW cells,
           \A i \in 0..(Count - 1) : cells[i] = {Token(s, req.start + i)},
           dst' = Combined(dst, c, s, cells), req' = req
    PROVE  /\ s = 0 \/ ChunkHolds(c, 0..(s - 1)) => ChunkHolds(c, 0..s)'
           /\ \A d \in Nat : \A secs : d # c /\ ChunkHolds(d, secs) => ChunkHolds(d, secs)'
  <1>1. Count' = Count
    BY DEF Count
  <1>2. ASSUME NEW d \in Nat, NEW i \in ChunkOffsets(d, Count), req.off + i \in Slots
        PROVE  /\ i \in 0..(Count - 1)
               /\ (req.off + i) - req.off = i
               /\ dst'[req.off + i] = IF i \in ChunkOffsets(c, Count)
                                      THEN cells[i] \cup (IF s = 0 THEN {} ELSE dst[req.off + i])
                                      ELSE dst[req.off + i]
    <2>1. i \in 0..(Count - 1)
      BY ChunkOffsetsInRange
    <2>2. (req.off + i) - req.off = i
      BY <2>1 DEF TypeOK
    <2>3. QED
      BY <1>2, <2>1, <2>2 DEF Combined
  <1>3. ASSUME s = 0 \/ ChunkHolds(c, 0..(s - 1))
        PROVE  ChunkHolds(c, 0..s)'
    <2> SUFFICES ASSUME NEW i \in ChunkOffsets(c, Count), req.off + i \in Slots
                 PROVE  dst'[req.off + i] = {Token(q, req.start + i) : q \in 0..s}
      BY <1>1 DEF ChunkHolds
    <2>1. dst'[req.off + i] = {Token(s, req.start + i)}
                              \cup (IF s = 0 THEN {} ELSE dst[req.off + i])
      BY <1>2
    <2>2. CASE s = 0
      BY <2>1, <2>2
    <2>3. CASE s # 0
      <3>1. dst[req.off + i] = {Token(q, req.start + i) : q \in 0..(s - 1)}
        BY <1>3, <2>3 DEF ChunkHolds
      <3>2. 0..s = 0..(s - 1) \cup {s}
        BY SizesAssumption DEF Sections
      <3>3. QED
        BY <2>1, <2>3, <3>1, <3>2
    <2>4. QED
      BY <2>2, <2>3
  <1>4. ASSUME NEW d \in Nat, NEW secs, d # c, ChunkHolds(d, secs)
        PROVE  ChunkHolds(d, secs)'
    <2> SUFFICES ASSUME NEW i \in ChunkOffsets(d, Count), req.off + i \in Slots
                 PROVE  dst'[req.off + i] = {Token(q, req.start + i) : q \in secs}
      BY <1>1 DEF ChunkHolds
    <2>1. i \notin ChunkOffsets(c, Count)
      BY <1>4, ChunksDisjoint
    <2>2. QED
      BY <1>2, <1>4, <2>1 DEF ChunkHolds
  <1>5. QED
    BY <1>3, <1>4

\* Once every chunk of the range holds every section, so does every row.
LEMMA ChunksMakeTheRange ==
    ASSUME TypeOK, Count \in Nat \ {0},
           \A c \in 0..(NumChunks(Count) - 1) : ChunkHolds(c, Sections)
    PROVE  \A i \in 0..(Count - 1) :
              req.off + i \in Slots => dst[req.off + i] = RowTokens(req.start + i)
  BY ChunksCoverRange DEF ChunkHolds, RowTokens

\* The inductive invariant holds before the first call.
THEOREM InitInvariant == Init => IInv
  <1> SUFFICES ASSUME Init PROVE IInv
    OBVIOUS
  <1>1. TypeOK
    BY SizesAssumption DEF Init, TypeOK, PCs, TaskState, Cell, NoReq, NoTask, NoBuffer
  <1>2. QED
    BY <1>1 DEF Init, IInv, ReqInv, SectionInv, BufferInv, ChunkTaskInv, CursorInv,
                ProgressInv, SequentialInv, RangeExact, Decoding, Running,
                Combining, NoTask

\* Steps of the caller and of the tasks.

\* A call starts on a fresh destination with nothing allocated and no task.
LEMMA CallInvariant ==
    ASSUME IInv, NEW q \in Requests, Call(q)
    PROVE  IInv'
  <1>1. TypeOK'
    <2>1. dst' \in [Slots -> Cell]
      BY DEF Call, Fill, Cell
    <2>2. req' \in [start : Nat, end : Nat, off : Nat]
      BY DEF Call, NoReq
    <2>3. QED
      BY <2>1, <2>2 DEF IInv, TypeOK, Call, callVars, taskVars, PCs
  <1>2. ReqInv'
    BY DEF IInv, TypeOK, Call, taskVars, callVars, ReqInv, Decoding
  <1>3. SectionInv'
    BY DEF IInv, TypeOK, Call, taskVars, callVars, SectionInv, ReqInv,
        Decoding, Running, Sections
  <1>4. BufferInv'
    BY StableRequest
       DEF IInv, TypeOK, Call, taskVars, callVars, BufferInv, SectionInv,
        Decoding
  <1>5. ChunkTaskInv'
    BY StableRequest
       DEF IInv, TypeOK, Call, taskVars, callVars, ChunkTaskInv, SectionInv,
        Combining, Running
  <1>6. CursorInv'
    BY StableRequest
       DEF IInv, TypeOK, Call, taskVars, callVars, CursorInv, Combining,
        ChunkTaskInv
  <1>7. ProgressInv'
    BY StableRequest, StableChunks
       DEF IInv, TypeOK, Call, taskVars, callVars, ProgressInv, ChunkTaskInv,
        Combining
  <1>8. SequentialInv'
    BY StableRequest, StableChunks
       DEF IInv, TypeOK, Call, taskVars, callVars, SequentialInv
  <1>9. RangeExact'
    BY DEF IInv, TypeOK, Call, taskVars, callVars, RangeExact
  <1>10. QED
    BY <1>1, <1>2, <1>3, <1>4, <1>5, <1>6, <1>7, <1>8, <1>9 DEF IInv

\* Clamping makes the range at hand a non-empty range of rows.
LEMMA EnterRangeInvariant ==
    ASSUME IInv, EnterRange
    PROVE  IInv'
  <1>1. TypeOK'
    <2>1. call.ranges[idx] \in RowRange
      BY RangeAtHand DEF IInv, EnterRange
    <2>2. req' \in [start : Nat, end : Nat, off : Nat]
      BY <2>1, SizesAssumption DEF IInv, TypeOK, EnterRange, RowRange, Least
    <2>3. QED
      BY <2>1, <2>2 DEF IInv, TypeOK, EnterRange, callVars, taskVars, PCs
  <1>2. ReqInv'
    <2> DEFINE b == call.ranges[idx].begin
               e == call.ranges[idx].end
    <2>1. b \in Nat /\ e \in Nat /\ b < N /\ b < e
      BY RangeAtHand DEF IInv, EnterRange, RowRange
    <2>2. req' = [req EXCEPT !.start = b, !.end = Least(e, N)]
      BY DEF EnterRange
    <2>3. req'.start = b /\ req'.end = Least(e, N)
      BY <2>2 DEF IInv, TypeOK
    <2>4. b < Least(e, N) /\ Least(e, N) <= N
      BY <2>1, SizesAssumption DEF Least
    <2>5. idx' <= Len(call'.ranges)
      BY DEF EnterRange
    <2>6. QED
      BY <2>3, <2>4, <2>5 DEF ReqInv
  <1>3. SectionInv'
    <2>1. 0 \in Sections /\ 0..(0 - 1) = {}
      BY SizesAssumption DEF Sections
    <2>2. live = {} /\ \A s \in Sections : secTask[s] = "none"
      BY DEF IInv, SectionInv, EnterRange
    <2>3. QED
      BY <2>1, <2>2 DEF EnterRange, taskVars, SectionInv, Running, Sections
  <1>4. BufferInv'
    BY StableRequest
       DEF IInv, TypeOK, EnterRange, taskVars, callVars, BufferInv,
        SectionInv, Decoding
  <1>5. ChunkTaskInv'
    BY StableRequest
       DEF IInv, TypeOK, EnterRange, taskVars, callVars, ChunkTaskInv,
        SectionInv, Combining, Running
  <1>6. CursorInv'
    BY StableRequest
       DEF IInv, TypeOK, EnterRange, taskVars, callVars, CursorInv, Combining,
        ChunkTaskInv
  <1>7. ProgressInv'
    BY StableRequest, StableChunks
       DEF IInv, TypeOK, EnterRange, taskVars, callVars, ProgressInv,
        ChunkTaskInv, Combining
  <1>8. SequentialInv'
    BY SizesAssumption DEF EnterRange, SequentialInv, Sections
  <1>9. RangeExact'
    BY DEF IInv, TypeOK, EnterRange, taskVars, callVars, RangeExact
  <1>10. QED
    BY <1>1, <1>2, <1>3, <1>4, <1>5, <1>6, <1>7, <1>8, <1>9 DEF IInv

\* decodeAt delivers its row, or leaves the destination alone and throws.
LEMMA DecodeAtInvariant ==
    ASSUME IInv, DecodeAt
    PROVE  IInv'
  <1>1. TypeOK'
    <2>1. call.ranges[idx] \in RowRange
      BY RangeAtHand DEF IInv, DecodeAt
    <2>2. req' \in [start : Nat, end : Nat, off : Nat]
      BY <2>1 DEF IInv, TypeOK, DecodeAt, RowRange
    <2>3. RowTokens(call.ranges[idx].begin) \in Cell
      BY <2>1 DEF RowTokens, Token, Cell, RowRange
    <2>4. dst' \in [Slots -> Cell]
      BY <2>3 DEF IInv, TypeOK, DecodeAt
    <2>5. QED
      BY <2>1, <2>2, <2>3, <2>4 DEF IInv, TypeOK, DecodeAt, callVars, taskVars, PCs
  <1>2. ReqInv'
    <2> DEFINE b == call.ranges[idx].begin
    <2>1. b \in Nat /\ b < N /\ call.ranges[idx].end = b + 1
      BY RangeAtHand DEF IInv, DecodeAt, RowRange
    <2>2. req' = [req EXCEPT !.start = b, !.end = b + 1]
      BY <2>1 DEF DecodeAt
    <2>3. req'.start = b /\ req'.end = b + 1
      BY <2>2 DEF IInv, TypeOK
    <2>4. b < b + 1 /\ b + 1 <= N
      BY <2>1, SizesAssumption
    <2>5. idx' <= Len(call'.ranges)
      BY DEF DecodeAt
    <2>6. QED
      BY <2>3, <2>4, <2>5 DEF ReqInv
  <1>3. SectionInv'
    BY DEF IInv, TypeOK, DecodeAt, taskVars, callVars, SectionInv, ReqInv,
        Decoding, Running, Sections
  <1>4. BufferInv'
    BY StableRequest
       DEF IInv, TypeOK, DecodeAt, taskVars, callVars, BufferInv, SectionInv,
        Decoding
  <1>5. ChunkTaskInv'
    BY StableRequest
       DEF IInv, TypeOK, DecodeAt, taskVars, callVars, ChunkTaskInv,
        SectionInv, Combining, Running
  <1>6. CursorInv'
    BY StableRequest
       DEF IInv, TypeOK, DecodeAt, taskVars, callVars, CursorInv, Combining,
        ChunkTaskInv
  <1>7. ProgressInv'
    BY StableRequest, StableChunks
       DEF IInv, TypeOK, DecodeAt, taskVars, callVars, ProgressInv,
        ChunkTaskInv, Combining
  <1>8. SequentialInv'
    BY StableRequest, StableChunks
       DEF IInv, TypeOK, DecodeAt, taskVars, callVars, SequentialInv
  <1>9. RangeExact'
    <2> DEFINE b == call.ranges[idx].begin
    <2>1. call.ranges[idx] \in RowRange
      BY RangeAtHand DEF IInv, DecodeAt
    <2>2. /\ req' = [req EXCEPT !.start = b, !.end = b + 1]
          /\ b \in Nat /\ req \in [start : Nat, end : Nat, off : Nat]
      BY <2>1 DEF IInv, TypeOK, DecodeAt, RowRange
    <2>3. Count' = 1 /\ req'.off = req.off /\ req'.start = b
      BY <2>2 DEF Count
    <2>4. ASSUME pc' = "rangeDone", req.off \in Slots
          PROVE  dst'[req.off] = RowTokens(b)
      BY <2>4 DEF IInv, TypeOK, DecodeAt
    <2>5. \A i \in 0..(Count' - 1) : i = 0 /\ req.off + i = req.off /\ b + i = b
      BY <2>2, <2>3
    <2>6. QED
      BY <2>3, <2>4, <2>5 DEF RangeExact
  <1>10. QED
    BY <1>1, <1>2, <1>3, <1>4, <1>5, <1>6, <1>7, <1>8, <1>9 DEF IInv

\* Skipping an empty range only moves the output offset.
LEMMA SkipRangeInvariant ==
    ASSUME IInv, SkipRange
    PROVE  IInv'
  <1>1. TypeOK'
    <2>1. RangeSize(call.ranges[idx]) \in Nat
      BY RangeAtHand DEF IInv, SkipRange
    <2>2. req' = [req EXCEPT !.off = @ + RangeSize(call.ranges[idx])]
      BY DEF SkipRange
    <2>3. req' \in [start : Nat, end : Nat, off : Nat]
      BY <2>1, <2>2 DEF IInv, TypeOK
    <2>4. idx' \in Nat \ {0}
      BY DEF IInv, TypeOK, SkipRange
    <2>5. QED
      BY <2>1, <2>2, <2>3, <2>4 DEF IInv, TypeOK, SkipRange, callVars, taskVars, PCs
  <1>2. ReqInv'
    BY DEF IInv, TypeOK, SkipRange, taskVars, callVars, ReqInv, Decoding
  <1>3. SectionInv'
    BY DEF IInv, TypeOK, SkipRange, taskVars, callVars, SectionInv, ReqInv,
        Decoding, Running, Sections
  <1>4. BufferInv'
    BY StableRequest
       DEF IInv, TypeOK, SkipRange, taskVars, callVars, BufferInv, SectionInv,
        Decoding
  <1>5. ChunkTaskInv'
    BY StableRequest
       DEF IInv, TypeOK, SkipRange, taskVars, callVars, ChunkTaskInv,
        SectionInv, Combining, Running
  <1>6. CursorInv'
    BY StableRequest
       DEF IInv, TypeOK, SkipRange, taskVars, callVars, CursorInv, Combining,
        ChunkTaskInv
  <1>7. ProgressInv'
    BY StableRequest, StableChunks
       DEF IInv, TypeOK, SkipRange, taskVars, callVars, ProgressInv,
        ChunkTaskInv, Combining
  <1>8. SequentialInv'
    BY StableRequest, StableChunks
       DEF IInv, TypeOK, SkipRange, taskVars, callVars, SequentialInv
  <1>9. RangeExact'
    BY DEF IInv, TypeOK, SkipRange, taskVars, callVars, RangeExact
  <1>10. QED
    BY <1>1, <1>2, <1>3, <1>4, <1>5, <1>6, <1>7, <1>8, <1>9 DEF IInv

\* When a range is done no task is left that could use the buffers freed.
LEMMA RangeDoneInvariant ==
    ASSUME IInv, RangeDone
    PROVE  IInv'
  <1>1. TypeOK'
    <2>1. RangeSize(call.ranges[idx]) \in Nat
      BY RangeAtHand DEF IInv, RangeDone, ReqInv
    <2>2. pre' \in [Sections -> [Rows -> Cell]]
      BY DEF RangeDone, NoBuffer, Cell
    <2>3. QED
      BY <2>1, <2>2 DEF IInv, TypeOK, RangeDone, callVars, taskVars, PCs
  <1>2. ReqInv'
    BY DEF IInv, TypeOK, RangeDone, taskVars, callVars, ReqInv, Decoding
  <1>3. SectionInv'
    BY DEF IInv, TypeOK, RangeDone, taskVars, callVars, SectionInv, ReqInv,
        Decoding, Running, Sections
  <1>4. BufferInv'
    BY StableRequest
       DEF IInv, TypeOK, RangeDone, taskVars, callVars, BufferInv, SectionInv,
        Decoding
  <1>5. ChunkTaskInv'
    BY StableRequest
       DEF IInv, TypeOK, RangeDone, taskVars, callVars, ChunkTaskInv,
        SectionInv, Combining, Running
  <1>6. CursorInv'
    BY StableRequest
       DEF IInv, TypeOK, RangeDone, taskVars, callVars, CursorInv, Combining,
        ChunkTaskInv
  <1>7. ProgressInv'
    BY StableRequest, StableChunks
       DEF IInv, TypeOK, RangeDone, taskVars, callVars, ProgressInv,
        ChunkTaskInv, Combining
  <1>8. SequentialInv'
    BY StableRequest, StableChunks
       DEF IInv, TypeOK, RangeDone, taskVars, callVars, SequentialInv
  <1>9. RangeExact'
    BY DEF IInv, TypeOK, RangeDone, taskVars, callVars, RangeExact
  <1>10. QED
    BY <1>1, <1>2, <1>3, <1>4, <1>5, <1>6, <1>7, <1>8, <1>9 DEF IInv

\* Ending a call changes nothing the invariant is about.
LEMMA FinishInvariant ==
    ASSUME IInv, Finish
    PROVE  IInv'
  <1>1. TypeOK'
    BY SizesAssumption, RequestsAssumption
       DEF IInv, TypeOK, Finish, taskVars, callVars, PCs, TaskState, ReqInv,
        Decoding
  <1>2. ReqInv'
    BY DEF IInv, TypeOK, Finish, taskVars, callVars, ReqInv, Decoding
  <1>3. SectionInv'
    BY DEF IInv, TypeOK, Finish, taskVars, callVars, SectionInv, ReqInv,
        Decoding, Running, Sections
  <1>4. BufferInv'
    BY StableRequest
       DEF IInv, TypeOK, Finish, taskVars, callVars, BufferInv, SectionInv,
        Decoding
  <1>5. ChunkTaskInv'
    BY StableRequest
       DEF IInv, TypeOK, Finish, taskVars, callVars, ChunkTaskInv, SectionInv,
        Combining, Running
  <1>6. CursorInv'
    BY StableRequest
       DEF IInv, TypeOK, Finish, taskVars, callVars, CursorInv, Combining,
        ChunkTaskInv
  <1>7. ProgressInv'
    BY StableRequest, StableChunks
       DEF IInv, TypeOK, Finish, taskVars, callVars, ProgressInv,
        ChunkTaskInv, Combining
  <1>8. SequentialInv'
    BY StableRequest, StableChunks
       DEF IInv, TypeOK, Finish, taskVars, callVars, SequentialInv
  <1>9. RangeExact'
    BY DEF IInv, TypeOK, Finish, taskVars, callVars, RangeExact
  <1>10. QED
    BY <1>1, <1>2, <1>3, <1>4, <1>5, <1>6, <1>7, <1>8, <1>9 DEF IInv

\* The task started works on the buffer allocated just before it.
LEMMA SpawnPreInvariant ==
    ASSUME IInv, SpawnPre
    PROVE  IInv'
  <1>1. TypeOK'
    <2>1. k \in Sections
      BY DEF IInv, SectionInv, SpawnPre
    <2>2. secTask' \in [Sections -> TaskState]
      BY <2>1 DEF IInv, TypeOK, SpawnPre, TaskState
    <2>3. k + 1 \in Nat
      BY DEF IInv, TypeOK
    <2>4. QED
      BY <2>1, <2>2, <2>3 DEF IInv, TypeOK, SpawnPre, callVars, taskVars, PCs
  <1>2. ReqInv'
    BY DEF IInv, TypeOK, SpawnPre, taskVars, callVars, ReqInv, Decoding
  <1>3. SectionInv'
    <2>1. /\ k \in Sections /\ k \in Nat
          /\ live = 0..(k - 1)
          /\ \A s \in Sections : s < k <=> secTask[s] # "none"
          /\ Running \subseteq live
      BY DEF IInv, TypeOK, SectionInv, SpawnPre
    <2>2. /\ live' = 0..k
          /\ secTask' \in [Sections -> TaskState]
          /\ secTask'[k] = "run"
          /\ \A s \in Sections : s # k => secTask'[s] = secTask[s]
      BY <2>1, <1>1 DEF IInv, TypeOK, SpawnPre
    <2>3. \A s \in Sections : s <= k <=> secTask'[s] # "none"
      BY <2>1, <2>2 DEF Sections
    <2>4. Running' \subseteq live'
      BY <2>1, <2>2 DEF Running, Sections
    <2>5. CASE k + 1 < Splits
      <3>1. k' = k + 1 /\ pc' = "preSpawn" /\ k + 1 \in Sections /\ live' = 0..(k' - 1)
        BY <2>1, <2>2, <2>5, SizesAssumption DEF SpawnPre, Sections
      <3>2. \A s \in Sections : s < k' <=> secTask'[s] # "none"
        BY <2>1, <2>3, <3>1 DEF Sections
      <3>3. QED
        BY <2>4, <3>1, <3>2 DEF SectionInv
    <2>6. CASE ~(k + 1 < Splits)
      <3>1. k' = 0 /\ pc' = "preJoin" /\ k' \in Sections /\ live' = Sections
        BY <2>1, <2>2, <2>6, SizesAssumption DEF SpawnPre, Sections
      <3>2. \A s \in Sections : k' <= s <=> secTask'[s] # "none"
        BY <2>1, <2>3, <2>6, <3>1, SizesAssumption DEF Sections
      <3>3. QED
        BY <2>4, <3>1, <3>2 DEF SectionInv
    <2>7. QED
      BY <2>5, <2>6
  <1>4. BufferInv'
    BY StableRequest
       DEF IInv, TypeOK, SpawnPre, taskVars, callVars, BufferInv, SectionInv,
        Decoding
  <1>5. ChunkTaskInv'
    BY StableRequest
       DEF IInv, TypeOK, SpawnPre, taskVars, callVars, ChunkTaskInv,
        SectionInv, Combining, Running
  <1>6. CursorInv'
    BY StableRequest
       DEF IInv, TypeOK, SpawnPre, taskVars, callVars, CursorInv, Combining,
        ChunkTaskInv
  <1>7. ProgressInv'
    BY StableRequest, StableChunks
       DEF IInv, TypeOK, SpawnPre, taskVars, callVars, ProgressInv,
        ChunkTaskInv, Combining
  <1>8. SequentialInv'
    BY StableRequest, StableChunks
       DEF IInv, TypeOK, SpawnPre, taskVars, callVars, SequentialInv
  <1>9. RangeExact'
    BY DEF IInv, TypeOK, SpawnPre, taskVars, callVars, RangeExact
  <1>10. QED
    BY <1>1, <1>2, <1>3, <1>4, <1>5, <1>6, <1>7, <1>8, <1>9 DEF IInv

\* A failed spawn leaves at most one buffer too many, and no task.
LEMMA SpawnPreFailsInvariant ==
    ASSUME IInv, SpawnPreFails
    PROVE  IInv'
  <1>1. TypeOK'
    <2>1. live' \in SUBSET Sections
      BY DEF IInv, TypeOK, SectionInv, SpawnPreFails
    <2>2. QED
      BY <2>1 DEF IInv, TypeOK, SpawnPreFails, callVars, taskVars, PCs
  <1>2. ReqInv'
    BY DEF IInv, TypeOK, SpawnPreFails, taskVars, callVars, ReqInv, Decoding
  <1>3. SectionInv'
    BY DEF IInv, TypeOK, SpawnPreFails, taskVars, callVars, SectionInv,
        ReqInv, Decoding, Running, Sections
  <1>4. BufferInv'
    BY StableRequest
       DEF IInv, TypeOK, SpawnPreFails, taskVars, callVars, BufferInv,
        SectionInv, Decoding
  <1>5. ChunkTaskInv'
    BY StableRequest
       DEF IInv, TypeOK, SpawnPreFails, taskVars, callVars, ChunkTaskInv,
        SectionInv, Combining, Running
  <1>6. CursorInv'
    BY StableRequest
       DEF IInv, TypeOK, SpawnPreFails, taskVars, callVars, CursorInv,
        Combining, ChunkTaskInv
  <1>7. ProgressInv'
    BY StableRequest, StableChunks
       DEF IInv, TypeOK, SpawnPreFails, taskVars, callVars, ProgressInv,
        ChunkTaskInv, Combining
  <1>8. SequentialInv'
    BY StableRequest, StableChunks
       DEF IInv, TypeOK, SpawnPreFails, taskVars, callVars, SequentialInv
  <1>9. RangeExact'
    BY DEF IInv, TypeOK, SpawnPreFails, taskVars, callVars, RangeExact
  <1>10. QED
    BY <1>1, <1>2, <1>3, <1>4, <1>5, <1>6, <1>7, <1>8, <1>9 DEF IInv

\* After the last join every buffer is filled and no codec task is left.
LEMMA JoinPreInvariant ==
    ASSUME IInv, JoinPre
    PROVE  IInv'
  <1>1. TypeOK'
    <2>1. k \in Sections /\ k + 1 \in Nat
      BY DEF IInv, TypeOK, SectionInv, JoinPre
    <2>2. secTask' \in [Sections -> TaskState]
      BY <2>1 DEF IInv, TypeOK, JoinPre, TaskState
    <2>3. QED
      BY <2>1, <2>2 DEF IInv, TypeOK, JoinPre, callVars, taskVars, PCs
  <1>2. ReqInv'
    BY DEF IInv, TypeOK, JoinPre, taskVars, callVars, ReqInv, Decoding
  <1>3. SectionInv'
    <2>1. /\ k \in Sections /\ k \in Nat
          /\ live = Sections
          /\ \A s \in Sections : k <= s <=> secTask[s] # "none"
      BY DEF IInv, TypeOK, SectionInv, JoinPre
    <2>2. /\ live' = live
          /\ secTask' \in [Sections -> TaskState]
          /\ secTask'[k] = "none"
          /\ \A s \in Sections : s # k => secTask'[s] = secTask[s]
      BY <2>1, <1>1 DEF IInv, TypeOK, JoinPre
    <2>3. \A s \in Sections : k < s <=> secTask'[s] # "none"
      BY <2>1, <2>2 DEF Sections
    <2>4. Running' \subseteq live'
      BY <2>1, <2>2 DEF Running
    <2>5. CASE secTask[k] = "threw"
      BY <2>4, <2>5 DEF JoinPre, SectionInv
    <2>6. CASE secTask[k] # "threw" /\ k + 1 < Splits
      <3>1. k' = k + 1 /\ pc' = "preJoin" /\ k + 1 \in Sections
        BY <2>1, <2>6, SizesAssumption DEF JoinPre, Sections
      <3>2. \A s \in Sections : k' <= s <=> secTask'[s] # "none"
        BY <2>1, <2>3, <3>1 DEF Sections
      <3>3. QED
        BY <2>1, <2>2, <2>4, <3>1, <3>2 DEF SectionInv
    <2>7. CASE secTask[k] # "threw" /\ ~(k + 1 < Splits)
      <3>1. pc' = "chunkSpawn"
        BY <2>7 DEF JoinPre
      <3>2. \A s \in Sections : secTask'[s] = "none"
        BY <2>1, <2>3, <2>7, SizesAssumption DEF Sections
      <3>3. QED
        BY <2>1, <2>2, <2>4, <3>1, <3>2 DEF SectionInv
    <2>8. QED
      BY <2>5, <2>6, <2>7
  <1>4. BufferInv'
    BY StableRequest
       DEF IInv, TypeOK, JoinPre, taskVars, callVars, BufferInv, SectionInv,
        Decoding
  <1>5. ChunkTaskInv'
    <2>1. NThreads \in Nat /\ NThreads' = NThreads
      BY RangeBeingDecoded, StableRequest DEF IInv, JoinPre, callVars, Decoding
    <2>2. \A t \in Threads : chunkTask[t].st = "none" /\ ~(t < 0)
      BY ThreadCapPositive DEF IInv, ChunkTaskInv, JoinPre, Threads
    <2>3. Combining' = {}
      BY <2>2 DEF JoinPre, Combining
    <2>4. QED
      BY <2>1, <2>2, <2>3 DEF JoinPre, ChunkTaskInv
  <1>6. CursorInv'
    BY StableRequest
       DEF IInv, TypeOK, JoinPre, taskVars, callVars, CursorInv, Combining,
        ChunkTaskInv
  <1>7. ProgressInv'
    BY StableRequest, StableChunks
       DEF IInv, TypeOK, JoinPre, taskVars, callVars, ProgressInv,
        ChunkTaskInv, Combining
  <1>8. SequentialInv'
    BY StableRequest, StableChunks
       DEF IInv, TypeOK, JoinPre, taskVars, callVars, SequentialInv
  <1>9. RangeExact'
    BY DEF IInv, TypeOK, JoinPre, taskVars, callVars, RangeExact
  <1>10. QED
    BY <1>1, <1>2, <1>3, <1>4, <1>5, <1>6, <1>7, <1>8, <1>9 DEF IInv

\* An accumulation task starts at the first chunk of a non-empty span.
LEMMA SpawnChunkTaskInvariant ==
    ASSUME IInv, SpawnChunkTask
    PROVE  IInv'
  <1> DEFINE task == [st |-> "run", c |-> FirstChunk(k, Count), s |-> 0]
  <1>0. /\ k \in Threads /\ k \in Nat /\ k < NThreads
        /\ FirstChunk(k, Count) \in Nat /\ LastChunk(k, Count) \in Nat
        /\ FirstChunk(k, Count) < LastChunk(k, Count)
        /\ NThreads' = NThreads /\ Count' = Count
    <2>1. k \in Nat /\ k < NThreads /\ FirstChunk(k, Count) < NumChunks(Count)
      BY DEF IInv, TypeOK, SpawnChunkTask, MoreThreads, NThreads
    <2>2. Count \in Nat \ {0} /\ k \in Threads
      BY <2>1, RangeBeingDecoded DEF IInv, SpawnChunkTask, Decoding
    <2>3. QED
      BY <2>1, <2>2, SpanBounds, StableRequest DEF SpawnChunkTask, callVars
  <1>00. /\ chunkTask'[k] = task
         /\ \A t \in Threads : t # k => chunkTask'[t] = chunkTask[t]
         /\ Threads \subseteq Nat
    BY <1>0, ThreadCapPositive DEF IInv, TypeOK, SpawnChunkTask, Threads
  <1>1. TypeOK'
    <2>1. task \in [st : {"none", "run", "done"}, c : Nat, s : Nat]
      BY <1>0
    <2>2. chunkTask' = [chunkTask EXCEPT ![k] = task]
      BY DEF SpawnChunkTask
    <2>3. chunkTask' \in [Threads -> [st : {"none", "run", "done"}, c : Nat, s : Nat]]
      BY <2>1, <2>2 DEF IInv, TypeOK
    <2>4. QED
      BY <2>1, <2>2, <2>3 DEF IInv, TypeOK, SpawnChunkTask, callVars, taskVars, PCs
  <1>2. ReqInv'
    BY DEF IInv, TypeOK, SpawnChunkTask, taskVars, callVars, ReqInv, Decoding
  <1>3. SectionInv'
    BY DEF IInv, TypeOK, SpawnChunkTask, taskVars, callVars, SectionInv,
        ReqInv, Decoding, Running, Sections
  <1>4. BufferInv'
    BY StableRequest
       DEF IInv, TypeOK, SpawnChunkTask, taskVars, callVars, BufferInv,
        SectionInv, Decoding
  <1>5. ChunkTaskInv'
    <2>1. /\ \A t \in Threads : t < k <=> chunkTask[t].st # "none"
          /\ live = Sections
          /\ \A s \in Sections : secTask[s] = "none"
      BY DEF IInv, ChunkTaskInv, SectionInv, SpawnChunkTask
    <2>2. \A t \in Threads : t < k + 1 <=> chunkTask'[t].st # "none"
      BY <2>1, <1>0, <1>00
    <2>3. live' = Sections /\ Running' = {}
      BY <2>1 DEF SpawnChunkTask, Running
    <2>4. k' <= NThreads'
      <3>1. NThreads \in Nat
        BY RangeBeingDecoded DEF IInv, SpawnChunkTask, Decoding
      <3>2. QED
        BY <1>0, <3>1 DEF SpawnChunkTask
    <2>5. QED
      BY <2>2, <2>3, <2>4 DEF SpawnChunkTask, ChunkTaskInv
  <1>6. CursorInv'
    <2> SUFFICES ASSUME NEW t \in Combining'
                 PROVE  /\ chunkTask'[t].c \in FirstChunk(t, Count)..(LastChunk(t, Count) - 1)
                        /\ chunkTask'[t].s \in Sections
      BY <1>0 DEF CursorInv
    <2>1. CASE t = k
      BY <2>1, <1>0, <1>00, SizesAssumption DEF Sections
    <2>2. CASE t # k
      BY <2>2, <1>00 DEF IInv, CursorInv, Combining
    <2>3. QED
      BY <2>1, <2>2
  <1>7. ProgressInv'
    <2>1. \A c, secs : ChunkHolds(c, secs)' = ChunkHolds(c, secs)
      BY StableChunks DEF SpawnChunkTask, callVars
    <2>2. pc = "chunkSpawn" /\ pc' = "chunkSpawn"
      BY DEF SpawnChunkTask
    <2>3. ASSUME NEW t \in Combining'
          PROVE  /\ chunkTask'[t].s > 0 =>
                       ChunkHolds(chunkTask'[t].c, 0..(chunkTask'[t].s - 1))
                 /\ \A c \in FirstChunk(t, Count)..(chunkTask'[t].c - 1) : ChunkHolds(c, Sections)
      <3>1. CASE t = k
        BY <3>1, <1>0, <1>00
      <3>2. CASE t # k
        BY <2>2, <3>2, <1>00 DEF IInv, ProgressInv, Combining
      <3>3. QED
        BY <3>1, <3>2
    <2>4. ASSUME NEW t \in Threads, chunkTask'[t].st = "done"
          PROVE  \A c \in FirstChunk(t, Count)..(LastChunk(t, Count) - 1) : ChunkHolds(c, Sections)
      BY <2>2, <2>4, <1>0, <1>00 DEF IInv, ProgressInv
    <2>5. QED
      BY <2>1, <2>2, <2>3, <2>4, <1>0 DEF ProgressInv
  <1>8. SequentialInv'
    BY StableRequest, StableChunks
       DEF IInv, TypeOK, SpawnChunkTask, taskVars, callVars, SequentialInv
  <1>9. RangeExact'
    BY DEF IInv, TypeOK, SpawnChunkTask, taskVars, callVars, RangeExact
  <1>10. QED
    BY <1>1, <1>2, <1>3, <1>4, <1>5, <1>6, <1>7, <1>8, <1>9 DEF IInv

\* A failed spawn leaves the tasks already started as they are.
LEMMA SpawnChunkFailsInvariant ==
    ASSUME IInv, SpawnChunkFails
    PROVE  IInv'
  <1>1. TypeOK'
    BY SizesAssumption, RequestsAssumption
       DEF IInv, TypeOK, SpawnChunkFails, taskVars, callVars, PCs, TaskState,
        ReqInv, Decoding
  <1>2. ReqInv'
    BY DEF IInv, TypeOK, SpawnChunkFails, taskVars, callVars, ReqInv, Decoding
  <1>3. SectionInv'
    BY DEF IInv, TypeOK, SpawnChunkFails, taskVars, callVars, SectionInv,
        ReqInv, Decoding, Running, Sections
  <1>4. BufferInv'
    BY StableRequest
       DEF IInv, TypeOK, SpawnChunkFails, taskVars, callVars, BufferInv,
        SectionInv, Decoding
  <1>5. ChunkTaskInv'
    BY StableRequest
       DEF IInv, TypeOK, SpawnChunkFails, taskVars, callVars, ChunkTaskInv,
        SectionInv, Combining, Running
  <1>6. CursorInv'
    BY StableRequest
       DEF IInv, TypeOK, SpawnChunkFails, taskVars, callVars, CursorInv,
        Combining, ChunkTaskInv
  <1>7. ProgressInv'
    BY StableRequest, StableChunks
       DEF IInv, TypeOK, SpawnChunkFails, taskVars, callVars, ProgressInv,
        ChunkTaskInv, Combining
  <1>8. SequentialInv'
    BY StableRequest, StableChunks
       DEF IInv, TypeOK, SpawnChunkFails, taskVars, callVars, SequentialInv
  <1>9. RangeExact'
    BY DEF IInv, TypeOK, SpawnChunkFails, taskVars, callVars, RangeExact
  <1>10. QED
    BY <1>1, <1>2, <1>3, <1>4, <1>5, <1>6, <1>7, <1>8, <1>9 DEF IInv

\* A thread that got no task has a span that starts past the last chunk.
LEMMA ChunksSpawnedInvariant ==
    ASSUME IInv, ChunksSpawned
    PROVE  IInv'
  <1>0. /\ NThreads \in Nat \ {0} /\ Count \in Nat \ {0} /\ NumChunks(Count) \in Nat
        /\ NThreads' = NThreads /\ Count' = Count
        /\ k \in Nat /\ k <= NThreads
        /\ Threads \subseteq Nat
    BY RangeBeingDecoded, StableRequest, ThreadCapPositive
    DEF IInv, TypeOK, ChunksSpawned, callVars, ChunkTaskInv, Decoding, Threads
  <1>1. TypeOK'
    BY SizesAssumption, RequestsAssumption
       DEF IInv, TypeOK, ChunksSpawned, taskVars, callVars, PCs, TaskState,
        ReqInv, Decoding
  <1>2. ReqInv'
    BY DEF IInv, TypeOK, ChunksSpawned, taskVars, callVars, ReqInv, Decoding
  <1>3. SectionInv'
    BY DEF IInv, TypeOK, ChunksSpawned, taskVars, callVars, SectionInv,
        ReqInv, Decoding, Running, Sections
  <1>4. BufferInv'
    BY StableRequest
       DEF IInv, TypeOK, ChunksSpawned, taskVars, callVars, BufferInv,
        SectionInv, Decoding
  <1>5. ChunkTaskInv'
    <2>1. /\ \A t \in Threads : t < k <=> chunkTask[t].st # "none"
          /\ Combining # {} => live = Sections /\ Running = {}
      BY DEF IInv, ChunkTaskInv, ChunksSpawned
    <2>2. ASSUME NEW t \in Threads, k <= t
          PROVE  FirstChunk(t, Count) >= NumChunks(Count)
      <3>1. t \in Nat
        BY <1>0
      <3>2. CASE k = NThreads
        <4>1. EffectiveThreadCount(NumChunks(Count)) <= t
          BY <2>2, <3>2 DEF NThreads
        <4>2. NumChunks(Count) <= FirstChunk(t, Count)
          BY <1>0, <3>1, <4>1, BeyondThreads
        <4>3. FirstChunk(t, Count) \in Nat
          BY <1>0, <3>1, SpanBounds
        <4>4. QED
          BY <1>0, <4>2, <4>3
      <3>3. CASE k # NThreads
        <4>1. NumChunks(Count) <= FirstChunk(k, Count)
          <5>1. FirstChunk(k, Count) \in Nat
            BY <1>0, SpanBounds
          <5>2. ~(FirstChunk(k, Count) < NumChunks(Count))
            BY <1>0, <3>3 DEF ChunksSpawned, MoreThreads, NThreads
          <5>3. QED
            BY <1>0, <5>1, <5>2
        <4>2. FirstChunk(k, Count) <= FirstChunk(t, Count)
          <5>1. CASE k < t
            BY <1>0, <3>1, <5>1, SpansOrdered
          <5>2. CASE k = t
            BY <1>0, <5>2, SpanBounds
          <5>3. QED
            BY <1>0, <2>2, <3>1, <5>1, <5>2
        <4>3. FirstChunk(k, Count) \in Nat /\ FirstChunk(t, Count) \in Nat
          BY <1>0, <3>1, SpanBounds
        <4>4. QED
          BY <1>0, <4>1, <4>2, <4>3
      <3>4. QED
        BY <3>2, <3>3
    <2>3. \A t \in Threads : t >= NThreads => chunkTask[t].st = "none"
      BY <1>0, <2>1
    <2>4. \A t \in Threads : chunkTask[t].st # "none" \/ FirstChunk(t, Count) >= NumChunks(Count)
      BY <1>0, <2>1, <2>2
    <2>5. \A t \in Threads : ~(t < 0)
      BY <1>0
    <2>6. QED
      BY <1>0, <2>1, <2>3, <2>4, <2>5 DEF ChunkTaskInv, ChunksSpawned, taskVars, Combining, Running
  <1>6. CursorInv'
    BY StableRequest
       DEF IInv, TypeOK, ChunksSpawned, taskVars, callVars, CursorInv,
        Combining, ChunkTaskInv
  <1>7. ProgressInv'
    <2>1. \A c, secs : ChunkHolds(c, secs)' = ChunkHolds(c, secs)
      BY StableChunks DEF ChunksSpawned, callVars
    <2>2. \A t \in Threads : ~(t < k')
      BY <1>0 DEF ChunksSpawned
    <2>3. QED
      BY <1>0, <2>1, <2>2 DEF IInv, ProgressInv, ChunksSpawned, taskVars, Combining
  <1>8. SequentialInv'
    BY StableRequest, StableChunks
       DEF IInv, TypeOK, ChunksSpawned, taskVars, callVars, SequentialInv
  <1>9. RangeExact'
    BY DEF IInv, TypeOK, ChunksSpawned, taskVars, callVars, RangeExact
  <1>10. QED
    BY <1>1, <1>2, <1>3, <1>4, <1>5, <1>6, <1>7, <1>8, <1>9 DEF IInv

\* A joined task has completed its span.
LEMMA JoinChunkTaskInvariant ==
    ASSUME IInv, JoinChunkTask
    PROVE  IInv'
  <1>0. /\ NThreads \in Nat \ {0} /\ Count \in Nat \ {0} /\ NumChunks(Count) \in Nat
        /\ NThreads' = NThreads /\ Count' = Count
        /\ k \in Threads /\ k \in Nat /\ k < NThreads /\ k' = k + 1
        /\ Threads \subseteq Nat
    <2>1. k \in Nat /\ k < NThreads
      BY DEF IInv, TypeOK, JoinChunkTask, NThreads
    <2>2. QED
      BY <2>1, RangeBeingDecoded, StableRequest, ThreadCapPositive
      DEF IInv, JoinChunkTask, callVars, Decoding, Threads
  <1>00. /\ chunkTask'[k] = NoTask /\ NoTask.st = "none"
         /\ \A t \in Threads : t # k => chunkTask'[t] = chunkTask[t]
    BY <1>0 DEF IInv, TypeOK, JoinChunkTask, NoTask
  <1>1. TypeOK'
    <2>1. NoTask \in [st : {"none", "run", "done"}, c : Nat, s : Nat]
      BY DEF NoTask
    <2>2. chunkTask' \in [Threads -> [st : {"none", "run", "done"}, c : Nat, s : Nat]]
      BY <2>1 DEF IInv, TypeOK, JoinChunkTask
    <2>3. k' \in Nat
      BY <1>0
    <2>4. QED
      BY <2>1, <2>2, <2>3 DEF IInv, TypeOK, JoinChunkTask, callVars, taskVars, PCs
  <1>2. ReqInv'
    BY DEF IInv, TypeOK, JoinChunkTask, taskVars, callVars, ReqInv, Decoding
  <1>3. SectionInv'
    BY DEF IInv, TypeOK, JoinChunkTask, taskVars, callVars, SectionInv,
        ReqInv, Decoding, Running, Sections
  <1>4. BufferInv'
    BY StableRequest
       DEF IInv, TypeOK, JoinChunkTask, taskVars, callVars, BufferInv,
        SectionInv, Decoding
  <1>5. ChunkTaskInv'
    <2>1. /\ Combining # {} => live = Sections /\ Running = {}
          /\ \A t \in Threads : t < k => chunkTask[t].st = "none"
          /\ \A t \in Threads : t >= NThreads => chunkTask[t].st = "none"
          /\ \A t \in Threads : t >= k =>
                chunkTask[t].st # "none" \/ FirstChunk(t, Count) >= NumChunks(Count)
      BY DEF IInv, ChunkTaskInv, JoinChunkTask
    <2>2. Combining' \subseteq Combining
      BY <1>0, <1>00 DEF Combining
    <2>3. \A t \in Threads : t < k + 1 => chunkTask'[t].st = "none"
      <3>1. \A t \in Threads : t < k + 1 => t < k \/ t = k
        BY <1>0
      <3>2. QED
        BY <1>00, <2>1, <3>1
    <2>4. \A t \in Threads : t >= NThreads => chunkTask'[t].st = "none"
      BY <1>0, <1>00, <2>1
    <2>5. \A t \in Threads : t >= k + 1 =>
              chunkTask'[t].st # "none" \/ FirstChunk(t, Count) >= NumChunks(Count)
      BY <1>0, <1>00, <2>1
    <2>6. k + 1 <= NThreads
      BY <1>0
    <2>7. QED
      BY <1>0, <2>1, <2>2, <2>3, <2>4, <2>5, <2>6 DEF ChunkTaskInv, JoinChunkTask, Running
  <1>6. CursorInv'
    BY <1>0, <1>00 DEF IInv, CursorInv, Combining
  <1>7. ProgressInv'
    <2>1. \A c, secs : ChunkHolds(c, secs)' = ChunkHolds(c, secs)
      BY StableChunks DEF JoinChunkTask, callVars
    <2>2. pc = "chunkJoin" /\ pc' = "chunkJoin"
      BY DEF JoinChunkTask
    <2>3. \A t \in Combining' : t \in Combining /\ chunkTask'[t] = chunkTask[t]
      BY <1>0, <1>00 DEF Combining
    <2>4. ASSUME NEW t \in Threads, chunkTask'[t].st = "done" \/ t < k + 1
          PROVE  \A c \in FirstChunk(t, Count)..(LastChunk(t, Count) - 1) : ChunkHolds(c, Sections)
      <3>1. CASE t # k
        <4>1. chunkTask[t].st = "done" \/ t < k
          BY <1>0, <1>00, <2>4, <3>1
        <4>2. QED
          BY <2>2, <4>1 DEF IInv, ProgressInv
      <3>2. CASE t = k /\ chunkTask[k].st = "done"
        BY <2>2, <3>2 DEF IInv, ProgressInv
      <3>3. CASE t = k /\ chunkTask[k].st # "done"
        <4>1. NumChunks(Count) <= FirstChunk(t, Count)
          <5>1. FirstChunk(k, Count) \in Nat
            BY <1>0, SpanBounds
          <5>2. FirstChunk(k, Count) >= NumChunks(Count)
            BY <1>0, <3>3 DEF IInv, ChunkTaskInv, JoinChunkTask, Joinable
          <5>3. QED
            BY <1>0, <3>3, <5>1, <5>2
        <4>2. LastChunk(t, Count) <= FirstChunk(t, Count)
          <5>1. /\ LastChunk(t, Count) <= NumChunks(Count)
                /\ LastChunk(t, Count) \in Nat /\ FirstChunk(t, Count) \in Nat
            BY <1>0, SpanBounds
          <5>2. QED
            BY <1>0, <4>1, <5>1
        <4>3. LastChunk(t, Count) \in Nat /\ FirstChunk(t, Count) \in Nat
          BY <1>0, SpanBounds
        <4>4. FirstChunk(t, Count)..(LastChunk(t, Count) - 1) = {}
          BY <4>2, <4>3
        <4>5. QED
          BY <4>4
      <3>4. QED
        BY <3>1, <3>2, <3>3
    <2>5. QED
      BY <1>0, <2>1, <2>2, <2>3, <2>4 DEF IInv, ProgressInv
  <1>8. SequentialInv'
    BY StableRequest, StableChunks
       DEF IInv, TypeOK, JoinChunkTask, taskVars, callVars, SequentialInv
  <1>9. RangeExact'
    BY DEF IInv, TypeOK, JoinChunkTask, taskVars, callVars, RangeExact
  <1>10. QED
    BY <1>1, <1>2, <1>3, <1>4, <1>5, <1>6, <1>7, <1>8, <1>9 DEF IInv

\* When all tasks are joined their spans make up the range: every row of it
\* is delivered.
LEMMA ChunksJoinedInvariant ==
    ASSUME IInv, ChunksJoined
    PROVE  IInv'
  <1>1. TypeOK'
    BY SizesAssumption, RequestsAssumption
       DEF IInv, TypeOK, ChunksJoined, taskVars, callVars, PCs, TaskState,
        ReqInv, Decoding
  <1>2. ReqInv'
    BY DEF IInv, TypeOK, ChunksJoined, taskVars, callVars, ReqInv, Decoding
  <1>3. SectionInv'
    BY DEF IInv, TypeOK, ChunksJoined, taskVars, callVars, SectionInv, ReqInv,
        Decoding, Running, Sections
  <1>4. BufferInv'
    BY StableRequest
       DEF IInv, TypeOK, ChunksJoined, taskVars, callVars, BufferInv,
        SectionInv, Decoding
  <1>5. ChunkTaskInv'
    <2>1. NThreads \in Nat /\ k = NThreads /\ Threads \subseteq Nat
      BY RangeBeingDecoded, ThreadCapPositive DEF IInv, ChunksJoined, Decoding, NThreads, Threads
    <2>2. \A t \in Threads : chunkTask[t].st = "none"
      BY <2>1 DEF IInv, ChunkTaskInv, ChunksJoined
    <2>3. Combining' = {}
      BY <2>2 DEF ChunksJoined, taskVars, Combining
    <2>4. QED
      BY <2>2, <2>3 DEF ChunkTaskInv, ChunksJoined, taskVars
  <1>6. CursorInv'
    BY StableRequest
       DEF IInv, TypeOK, ChunksJoined, taskVars, callVars, CursorInv,
        Combining, ChunkTaskInv
  <1>7. ProgressInv'
    BY StableRequest, StableChunks
       DEF IInv, TypeOK, ChunksJoined, taskVars, callVars, ProgressInv,
        ChunkTaskInv, Combining
  <1>8. SequentialInv'
    BY StableRequest, StableChunks
       DEF IInv, TypeOK, ChunksJoined, taskVars, callVars, SequentialInv
  <1>9. RangeExact'
    <2>1. Count \in Nat \ {0} /\ k = NThreads /\ NumChunks(Count) \in Nat
          /\ \A t \in Nat : t < NThreads => t \in Threads
      BY RangeBeingDecoded DEF IInv, ChunksJoined, Decoding, NThreads
    <2>2. ASSUME NEW c \in 0..(NumChunks(Count) - 1)
          PROVE  ChunkHolds(c, Sections)
      <3>1. c \in Nat /\ c < NumChunks(Count)
        BY <2>1
      <3>2. PICK t \in 0..(NThreads - 1) : c \in FirstChunk(t, Count)..(LastChunk(t, Count) - 1)
        BY <2>1, <3>1, ThreadsCoverChunks DEF NThreads
      <3>3. t \in Threads /\ t < k
        BY <2>1, RangeBeingDecoded DEF IInv, ChunksJoined, Decoding
      <3>4. QED
        BY <3>2, <3>3 DEF IInv, ProgressInv, ChunksJoined
    <2>3. \A i \in 0..(Count - 1) :
              req.off + i \in Slots => dst[req.off + i] = RowTokens(req.start + i)
      BY <2>1, <2>2, ChunksMakeTheRange DEF IInv
    <2>4. QED
      BY <2>3, StableRequest DEF RangeExact, ChunksJoined, callVars
  <1>10. QED
    BY <1>1, <1>2, <1>3, <1>4, <1>5, <1>6, <1>7, <1>8, <1>9 DEF IInv

\* The unwinding frees the buffers only when no task is left.
LEMMA UnwindInvariant ==
    ASSUME IInv, Unwind
    PROVE  IInv'
  <1>0. /\ secTask' = [s \in Sections |-> "none"]
        /\ chunkTask' = [t \in Threads |-> NoTask]
        /\ NoTask.st = "none"
        /\ Running' = {} /\ Combining' = {}
    BY DEF Unwind, TasksEnded, Running, Combining, NoTask
  <1>1. TypeOK'
    <2>1. secTask' \in [Sections -> TaskState]
      BY <1>0 DEF TaskState
    <2>2. chunkTask' \in [Threads -> [st : {"none", "run", "done"}, c : Nat, s : Nat]]
      BY <1>0 DEF NoTask
    <2>3. pre' \in [Sections -> [Rows -> Cell]]
      BY DEF Unwind, NoBuffer, Cell
    <2>4. QED
      BY <2>1, <2>2, <2>3 DEF IInv, TypeOK, Unwind, callVars, taskVars, PCs
  <1>2. ReqInv'
    BY DEF IInv, TypeOK, Unwind, taskVars, callVars, ReqInv, Decoding
  <1>3. SectionInv'
    BY <1>0 DEF Unwind, SectionInv
  <1>4. BufferInv'
    BY StableRequest
       DEF IInv, TypeOK, Unwind, taskVars, callVars, BufferInv, SectionInv,
        Decoding
  <1>5. ChunkTaskInv'
    BY <1>0 DEF Unwind, ChunkTaskInv
  <1>6. CursorInv'
    BY <1>0 DEF CursorInv
  <1>7. ProgressInv'
    BY StableRequest, StableChunks
       DEF IInv, TypeOK, Unwind, taskVars, callVars, ProgressInv,
        ChunkTaskInv, Combining
  <1>8. SequentialInv'
    BY StableRequest, StableChunks
       DEF IInv, TypeOK, Unwind, taskVars, callVars, SequentialInv
  <1>9. RangeExact'
    BY DEF IInv, TypeOK, Unwind, taskVars, callVars, RangeExact
  <1>10. QED
    BY <1>1, <1>2, <1>3, <1>4, <1>5, <1>6, <1>7, <1>8, <1>9 DEF IInv

\* The caller fills the buffer of a section without random access.
LEMMA SeqPreInvariant ==
    ASSUME IInv, SeqPre
    PROVE  IInv'
  <1>1. TypeOK'
    <2>1. k \in Sections /\ k + 1 \in Nat
      BY DEF IInv, TypeOK, SequentialInv, SeqPre
    <2>2. Decoded(k) \in [Rows -> Cell]
      BY <2>1, DecodedType DEF IInv
    <2>3. pre' \in [Sections -> [Rows -> Cell]]
      BY <2>1, <2>2 DEF IInv, TypeOK, SeqPre
    <2>4. live' \in SUBSET Sections
      BY <2>1 DEF IInv, TypeOK, SeqPre
    <2>5. QED
      BY <2>1, <2>2, <2>3, <2>4 DEF IInv, TypeOK, SeqPre, callVars, taskVars, PCs
  <1>2. ReqInv'
    BY DEF IInv, TypeOK, SeqPre, taskVars, callVars, ReqInv, Decoding
  <1>3. SectionInv'
    BY DEF IInv, TypeOK, SeqPre, taskVars, callVars, SectionInv, ReqInv,
        Decoding, Running, Sections
  <1>4. BufferInv'
    <2>1. k \in Sections
      BY DEF IInv, SequentialInv, SeqPre
    <2>2. \A s : Decoded(s)' = Decoded(s)
      BY StableRequest DEF SeqPre, callVars
    <2>3. \A s \in live' : (s # k => s \in live /\ pre'[s] = pre[s])
                           /\ (s = k /\ k \in NonRA => pre'[s] = Decoded(k))
                           /\ (s = k /\ k \notin NonRA => s \in live /\ pre'[s] = pre[s])
      BY <2>1 DEF IInv, TypeOK, SeqPre
    <2>4. \A s \in live : pre[s] = Decoded(s)
      BY DEF IInv, TypeOK, BufferInv, SectionInv, SeqPre, Decoding
    <2>5. \A s \in live' : pre'[s] = Decoded(s)
      BY <2>3, <2>4
    <2>6. QED
      BY <2>2, <2>5 DEF BufferInv
  <1>5. ChunkTaskInv'
    BY StableRequest
       DEF IInv, TypeOK, SeqPre, taskVars, callVars, ChunkTaskInv, SectionInv,
        Combining, Running
  <1>6. CursorInv'
    BY StableRequest
       DEF IInv, TypeOK, SeqPre, taskVars, callVars, CursorInv, Combining,
        ChunkTaskInv
  <1>7. ProgressInv'
    BY StableRequest, StableChunks
       DEF IInv, TypeOK, SeqPre, taskVars, callVars, ProgressInv,
        ChunkTaskInv, Combining
  <1>8. SequentialInv'
    <2>1. k \in Sections /\ chunk = 0 /\ k \in Nat /\ chunk' = chunk /\ 0 \in Sections
      BY SizesAssumption DEF IInv, TypeOK, SequentialInv, SeqPre, Sections
    <2>2. NumChunks(Count) \in Nat \ {0} /\ Count' = Count
      BY RangeBeingDecoded, StableRequest DEF IInv, SeqPre, callVars, Decoding
    <2>3. CASE k + 1 < Splits
      BY <2>1, <2>3, SizesAssumption DEF SequentialInv, SeqPre, Sections
    <2>4. CASE ~(k + 1 < Splits)
      BY <2>1, <2>2, <2>4 DEF SequentialInv, SeqPre
    <2>5. QED
      BY <2>3, <2>4
  <1>9. RangeExact'
    BY DEF IInv, TypeOK, SeqPre, taskVars, callVars, RangeExact
  <1>10. QED
    BY <1>1, <1>2, <1>3, <1>4, <1>5, <1>6, <1>7, <1>8, <1>9 DEF IInv

\* A failed pre-decode of the sequential path has started no task.
LEMMA SeqPreFailsInvariant ==
    ASSUME IInv, SeqPreFails
    PROVE  IInv'
  <1>1. TypeOK'
    <2>1. live' \in SUBSET Sections
      BY NonRAAssumption DEF IInv, TypeOK, SeqPreFails
    <2>2. QED
      BY <2>1 DEF IInv, TypeOK, SeqPreFails, callVars, taskVars, PCs
  <1>2. ReqInv'
    BY DEF IInv, TypeOK, SeqPreFails, taskVars, callVars, ReqInv, Decoding
  <1>3. SectionInv'
    BY DEF IInv, TypeOK, SeqPreFails, taskVars, callVars, SectionInv, ReqInv,
        Decoding, Running, Sections
  <1>4. BufferInv'
    BY StableRequest
       DEF IInv, TypeOK, SeqPreFails, taskVars, callVars, BufferInv,
        SectionInv, Decoding
  <1>5. ChunkTaskInv'
    BY StableRequest
       DEF IInv, TypeOK, SeqPreFails, taskVars, callVars, ChunkTaskInv,
        SectionInv, Combining, Running
  <1>6. CursorInv'
    BY StableRequest
       DEF IInv, TypeOK, SeqPreFails, taskVars, callVars, CursorInv,
        Combining, ChunkTaskInv
  <1>7. ProgressInv'
    BY StableRequest, StableChunks
       DEF IInv, TypeOK, SeqPreFails, taskVars, callVars, ProgressInv,
        ChunkTaskInv, Combining
  <1>8. SequentialInv'
    BY StableRequest, StableChunks
       DEF IInv, TypeOK, SeqPreFails, taskVars, callVars, SequentialInv
  <1>9. RangeExact'
    BY DEF IInv, TypeOK, SeqPreFails, taskVars, callVars, RangeExact
  <1>10. QED
    BY <1>1, <1>2, <1>3, <1>4, <1>5, <1>6, <1>7, <1>8, <1>9 DEF IInv

\* One more section is in the chunk at hand; the chunks behind stay complete.
LEMMA SeqCombineInvariant ==
    ASSUME IInv, SeqCombine
    PROVE  IInv'
  <1> DEFINE cells == IF k \in live THEN pre[k] ELSE Decoded(k)
  <1>0. /\ k \in Sections /\ k \in Nat /\ chunk \in Nat
        /\ Count \in Nat \ {0} /\ Count <= N /\ Count' = Count /\ NumChunks(Count) \in Nat
        /\ cells = Decoded(k) /\ cells \in [Rows -> Cell]
        /\ dst' = Combined(dst, chunk, k, cells)
    <2>1. k \in Sections /\ k \in Nat /\ chunk \in Nat
      BY DEF IInv, TypeOK, SequentialInv, SeqCombine
    <2>2. k \in live => pre[k] = Decoded(k)
      BY <2>1 DEF IInv, BufferInv, SectionInv, SeqCombine, Decoding
    <2>3. QED
      BY <2>1, <2>2, RangeBeingDecoded, StableRequest, DecodedType
      DEF IInv, SeqCombine, callVars, Decoding
  <1>1. TypeOK'
    <2>1. dst' \in [Slots -> Cell]
      BY <1>0, CombinedType DEF IInv
    <2>2. k' \in Nat /\ chunk' \in Nat
      BY <1>0 DEF SeqCombine
    <2>3. QED
      BY <2>1, <2>2 DEF IInv, TypeOK, SeqCombine, callVars, taskVars, PCs
  <1>2. ReqInv'
    BY DEF IInv, TypeOK, SeqCombine, taskVars, callVars, ReqInv, Decoding
  <1>3. SectionInv'
    BY DEF IInv, TypeOK, SeqCombine, taskVars, callVars, SectionInv, ReqInv,
        Decoding, Running, Sections
  <1>4. BufferInv'
    BY StableRequest
       DEF IInv, TypeOK, SeqCombine, taskVars, callVars, BufferInv,
        SectionInv, Decoding
  <1>5. ChunkTaskInv'
    BY StableRequest
       DEF IInv, TypeOK, SeqCombine, taskVars, callVars, ChunkTaskInv,
        SectionInv, Combining, Running
  <1>6. CursorInv'
    BY StableRequest
       DEF IInv, TypeOK, SeqCombine, taskVars, callVars, CursorInv, Combining,
        ChunkTaskInv
  <1>7. ProgressInv'
    BY StableRequest, StableChunks
       DEF IInv, TypeOK, SeqCombine, taskVars, callVars, ProgressInv,
        ChunkTaskInv, Combining
  <1>8. SequentialInv'
    <2>1. /\ chunk < NumChunks(Count)
          /\ k = 0 \/ ChunkHolds(chunk, 0..(k - 1))
          /\ \A c \in 0..(chunk - 1) : ChunkHolds(c, Sections)
      BY <1>0 DEF IInv, SequentialInv, SeqCombine
    <2>2. PICK s \in Sections, c0 \in Nat : s = k /\ c0 = chunk
      BY <1>0
    <2>c. PICK m : m = cells
      OBVIOUS
    <2>3. \A i \in 0..(Count - 1) : m[i] = {Token(s, req.start + i)}
      BY <1>0, <2>2, <2>c, SizesAssumption DEF Decoded, Rows
    <2>4. /\ ChunkHolds(c0, 0..s)'
          /\ \A d \in Nat : \A secs : d # c0 /\ ChunkHolds(d, secs) => ChunkHolds(d, secs)'
      <3>1. dst' = Combined(dst, c0, s, m) /\ req' = req /\ Count \in Nat /\ TypeOK
        BY <1>0, <2>2, <2>c DEF SeqCombine, callVars, IInv
      <3>2. s = 0 \/ ChunkHolds(c0, 0..(s - 1))
        BY <2>1, <2>2
      <3>3. QED
        BY <2>3, <3>1, <3>2, CombineHolds
    <2>5. \A c \in 0..(chunk - 1) : ChunkHolds(c, Sections)'
      BY <1>0, <2>1, <2>2, <2>4
    <2>6. CASE k + 1 < Splits
      <3>1. k' = k + 1 /\ chunk' = chunk /\ k + 1 \in Sections /\ 0..(k' - 1) = 0..k
        BY <1>0, <2>6, SizesAssumption DEF SeqCombine, Sections
      <3>2. pc' = "seqChunk"
        BY DEF SeqCombine
      <3>3. k' > 0 => chunk' < NumChunks(Count) /\ ChunkHolds(c0, 0..s)'
        BY <2>1, <2>4, <3>1
      <3>4. QED
        BY <1>0, <2>1, <2>2, <2>4, <2>5, <3>1, <3>2 DEF SequentialInv
    <2>7. CASE ~(k + 1 < Splits)
      <3>1. k' = 0 /\ chunk' = chunk + 1 /\ 0 \in Sections /\ 0..s = Sections
        BY <1>0, <2>2, <2>7, SizesAssumption DEF SeqCombine, Sections
      <3>2. pc' = "seqChunk" /\ chunk' <= NumChunks(Count)
        BY <1>0, <2>1, <3>1 DEF SeqCombine
      <3>3. \A c \in 0..(chunk' - 1) : ChunkHolds(c, Sections)'
        BY <1>0, <2>2, <2>4, <2>5, <3>1
      <3>4. QED
        BY <1>0, <3>1, <3>2, <3>3 DEF SequentialInv
    <2>8. QED
      BY <2>6, <2>7
  <1>9. RangeExact'
    BY DEF IInv, TypeOK, SeqCombine, taskVars, callVars, RangeExact
  <1>10. QED
    BY <1>1, <1>2, <1>3, <1>4, <1>5, <1>6, <1>7, <1>8, <1>9 DEF IInv

\* A codec that throws has stored nothing.
LEMMA SeqCombineFailsInvariant ==
    ASSUME IInv, SeqCombineFails
    PROVE  IInv'
  <1>1. TypeOK'
    BY SizesAssumption, RequestsAssumption
       DEF IInv, TypeOK, SeqCombineFails, taskVars, callVars, PCs, TaskState,
        ReqInv, Decoding
  <1>2. ReqInv'
    BY DEF IInv, TypeOK, SeqCombineFails, taskVars, callVars, ReqInv, Decoding
  <1>3. SectionInv'
    BY DEF IInv, TypeOK, SeqCombineFails, taskVars, callVars, SectionInv,
        ReqInv, Decoding, Running, Sections
  <1>4. BufferInv'
    BY StableRequest
       DEF IInv, TypeOK, SeqCombineFails, taskVars, callVars, BufferInv,
        SectionInv, Decoding
  <1>5. ChunkTaskInv'
    BY StableRequest
       DEF IInv, TypeOK, SeqCombineFails, taskVars, callVars, ChunkTaskInv,
        SectionInv, Combining, Running
  <1>6. CursorInv'
    BY StableRequest
       DEF IInv, TypeOK, SeqCombineFails, taskVars, callVars, CursorInv,
        Combining, ChunkTaskInv
  <1>7. ProgressInv'
    BY StableRequest, StableChunks
       DEF IInv, TypeOK, SeqCombineFails, taskVars, callVars, ProgressInv,
        ChunkTaskInv, Combining
  <1>8. SequentialInv'
    BY StableRequest, StableChunks
       DEF IInv, TypeOK, SeqCombineFails, taskVars, callVars, SequentialInv
  <1>9. RangeExact'
    BY DEF IInv, TypeOK, SeqCombineFails, taskVars, callVars, RangeExact
  <1>10. QED
    BY <1>1, <1>2, <1>3, <1>4, <1>5, <1>6, <1>7, <1>8, <1>9 DEF IInv

\* When the last chunk is complete every row of the range is delivered.
LEMMA SeqDoneInvariant ==
    ASSUME IInv, SeqDone
    PROVE  IInv'
  <1>1. TypeOK'
    BY SizesAssumption, RequestsAssumption
       DEF IInv, TypeOK, SeqDone, taskVars, callVars, PCs, TaskState, ReqInv,
        Decoding
  <1>2. ReqInv'
    BY DEF IInv, TypeOK, SeqDone, taskVars, callVars, ReqInv, Decoding
  <1>3. SectionInv'
    BY DEF IInv, TypeOK, SeqDone, taskVars, callVars, SectionInv, ReqInv,
        Decoding, Running, Sections
  <1>4. BufferInv'
    BY StableRequest
       DEF IInv, TypeOK, SeqDone, taskVars, callVars, BufferInv, SectionInv,
        Decoding
  <1>5. ChunkTaskInv'
    BY StableRequest
       DEF IInv, TypeOK, SeqDone, taskVars, callVars, ChunkTaskInv,
        SectionInv, Combining, Running
  <1>6. CursorInv'
    BY StableRequest
       DEF IInv, TypeOK, SeqDone, taskVars, callVars, CursorInv, Combining,
        ChunkTaskInv
  <1>7. ProgressInv'
    BY StableRequest, StableChunks
       DEF IInv, TypeOK, SeqDone, taskVars, callVars, ProgressInv,
        ChunkTaskInv, Combining
  <1>8. SequentialInv'
    BY StableRequest, StableChunks
       DEF IInv, TypeOK, SeqDone, taskVars, callVars, SequentialInv
  <1>9. RangeExact'
    <2>1. Count \in Nat \ {0} /\ chunk = NumChunks(Count)
      BY RangeBeingDecoded DEF IInv, SeqDone, Decoding
    <2>2. \A c \in 0..(NumChunks(Count) - 1) : ChunkHolds(c, Sections)
      BY <2>1 DEF IInv, SequentialInv, SeqDone
    <2>3. \A i \in 0..(Count - 1) :
              req.off + i \in Slots => dst[req.off + i] = RowTokens(req.start + i)
      BY <2>1, <2>2, ChunksMakeTheRange DEF IInv
    <2>4. QED
      BY <2>3, StableRequest DEF RangeExact, SeqDone, callVars
  <1>10. QED
    BY <1>1, <1>2, <1>3, <1>4, <1>5, <1>6, <1>7, <1>8, <1>9 DEF IInv

\* A codec task fills its own buffer with its section of the range.
LEMMA PreTaskInvariant ==
    ASSUME IInv, NEW s \in Sections, PreTask(s)
    PROVE  IInv'
  <1>1. TypeOK'
    <2>1. Decoded(s) \in [Rows -> Cell]
      BY DecodedType DEF IInv
    <2>2. pre' \in [Sections -> [Rows -> Cell]]
      BY <2>1 DEF IInv, TypeOK, PreTask
    <2>3. secTask' \in [Sections -> TaskState]
      BY DEF IInv, TypeOK, PreTask, TaskState
    <2>4. QED
      BY <2>1, <2>2, <2>3 DEF IInv, TypeOK, PreTask, callVars, taskVars, PCs
  <1>2. ReqInv'
    BY DEF IInv, TypeOK, PreTask, taskVars, callVars, ReqInv, Decoding
  <1>3. SectionInv'
    BY DEF IInv, TypeOK, PreTask, taskVars, callVars, SectionInv, ReqInv,
        Decoding, Running, Sections
  <1>4. BufferInv'
    BY StableRequest
       DEF IInv, TypeOK, PreTask, taskVars, callVars, BufferInv, SectionInv,
        Decoding
  <1>5. ChunkTaskInv'
    BY StableRequest
       DEF IInv, TypeOK, PreTask, taskVars, callVars, ChunkTaskInv,
        SectionInv, Combining, Running
  <1>6. CursorInv'
    BY StableRequest
       DEF IInv, TypeOK, PreTask, taskVars, callVars, CursorInv, Combining,
        ChunkTaskInv
  <1>7. ProgressInv'
    BY StableRequest, StableChunks
       DEF IInv, TypeOK, PreTask, taskVars, callVars, ProgressInv,
        ChunkTaskInv, Combining
  <1>8. SequentialInv'
    BY StableRequest, StableChunks
       DEF IInv, TypeOK, PreTask, taskVars, callVars, SequentialInv
  <1>9. RangeExact'
    <2>1. pc # "rangeDone"
      BY DEF IInv, SectionInv, PreTask
    <2>2. QED
      BY <2>1 DEF RangeExact, PreTask
  <1>10. QED
    BY <1>1, <1>2, <1>3, <1>4, <1>5, <1>6, <1>7, <1>8, <1>9 DEF IInv

\* An accumulation task advances in its own span and leaves the chunks of
\* the other spans as they are.
LEMMA ChunkTaskInvariant ==
    ASSUME IInv, NEW t \in Threads, ChunkTask(t)
    PROVE  IInv'
  <1>0. PICK c \in Nat, s \in Sections : c = chunkTask[t].c /\ s = chunkTask[t].s
    BY DEF IInv, TypeOK, CursorInv, ChunkTask, Combining
  <1> DEFINE more == LastChunk(t, Count) > c + 1
             next == IF s + 1 < Splits THEN [st |-> "run", c |-> c, s |-> s + 1]
                     ELSE IF c + 1 < LastChunk(t, Count) THEN [st |-> "run", c |-> c + 1, s |-> 0]
                     ELSE [st |-> "done", c |-> c, s |-> 0]
  <1>00. /\ t \in Combining /\ t \in Nat /\ s \in Nat
         /\ pc \in {"chunkSpawn", "chunkJoin", "unwind"}
         /\ live = Sections
         /\ Count \in Nat \ {0} /\ Count <= N /\ Count' = Count
         /\ FirstChunk(t, Count) \in Nat /\ LastChunk(t, Count) \in Nat
         /\ FirstChunk(t, Count) <= c /\ c < LastChunk(t, Count)
         /\ dst' = Combined(dst, c, s, pre[s]) /\ req' = req
    <2>1. t \in Combining /\ t \in Nat
      BY ThreadCapPositive DEF ChunkTask, Combining, Threads
    <2>2. pc \in {"chunkSpawn", "chunkJoin", "unwind"} /\ live = Sections
      BY <2>1 DEF IInv, TypeOK, ChunkTaskInv, PCs, Combining
    <2>3. /\ Count \in Nat \ {0} /\ Count <= N /\ Count' = Count
          /\ FirstChunk(t, Count) \in Nat /\ LastChunk(t, Count) \in Nat
      BY <2>2, RangeBeingDecoded, StableRequest DEF IInv, ChunkTask, callVars, Decoding
    <2>4. FirstChunk(t, Count) <= c /\ c < LastChunk(t, Count)
      BY <2>1, <2>3, <1>0 DEF IInv, CursorInv
    <2>5. s \in Nat
      BY DEF Sections
    <2>6. QED
      BY <2>1, <2>2, <2>3, <2>4, <2>5, <1>0 DEF ChunkTask, callVars
  <1>000. /\ chunkTask'[t] = next
          /\ \A u \in Threads : u # t => chunkTask'[u] = chunkTask[u]
          /\ next \in [st : {"none", "run", "done"}, c : Nat, s : Nat]
          /\ next.c \in FirstChunk(t, Count)..(LastChunk(t, Count) - 1) /\ next.s \in Sections
    <2>1. chunkTask' = [chunkTask EXCEPT ![t] = next]
      BY <1>0 DEF ChunkTask
    <2>2. /\ next \in [st : {"none", "run", "done"}, c : Nat, s : Nat]
          /\ next.c \in FirstChunk(t, Count)..(LastChunk(t, Count) - 1) /\ next.s \in Sections
      BY <1>00, SizesAssumption DEF Sections
    <2> HIDE DEF next
    <2>3. QED
      BY <2>1, <2>2 DEF IInv, TypeOK
  <1>1. TypeOK'
    <2>1. pre[s] \in [Rows -> Cell]
      BY DEF IInv, TypeOK
    <2>2. dst' \in [Slots -> Cell]
      BY <1>00, <2>1, CombinedType DEF IInv
    <2>3. chunkTask' \in [Threads -> [st : {"none", "run", "done"}, c : Nat, s : Nat]]
      <3> HIDE DEF next
      <3>1. chunkTask' = [chunkTask EXCEPT ![t] = next]
        BY <1>0 DEF ChunkTask, next
      <3>2. QED
        BY <3>1, <1>000 DEF IInv, TypeOK
    <2>4. QED
      BY <2>1, <2>2, <2>3 DEF IInv, TypeOK, ChunkTask, callVars, taskVars, PCs
  <1>2. ReqInv'
    BY DEF IInv, TypeOK, ChunkTask, taskVars, callVars, ReqInv, Decoding
  <1>3. SectionInv'
    BY DEF IInv, TypeOK, ChunkTask, taskVars, callVars, SectionInv, ReqInv,
        Decoding, Running, Sections
  <1>4. BufferInv'
    BY StableRequest
       DEF IInv, TypeOK, ChunkTask, taskVars, callVars, BufferInv, SectionInv,
        Decoding
  <1>5. ChunkTaskInv'
    <2>1. next.st # "none" /\ chunkTask[t].st # "none"
      BY DEF ChunkTask
    <2> HIDE DEF next
    <2>2. \A u \in Threads : chunkTask'[u].st = "none" <=> chunkTask[u].st = "none"
      BY <2>1, <1>000
    <2>3. NThreads' = NThreads
      BY <1>00, StableRequest
    <2>4. live' = Sections /\ Running' = {} /\ pc' = pc /\ k' = k
      BY <1>00 DEF IInv, ChunkTaskInv, ChunkTask, Running
    <2>5. QED
      BY <1>00, <2>2, <2>3, <2>4 DEF IInv, ChunkTaskInv
  <1>6. CursorInv'
    <2> HIDE DEF next
    <2>1. ASSUME NEW u \in Combining'
          PROVE  /\ chunkTask'[u].c \in FirstChunk(u, Count)..(LastChunk(u, Count) - 1)
                 /\ chunkTask'[u].s \in Sections
      <3>1. CASE u = t
        BY <3>1, <1>000
      <3>2. CASE u # t
        BY <3>2, <1>000 DEF IInv, CursorInv, Combining
      <3>3. QED
        BY <3>1, <3>2
    <2>2. QED
      BY <2>1, <1>00 DEF CursorInv
  <1>7. ProgressInv'
    <2> SUFFICES ASSUME pc \in {"chunkSpawn", "chunkJoin"}
                 PROVE  ProgressInv'
      BY DEF ProgressInv, ChunkTask
    <2>1. \A i \in 0..(Count - 1) : pre[s][i] = {Token(s, req.start + i)}
      <3>1. pre[s] = Decoded(s)
        BY <1>00 DEF IInv, BufferInv, SectionInv, Decoding
      <3>2. QED
        BY <1>00, <3>1, SizesAssumption DEF Decoded, Rows
    <2>2. s = 0 \/ ChunkHolds(c, 0..(s - 1))
      BY <1>0, <1>00 DEF IInv, ProgressInv
    <2>3. \A b \in FirstChunk(t, Count)..(c - 1) : ChunkHolds(b, Sections)
      BY <1>0, <1>00 DEF IInv, ProgressInv
    <2>4. /\ ChunkHolds(c, 0..s)'
          /\ \A d \in Nat : \A secs : d # c /\ ChunkHolds(d, secs) => ChunkHolds(d, secs)'
      <3>1. PICK m : m = pre[s]
        OBVIOUS
      <3>2. dst' = Combined(dst, c, s, m) /\ req' = req /\ Count \in Nat /\ TypeOK
        BY <1>00, <3>1 DEF IInv
      <3>3. \A i \in 0..(Count - 1) : m[i] = {Token(s, req.start + i)}
        BY <2>1, <3>1
      <3>4. QED
        BY <2>2, <3>2, <3>3, CombineHolds
    <2>5. \A b \in FirstChunk(t, Count)..(c - 1) : ChunkHolds(b, Sections)'
      BY <1>00, <2>3, <2>4
    <2>6. PICK r \in [st : {"none", "run", "done"}, c : Nat, s : Nat] : r = next
      <3> HIDE DEF next
      <3>1. QED
        BY <1>000
    <2>7. /\ r.st = "run" /\ r.s > 0 => ChunkHolds(r.c, 0..(r.s - 1))'
          /\ r.st = "run" => \A b \in FirstChunk(t, Count)..(r.c - 1) : ChunkHolds(b, Sections)'
          /\ r.st = "done" => \A b \in FirstChunk(t, Count)..(LastChunk(t, Count) - 1) : ChunkHolds(b, Sections)'
      <3>1. CASE s + 1 < Splits
        <4>1. r.st = "run" /\ r.c = c /\ r.s = s + 1 /\ 0..(r.s - 1) = 0..s
          BY <2>6, <3>1, <1>00
        <4>2. QED
          BY <2>4, <2>5, <4>1
      <3>2. CASE ~(s + 1 < Splits)
        <4>1. 0..s = Sections
          BY <3>2, <1>00, SizesAssumption DEF Sections
        <4>2. \A b \in FirstChunk(t, Count)..c : ChunkHolds(b, Sections)'
          BY <1>00, <2>4, <2>5, <4>1
        <4>3. CASE c + 1 < LastChunk(t, Count)
          <5>1. r.st = "run" /\ r.c = c + 1 /\ r.s = 0 /\ r.c - 1 = c
            BY <2>6, <3>2, <4>3
          <5>2. QED
            BY <4>2, <5>1
        <4>4. CASE ~(c + 1 < LastChunk(t, Count))
          <5>1. r.st = "done" /\ LastChunk(t, Count) - 1 = c
            BY <2>6, <3>2, <4>4, <1>00
          <5>2. QED
            BY <4>2, <5>1
        <4>5. QED
          BY <4>3, <4>4
      <3>3. QED
        BY <3>1, <3>2
    <2> HIDE DEF next
    <2>8. ASSUME NEW u \in Threads, u # t,
                 NEW b \in FirstChunk(u, Count)..(LastChunk(u, Count) - 1),
                 ChunkHolds(b, Sections)
          PROVE  ChunkHolds(b, Sections)'
      <3>1. u \in Nat /\ FirstChunk(u, Count) \in Nat /\ LastChunk(u, Count) \in Nat
        BY <1>00, SpanBounds, ThreadCapPositive DEF Threads
      <3>2. LastChunk(u, Count) <= FirstChunk(t, Count) \/ LastChunk(t, Count) <= FirstChunk(u, Count)
        BY <1>00, <2>8, <3>1, SpansOrdered
      <3>3. b # c /\ b \in Nat
        BY <1>00, <3>1, <3>2
      <3>4. QED
        BY <2>4, <2>8, <3>3
    <2>9. ASSUME NEW u \in Combining'
          PROVE  /\ chunkTask'[u].s > 0 =>
                       ChunkHolds(chunkTask[u].c, 0..(chunkTask[u].s - 1))'
                 /\ \A b \in FirstChunk(u, Count)..(chunkTask'[u].c - 1) : ChunkHolds(b, Sections)'
      <3>1. CASE u = t
        <4>1. chunkTask'[u].s = r.s /\ chunkTask'[u].c = r.c /\ r.st = "run"
          BY <2>6, <3>1, <1>000 DEF Combining
        <4>2. QED
          BY <2>7, <3>1, <4>1
      <3>2. CASE u # t
        <4>1. u \in Threads /\ chunkTask'[u] = chunkTask[u] /\ u \in Combining
          BY <3>2, <1>000 DEF Combining
        <4>2. u \in Nat /\ FirstChunk(u, Count) \in Nat /\ LastChunk(u, Count) \in Nat
          BY <4>1, <1>00, SpanBounds, ThreadCapPositive DEF Threads
        <4>3. PICK cu \in Nat, su \in Nat : cu = chunkTask[u].c /\ su = chunkTask[u].s
          BY <4>1 DEF IInv, TypeOK
        <4>4. FirstChunk(u, Count) <= cu /\ cu < LastChunk(u, Count)
          BY <4>1, <4>2, <4>3 DEF IInv, CursorInv
        <4>5. LastChunk(u, Count) <= FirstChunk(t, Count) \/ LastChunk(t, Count) <= FirstChunk(u, Count)
          BY <1>00, <3>2, <4>2, SpansOrdered
        <4>6. cu # c
          BY <1>00, <4>2, <4>4, <4>5
        <4>7. /\ su > 0 => ChunkHolds(cu, 0..(su - 1))
              /\ \A b \in FirstChunk(u, Count)..(cu - 1) : ChunkHolds(b, Sections)
          BY <4>1, <4>3 DEF IInv, ProgressInv
        <4>8. su > 0 => ChunkHolds(cu, 0..(su - 1))'
          BY <2>4, <4>6, <4>7
        <4>9. \A b \in FirstChunk(u, Count)..(cu - 1) : ChunkHolds(b, Sections)'
          BY <2>8, <3>2, <4>1, <4>2, <4>4, <4>7
        <4>10. chunkTask'[u].s = su /\ chunkTask'[u].c = cu
          BY <4>1, <4>3
        <4>11. QED
          BY <4>8, <4>9, <4>10
      <3>3. QED
        BY <3>1, <3>2
    <2>10. ASSUME NEW u \in Threads, chunkTask'[u].st = "done" \/ (pc = "chunkJoin" /\ u < k)
          PROVE  \A b \in FirstChunk(u, Count)..(LastChunk(u, Count) - 1) : ChunkHolds(b, Sections)'
      <3>1. CASE u = t
        <4>1. ~(pc = "chunkJoin" /\ t < k)
          BY <1>00 DEF IInv, ChunkTaskInv, Combining
        <4>2. QED
          BY <2>7, <2>6, <2>10, <3>1, <4>1, <1>000
      <3>2. CASE u # t
        <4>1. chunkTask[u].st = "done" \/ (pc = "chunkJoin" /\ u < k)
          BY <2>10, <3>2, <1>000
        <4>2. QED
          BY <2>8, <3>2, <4>1 DEF IInv, ProgressInv
      <3>3. QED
        BY <3>1, <3>2
    <2>11. Count' = Count /\ pc' = pc /\ k' = k
      BY <1>00 DEF ChunkTask
    <2>12. \A u : FirstChunk(u, Count)' = FirstChunk(u, Count) /\ LastChunk(u, Count)' = LastChunk(u, Count)
      BY <2>11 DEF FirstChunk, LastChunk, ChunksPerThread
    <2>13. QED
      BY <2>9, <2>10, <2>11, <2>12 DEF ProgressInv
  <1>8. SequentialInv'
    BY <1>00 DEF SequentialInv, ChunkTask
  <1>9. RangeExact'
    BY <1>00 DEF RangeExact, ChunkTask
  <1>10. QED
    BY <1>1, <1>2, <1>3, <1>4, <1>5, <1>6, <1>7, <1>8, <1>9 DEF IInv

-----------------------------------------------------------------------------
(* The invariant, and the properties that follow from it.                  *)

\* Every step of the caller, of a codec task and of an accumulation task keeps
\* the invariant; so does a stuttering step.
LEMMA NextInvariant ==
    ASSUME IInv, [Next]_vars
    PROVE  IInv'
  <1>1. CASE CallerStep
    <2>1. CASE EnterRange
      BY <2>1, EnterRangeInvariant
    <2>2. CASE DecodeAt
      BY <2>2, DecodeAtInvariant
    <2>3. CASE SkipRange
      BY <2>3, SkipRangeInvariant
    <2>4. CASE RangeDone
      BY <2>4, RangeDoneInvariant
    <2>5. CASE Finish
      BY <2>5, FinishInvariant
    <2>6. CASE SpawnPre
      BY <2>6, SpawnPreInvariant
    <2>7. CASE SpawnPreFails
      BY <2>7, SpawnPreFailsInvariant
    <2>8. CASE JoinPre
      BY <2>8, JoinPreInvariant
    <2>9. CASE SpawnChunkTask
      BY <2>9, SpawnChunkTaskInvariant
    <2>10. CASE SpawnChunkFails
      BY <2>10, SpawnChunkFailsInvariant
    <2>11. CASE ChunksSpawned
      BY <2>11, ChunksSpawnedInvariant
    <2>12. CASE JoinChunkTask
      BY <2>12, JoinChunkTaskInvariant
    <2>13. CASE ChunksJoined
      BY <2>13, ChunksJoinedInvariant
    <2>14. CASE Unwind
      BY <2>14, UnwindInvariant
    <2>15. CASE SeqPre
      BY <2>15, SeqPreInvariant
    <2>16. CASE SeqPreFails
      BY <2>16, SeqPreFailsInvariant
    <2>17. CASE SeqCombine
      BY <2>17, SeqCombineInvariant
    <2>18. CASE SeqCombineFails
      BY <2>18, SeqCombineFailsInvariant
    <2>19. CASE SeqDone
      BY <2>19, SeqDoneInvariant
    <2>20. QED
      BY <1>1, <2>1, <2>2, <2>3, <2>4, <2>5, <2>6, <2>7, <2>8, <2>9, <2>10,
        <2>11, <2>12, <2>13, <2>14, <2>15, <2>16, <2>17, <2>18, <2>19
         DEF CallerStep
  <1>2. ASSUME NEW q \in Requests, Call(q)
        PROVE  IInv'
    BY <1>2, CallInvariant
  <1>3. ASSUME NEW s \in Sections, PreTask(s)
        PROVE  IInv'
    BY <1>3, PreTaskInvariant
  <1>4. ASSUME NEW t \in Threads, ChunkTask(t)
        PROVE  IInv'
    BY <1>4, ChunkTaskInvariant
  <1>5. CASE UNCHANGED vars
    <2>1. UNCHANGED <<callVars, taskVars, pc, k, chunk, live, pre, dst, outcome>>
      BY <1>5 DEF vars, callVars, taskVars
    <2>2. TypeOK' /\ ReqInv' /\ SectionInv'
      BY <2>1 DEF IInv, TypeOK, ReqInv, SectionInv, Running, callVars, taskVars
    <2>3. BufferInv' /\ ChunkTaskInv' /\ CursorInv'
      BY <2>1, StableRequest
      DEF IInv, BufferInv, ChunkTaskInv, CursorInv, Running, Combining, callVars, taskVars
    <2>4. ProgressInv' /\ SequentialInv'
      BY <2>1, StableRequest, StableChunks
      DEF IInv, ProgressInv, SequentialInv, Combining, callVars, taskVars
    <2>5. RangeExact'
      BY <2>1, StableRequest DEF IInv, RangeExact, callVars
    <2>6. QED
      BY <2>2, <2>3, <2>4, <2>5 DEF IInv
  <1>6. QED
    BY <1>1, <1>2, <1>3, <1>4, <1>5 DEF Next

\* The invariant holds in every state the decode paths reach, for every number
\* of rows, sections and threads and every set of requests.
THEOREM Invariance == Spec => []IInv
  <1>1. IInv /\ [Next]_vars => IInv'
    BY NextInvariant
  <1>2. QED
    BY InitInvariant, <1>1, PTL DEF Spec

\* Every local of the decode paths keeps its type: no negative count, offset or
\* loop bound arises from clamping and partitioning.
THEOREM TypeCorrect == Spec => []TypeOK
  <1>1. IInv => TypeOK
    BY DEF IInv
  <1>2. QED
    BY Invariance, <1>1, PTL

\* No task ever touches a section buffer that is not allocated, also while an
\* exception unwinds through the decode.
THEOREM LiveBuffers == Spec => []TasksUseLiveBuffers
  <1>1. IInv => TasksUseLiveBuffers
    BY DEF IInv, SectionInv, ChunkTaskInv, TasksUseLiveBuffers
  <1>2. QED
    BY Invariance, <1>1, PTL

\* No task survives the call, or the range of a gather, that started it.
THEOREM TasksEndWithCall == Spec => []NoTaskOutlivesCall
  <1>1. ASSUME IInv, pc \in {"idle", "next", "rangeDone"}
        PROVE  Running = {} /\ Combining = {}
    <2>1. \A s \in Sections : secTask[s] = "none"
      BY <1>1 DEF IInv, SectionInv
    <2>2. \A t \in Threads : chunkTask[t].st = "none"
      BY <1>1 DEF IInv, ChunkTaskInv
    <2>3. QED
      BY <2>1, <2>2 DEF Running, Combining
  <1>2. IInv => NoTaskOutlivesCall
    BY <1>1 DEF NoTaskOutlivesCall
  <1>3. QED
    BY Invariance, <1>2, PTL

\* No codec runs while rows are being combined.
THEOREM PhasesSeparate == Spec => []PhasesDoNotOverlap
  <1>1. IInv => PhasesDoNotOverlap
    BY DEF IInv, ChunkTaskInv, PhasesDoNotOverlap
  <1>2. QED
    BY Invariance, <1>1, PTL

\* Two accumulation tasks never have a chunk in common still to do: they write
\* disjoint parts of the destination and need no lock.
THEOREM WritersDisjoint == Spec => []DisjointWriters
  <1>1. ASSUME IInv, NEW t \in Combining, NEW u \in Combining, t # u
        PROVE  (chunkTask[t].c .. LastChunk(t, Count) - 1)
               \cap (chunkTask[u].c .. LastChunk(u, Count) - 1) = {}
    <2>1. /\ t \in Threads /\ u \in Threads /\ t \in Nat /\ u \in Nat
          /\ pc \in {"chunkSpawn", "chunkJoin", "unwind"}
      BY <1>1, ThreadCapPositive DEF IInv, TypeOK, PCs, ChunkTaskInv, Combining, Threads
    <2>2. Count \in Nat \ {0}
      BY <1>1, <2>1, RangeBeingDecoded DEF IInv, Decoding
    <2>3. /\ FirstChunk(t, Count) \in Nat /\ LastChunk(t, Count) \in Nat
          /\ FirstChunk(u, Count) \in Nat /\ LastChunk(u, Count) \in Nat
      BY <2>1, <2>2, SpanBounds
    <2>4. /\ chunkTask[t].c \in FirstChunk(t, Count)..(LastChunk(t, Count) - 1)
          /\ chunkTask[u].c \in FirstChunk(u, Count)..(LastChunk(u, Count) - 1)
      BY <1>1 DEF IInv, CursorInv
    <2>5. LastChunk(t, Count) <= FirstChunk(u, Count) \/ LastChunk(u, Count) <= FirstChunk(t, Count)
      BY <1>1, <2>1, <2>2, SpansOrdered
    <2>6. QED
      BY <2>3, <2>4, <2>5
  <1>2. IInv => DisjointWriters
    BY <1>1 DEF DisjointWriters
  <1>3. QED
    BY Invariance, <1>2, PTL

\* A range reported done has every one of its rows in its slot, complete and
\* free of what the destination held before, however many threads shared it.
THEOREM RangesAreExact == Spec => []RangeExact
  <1>1. IInv => RangeExact
    BY DEF IInv
  <1>2. QED
    BY Invariance, <1>1, PTL

-----------------------------------------------------------------------------
(* What has not been stored to.                                            *)

\* The range that is being decoded is the clamped one the call is at.
AtRange ==
    pc \in Decoding \cup {"rangeDone", "unwind"} =>
        /\ req.start = call.ranges[idx].begin
        /\ req.end = Least(call.ranges[idx].end, N)

\* From slot x on, the destination is as the call found it.
FreshFrom(x) == \A y \in Slots : y >= x => dst[y] = Fill(call.op)

CodecTasks == \E s \in Sections : secTask[s] # "none"

\* Rows are stored behind the output offset, and no further than the range at
\* hand; until its codec tasks are joined, not even there.
FreshInv ==
    /\ pc \in {"next", "preSpawn", "preJoin"} => FreshFrom(req.off)
    /\ pc \in Decoding \cup {"rangeDone"} => FreshFrom(req.off + Count)
    /\ pc = "unwind" /\ CodecTasks => FreshFrom(req.off) /\ Combining = {}

FInv == IInv /\ AtRange /\ FreshInv

\* Combining a section into a chunk of the range stores to slots of the range only.
LEMMA CombineStaysInRange ==
    ASSUME TypeOK, Count \in Nat, NEW c \in Nat, NEW s, NEW cells,
           dst' = Combined(dst, c, s, cells),
           NEW x \in Slots, x < req.off \/ x >= req.off + Count
    PROVE  dst'[x] = dst[x]
  <1>1. x - req.off \notin ChunkOffsets(c, Count)
    <2>1. ChunkOffsets(c, Count) \subseteq 0..(Count - 1)
      BY ChunkOffsetsInRange
    <2>2. x - req.off \notin 0..(Count - 1)
      BY SizesAssumption DEF TypeOK, Slots
    <2>3. QED
      BY <2>1, <2>2
  <1>2. QED
    BY <1>1 DEF Combined

\* Where a range is being decoded the caller and its tasks are as their types say.
LEMMA Decodes ==
    ASSUME IInv, pc \in Decoding \cup {"rangeDone", "unwind"}
    PROVE  /\ Count \in Nat \ {0} /\ Count <= N
           /\ req.off \in Nat /\ req.start \in Nat /\ req.end \in Nat
           /\ call.ranges[idx] \in RowRange
           /\ RangeSize(call.ranges[idx]) \in Nat
  <1>1. Count \in Nat \ {0} /\ Count <= N
    BY RangeBeingDecoded DEF IInv
  <1>2. idx <= Len(call.ranges)
    BY DEF IInv, ReqInv
  <1>3. QED
    BY <1>1, <1>2, RangeAtHand DEF IInv, TypeOK

\* What an accumulation task finds when it takes a step.
LEMMA ChunkTaskAt ==
    ASSUME IInv, NEW t \in Threads, ChunkTask(t)
    PROVE  /\ pc \in {"chunkSpawn", "chunkJoin", "unwind"}
           /\ t \in Combining
           /\ \E c \in Nat, s \in Sections : dst' = Combined(dst, c, s, pre[s])
           /\ UNCHANGED <<pc, call, idx, req, secTask, outcome>>
  <1>1. t \in Combining
    BY DEF ChunkTask, Combining
  <1>2. pc \in {"chunkSpawn", "chunkJoin", "unwind"}
    BY <1>1 DEF IInv, TypeOK, PCs, ChunkTaskInv, Combining
  <1>3. chunkTask[t].c \in Nat /\ chunkTask[t].s \in Sections
    BY <1>1 DEF IInv, TypeOK, CursorInv
  <1>4. QED
    BY <1>1, <1>2, <1>3 DEF ChunkTask, callVars

\* The caller is where its range is, whatever step is taken.
LEMMA AtRangeStep ==
    ASSUME FInv, IInv', [Next]_vars
    PROVE  AtRange'
  <1> USE DEF FInv
  <1>1. CASE CallerStep
    <2>1. CASE EnterRange
      <3>1. req' = [req EXCEPT !.start = call.ranges[idx].begin,
                               !.end = Least(call.ranges[idx].end, N)]
        BY <2>1 DEF EnterRange
      <3>2. QED
        BY <2>1, <3>1 DEF EnterRange, AtRange, IInv, TypeOK
    <2>2. CASE DecodeAt
      <3>1. /\ req' = [req EXCEPT !.start = call.ranges[idx].begin,
                                  !.end = call.ranges[idx].end]
            /\ call.ranges[idx].begin < N
            /\ call.ranges[idx].end = call.ranges[idx].begin + 1
        BY <2>2 DEF DecodeAt
      <3>2. call.ranges[idx].begin \in Nat
        BY <2>2, RangeAtHand DEF DecodeAt, IInv, RowRange
      <3>3. Least(call.ranges[idx].end, N) = call.ranges[idx].end
        BY <3>1, <3>2, SizesAssumption DEF Least
      <3>4. call' = call /\ idx' = idx
        BY <2>2 DEF DecodeAt
      <3>5. QED
        BY <3>1, <3>3, <3>4 DEF AtRange, IInv, TypeOK
    <2>3. CASE SkipRange \/ RangeDone \/ Finish \/ Unwind
      BY <2>3 DEF AtRange, SkipRange, RangeDone, Finish, Unwind, Decoding
    <2>4. CASE \/ SpawnPre \/ SpawnPreFails \/ JoinPre
               \/ SpawnChunkTask \/ SpawnChunkFails \/ ChunksSpawned
               \/ JoinChunkTask \/ ChunksJoined
               \/ SeqPre \/ SeqPreFails \/ SeqCombine \/ SeqCombineFails \/ SeqDone
      <3>1. /\ call' = call /\ idx' = idx /\ req' = req
            /\ pc \in Decoding
        BY <2>4 DEF SpawnPre, SpawnPreFails, JoinPre, SpawnChunkTask, SpawnChunkFails,
                    ChunksSpawned, JoinChunkTask, ChunksJoined, SeqPre, SeqPreFails,
                    SeqCombine, SeqCombineFails, SeqDone, callVars, Decoding
      <3>2. QED
        BY <3>1 DEF AtRange
    <2>5. QED
      BY <1>1, <2>1, <2>2, <2>3, <2>4 DEF CallerStep
  <1>2. ASSUME NEW q \in Requests, Call(q) PROVE AtRange'
    BY <1>2 DEF Call, AtRange, Decoding
  <1>3. ASSUME NEW s \in Sections, PreTask(s) PROVE AtRange'
    BY <1>3 DEF PreTask, AtRange, callVars
  <1>4. ASSUME NEW t \in Threads, ChunkTask(t) PROVE AtRange'
    BY <1>4 DEF ChunkTask, AtRange, callVars
  <1>5. CASE UNCHANGED vars
    BY <1>5 DEF vars, AtRange
  <1>6. QED
    BY <1>1, <1>2, <1>3, <1>4, <1>5 DEF Next

\* Nothing is stored too early or too far, whatever step is taken.
LEMMA FreshStep ==
    ASSUME FInv, IInv', [Next]_vars
    PROVE  FreshInv'
  <1> USE DEF FInv
  <1>1. CASE EnterRange
    <2>1. /\ pc = "next" /\ pc' \in {"preSpawn", "seqPre"}
          /\ call' = call /\ dst' = dst /\ req'.off = req.off
      BY <1>1 DEF EnterRange, IInv, TypeOK
    <2>2. Count' \in Nat /\ req'.off \in Nat
      <3>1. (pc \in Decoding \cup {"rangeDone", "unwind"})'
        BY <2>1 DEF Decoding
      <3>2. Count' \in Nat
        <4>1. TypeOK' /\ ReqInv'
          BY DEF IInv
        <4>2. pc' \in Decoding \cup {"rangeDone", "unwind"}
          BY <3>1
        <4>3. req'.end >= req'.start /\ req'.end \in Nat /\ req'.start \in Nat
          BY ONLY <4>1, <4>2 DEF TypeOK, ReqInv
        <4>4. QED
          BY <4>3 DEF Count
      <3>3. QED
        BY <2>1, <3>2 DEF IInv, TypeOK
    <2>3. FreshFrom(req.off)
      BY <2>1 DEF FreshInv
    <2>4. QED
      BY <2>1, <2>2, <2>3, SizesAssumption DEF FreshInv, FreshFrom, Slots
  <1>2. CASE DecodeAt
    <2>1. /\ pc = "next" /\ pc' \in {"rangeDone", "unwind"}
          /\ call' = call /\ req'.off = req.off /\ secTask' = secTask
          /\ \A y \in Slots : y # req.off => dst'[y] = dst[y]
      BY <1>2 DEF DecodeAt, IInv, TypeOK, taskVars
    <2>2. Count' \in Nat \ {0} /\ req.off \in Nat
      <3>1. (pc \in Decoding \cup {"rangeDone", "unwind"})'
        BY <2>1
      <3>2. (req.start < req.end)'
        BY <3>1 DEF IInv, ReqInv
      <3>3. QED
        BY <3>2 DEF IInv, TypeOK, Count
    <2>3. FreshFrom(req.off) /\ ~CodecTasks
      BY <2>1 DEF FreshInv, CodecTasks, IInv, SectionInv
    <2>4. FreshFrom(req.off + Count)'
      BY <2>1, <2>2, <2>3, SizesAssumption DEF FreshFrom, Slots
    <2>5. QED
      BY <2>1, <2>3, <2>4 DEF FreshInv, CodecTasks, Decoding
  <1>3. CASE SkipRange \/ RangeDone
    <2>1. /\ pc \in {"next", "rangeDone"} /\ pc' = "next" /\ idx <= Len(call.ranges)
          /\ call' = call /\ dst' = dst
          /\ req'.off = req.off + RangeSize(call.ranges[idx])
      BY <1>3 DEF SkipRange, RangeDone, IInv, TypeOK, ReqInv
    <2>2. RangeSize(call.ranges[idx]) \in Nat /\ req.off \in Nat
      BY <2>1, RangeAtHand DEF IInv, TypeOK
    <2>3. FreshFrom(req'.off)
      <3>1. CASE pc = "next"
        BY <2>1, <2>2, <3>1, SizesAssumption DEF FreshInv, FreshFrom, Slots
      <3>2. CASE pc = "rangeDone"
        <4>1. Count \in Nat /\ Count <= RangeSize(call.ranges[idx])
          <5>1. /\ req.start = call.ranges[idx].begin
                /\ req.end = Least(call.ranges[idx].end, N)
                /\ call.ranges[idx] \in RowRange /\ Count \in Nat \ {0}
            BY <3>2, Decodes DEF AtRange
          <5>2. QED
            BY <5>1, SizesAssumption DEF Count, Least, RangeSize, RowRange
        <4>2. FreshFrom(req.off + Count)
          BY <3>2 DEF FreshInv
        <4>3. QED
          BY <2>1, <2>2, <4>1, <4>2, SizesAssumption DEF FreshFrom, Slots
      <3>3. QED
        BY <2>1, <3>1, <3>2
    <2>4. QED
      BY <2>1, <2>3 DEF FreshInv, FreshFrom, Decoding
  <1>4. CASE Finish \/ Unwind
    BY <1>4 DEF Finish, Unwind, FreshInv, Decoding
  <1>5. CASE SpawnPre \/ SpawnPreFails \/ JoinPre
    <2>1. /\ pc \in {"preSpawn", "preJoin"}
          /\ pc' \in {"preSpawn", "preJoin", "chunkSpawn", "unwind"}
          /\ call' = call /\ dst' = dst /\ req' = req /\ chunkTask' = chunkTask
      BY <1>5 DEF SpawnPre, SpawnPreFails, JoinPre, callVars, taskVars
    <2>2. FreshFrom(req.off) /\ FreshFrom(req.off + Count)
      BY <2>1 DEF FreshInv, Decoding
    <2>3. Combining' = {}
      BY <2>1 DEF Combining, IInv, ChunkTaskInv
    <2>4. Count' = Count
      BY <2>1 DEF Count
    <2>5. QED
      BY <2>1, <2>2, <2>3, <2>4 DEF FreshInv, FreshFrom
  <1>6. CASE \/ SpawnChunkTask \/ SpawnChunkFails \/ ChunksSpawned
             \/ JoinChunkTask \/ ChunksJoined
             \/ SeqPre \/ SeqPreFails \/ SeqCombineFails \/ SeqDone
    <2>1. /\ pc \in Decoding \ {"preSpawn", "preJoin"}
          /\ pc' \in (Decoding \ {"preSpawn", "preJoin"}) \cup {"rangeDone", "unwind"}
          /\ call' = call /\ dst' = dst /\ req' = req /\ secTask' = secTask
      BY <1>6 DEF SpawnChunkTask, SpawnChunkFails, ChunksSpawned, JoinChunkTask,
                  ChunksJoined, SeqPre, SeqPreFails, SeqCombineFails, SeqDone,
                  callVars, taskVars, Decoding
    <2>2. ~CodecTasks'
      BY <2>1 DEF CodecTasks, IInv, SectionInv, Decoding
    <2>3. FreshFrom(req.off + Count) /\ Count' = Count
      BY <2>1 DEF FreshInv, Count
    <2>4. QED
      BY <2>1, <2>2, <2>3 DEF FreshInv, FreshFrom, Decoding
  <1>7. CASE SeqCombine \/ \E t \in Threads : ChunkTask(t)
    <2>0. PICK c \in Nat, s \in Sections : \E cells : dst' = Combined(dst, c, s, cells)
      <3>1. CASE SeqCombine
        BY <3>1 DEF SeqCombine, IInv, TypeOK, SequentialInv
      <3>2. CASE \E t \in Threads : ChunkTask(t)
        BY <3>2, ChunkTaskAt
      <3>3. QED
        BY <1>7, <3>1, <3>2
    <2>1. PICK cells : dst' = Combined(dst, c, s, cells)
      BY <2>0
    <2>2. /\ pc \in {"chunkSpawn", "chunkJoin", "unwind", "seqChunk"}
          /\ pc' = pc /\ call' = call /\ req' = req /\ secTask' = secTask
          /\ pc = "unwind" => Combining # {}
      <3>1. CASE SeqCombine
        BY <3>1 DEF SeqCombine, callVars, taskVars
      <3>2. CASE \E t \in Threads : ChunkTask(t)
        BY <3>2, ChunkTaskAt
      <3>3. QED
        BY <1>7, <3>1, <3>2
    <2>3. Count \in Nat /\ Count' = Count /\ req.off \in Nat /\ TypeOK
      BY <2>2, Decodes DEF Count, Decoding, IInv
    <2>4. FreshFrom(req.off + Count) => FreshFrom(req.off + Count)'
      BY <2>1, <2>2, <2>3, CombineStaysInRange DEF FreshFrom
    <2>5. ~(pc = "unwind" /\ CodecTasks)'
      BY <2>2 DEF FreshInv, CodecTasks
    <2>6. QED
      BY <2>2, <2>4, <2>5 DEF FreshInv, Decoding
  <1>8. ASSUME NEW q \in Requests, Call(q) PROVE FreshInv'
    BY <1>8 DEF Call, FreshInv, FreshFrom, Decoding
  <1>9. ASSUME NEW s \in Sections, PreTask(s) PROVE FreshInv'
    <2>1. /\ pc' = pc /\ call' = call /\ req' = req /\ dst' = dst
          /\ chunkTask' = chunkTask /\ CodecTasks
      BY <1>9 DEF PreTask, callVars, CodecTasks
    <2>2. Count' = Count /\ Combining' = Combining
      BY <2>1 DEF Count, Combining
    <2>3. QED
      BY <2>1, <2>2 DEF FreshInv, FreshFrom
  <1>10. CASE UNCHANGED vars
    BY <1>10 DEF vars, FreshInv, FreshFrom, Count, CodecTasks, Combining
  <1>11. QED
    BY <1>1, <1>2, <1>3, <1>4, <1>5, <1>6, <1>7, <1>8, <1>9, <1>10 DEF Next, CallerStep

\* What has not been stored to is fresh, in every state the decode paths reach.
LEMMA Freshness == Spec => []FInv
  <1>1. Init => FInv
    BY InitInvariant DEF FInv, AtRange, FreshInv, Init, Decoding
  <1>2. FInv /\ [Next]_vars => FInv'
    BY NextInvariant, AtRangeStep, FreshStep DEF FInv
  <1>3. QED
    BY <1>1, <1>2, PTL DEF Spec

\* A section that fails to decode in the parallel path costs the caller nothing:
\* no accumulation has started, so every slot of the range is as it was, also
\* while the other codec tasks are waited for.
THEOREM FailedPredecodeIsHarmless == Spec => []FailedPredecodeStoresNothing
  <1>1. ASSUME FInv, NEW s \in Sections, secTask[s] = "threw",
               NEW i \in 0..(Count - 1), req.off + i \in Slots
        PROVE  dst[req.off + i] = Fill(call.op)
    <2>1. CodecTasks
      BY <1>1 DEF CodecTasks
    <2>2. pc \in {"preSpawn", "preJoin", "unwind"}
      BY <1>1 DEF FInv, IInv, SectionInv
    <2>3. FreshFrom(req.off) /\ req.off \in Nat
      BY <1>1, <2>1, <2>2 DEF FInv, FreshInv, IInv, TypeOK
    <2>4. QED
      BY <1>1, <2>3 DEF FreshFrom
  <1>2. FInv => FailedPredecodeStoresNothing
    BY <1>1 DEF FailedPredecodeStoresNothing
  <1>3. QED
    BY Freshness, <1>2, PTL

\* Flattening one more sequence appends it.
LEMMA FlattenAppend ==
    ASSUME NEW S, NEW seqs \in Seq(Seq(S)), NEW e \in Seq(S)
    PROVE  /\ Contract!FlattenSeq(seqs) \in Seq(S)
           /\ Contract!FlattenSeq(Append(seqs, e)) = Contract!FlattenSeq(seqs) \o e
  <1>1. \A q : Contract!FlattenSeq(q) = Flat(q)
    BY DEF Contract!FlattenSeq, Flat
  <1>2. QED
    BY <1>1, FlatAppend

-----------------------------------------------------------------------------
(* The rows a request selects, range by range.                             *)

\* The ranges of a gather stay within the rows, the other calls have one range,
\* and what is selected fits the destination.
Fits(q) ==
    /\ q.op = "gather" => \A i \in 1..Len(q.ranges) : q.ranges[i].end <= N
    /\ q.op # "gather" => Len(q.ranges) = 1
    /\ Len(Contract!Selected(q)) <= DstSize

RangeRows(q, i) == Contract!RangeRows(q, q.ranges[i])

\* The rows of the first i ranges.
RowsUpTo(q, i) == Contract!FlattenSeq([j \in 1..i |-> RangeRows(q, j)])

\* What a range selects are rows: those from its begin to its clamped end.
LEMMA RangeRowsType ==
    ASSUME NEW q \in Requests, Fits(q), NEW i \in 1..Len(q.ranges)
    PROVE  /\ q.ranges[i] \in RowRange
           /\ RangeRows(q, i) \in Seq(Rows)
           /\ q.ranges[i].begin >= N \/ q.ranges[i].begin >= q.ranges[i].end =>
                 /\ RangeRows(q, i) = << >>
                 /\ q.op = "gather" => RangeSize(q.ranges[i]) = 0
           /\ q.ranges[i].begin < N /\ q.ranges[i].begin < q.ranges[i].end =>
                 LET n == Least(q.ranges[i].end, N) - q.ranges[i].begin IN
                 /\ n \in Nat \ {0}
                 /\ Len(RangeRows(q, i)) = n
                 /\ \A x \in 1..n : RangeRows(q, i)[x] = q.ranges[i].begin + x - 1
                 /\ q.op = "gather" => RangeSize(q.ranges[i]) = n
  <1> DEFINE r == q.ranges[i]
             b == r.begin
             e == r.end
             m == Contract!Bound(q, r)
  <1>1. r \in RowRange /\ b \in Nat /\ e \in Nat
    <2>1. q.ranges \in Seq(RowRange)
      BY RequestsAssumption
    <2>2. q.ranges[i] \in RowRange
      BY <2>1
    <2>3. QED
      BY <2>2 DEF RowRange
  <1>2. q.op = "gather" => e <= N
    BY DEF Fits
  <1>3. m = Least(e, N) /\ m \in Nat /\ m <= N /\ m <= e
    BY <1>1, <1>2, SizesAssumption DEF Contract!Bound, Least
  <1>4. RangeRows(q, i) = IF m <= b THEN << >> ELSE [x \in 1..(m - b) |-> b + x - 1]
    BY DEF RangeRows, Contract!RangeRows
  <1>5. RangeSize(r) = IF e > b THEN e - b ELSE 0
    BY DEF RangeSize
  <1> HIDE DEF m, e, b, r
  <1>6. RangeRows(q, i) \in Seq(Rows)
    <2>1. CASE m <= b
      BY <1>4, <2>1
    <2>2. CASE ~(m <= b)
      <3>1. m - b \in Nat
        BY <1>1, <1>3, <2>2
      <3>2. \A x \in 1..(m - b) : b + x - 1 \in Rows
        BY <1>1, <1>3, <3>1, SizesAssumption DEF Rows
      <3>3. QED
        BY <1>4, <2>2, <3>1, <3>2
    <2>3. QED
      BY <2>1, <2>2
  <1>7. b >= N \/ b >= e => RangeRows(q, i) = << >> /\ (q.op = "gather" => RangeSize(r) = 0)
    BY <1>1, <1>2, <1>3, <1>4, <1>5, SizesAssumption
  <1>8. ASSUME b < N, b < e
        PROVE  /\ m - b \in Nat \ {0}
               /\ Len(RangeRows(q, i)) = m - b
               /\ \A x \in 1..(m - b) : RangeRows(q, i)[x] = b + x - 1
               /\ q.op = "gather" => RangeSize(r) = m - b
    <2>1. ~(m <= b) /\ m - b \in Nat \ {0}
      BY <1>1, <1>3, <1>8, SizesAssumption DEF Least
    <2>2. RangeRows(q, i) = [x \in 1..(m - b) |-> b + x - 1]
      BY <1>4, <2>1
    <2>3. q.op = "gather" => m = e
      BY <1>1, <1>2, <1>3, SizesAssumption DEF Least
    <2>4. QED
      BY <1>5, <1>8, <2>1, <2>2, <2>3
  <1>9. QED
    BY <1>1, <1>3, <1>6, <1>7, <1>8 DEF r, b, e

\* The rows of the first ranges are rows; the next range's are appended to them.
LEMMA RowsUpToStep ==
    ASSUME NEW q \in Requests, Fits(q), NEW i \in Nat, i <= Len(q.ranges)
    PROVE  /\ RowsUpTo(q, i) \in Seq(Rows)
           /\ i < Len(q.ranges) =>
                 RowsUpTo(q, i + 1) = RowsUpTo(q, i) \o RangeRows(q, i + 1)
  <1> DEFINE seqs == [j \in 1..i |-> RangeRows(q, j)]
  <1>1. Len(q.ranges) \in Nat
    BY RequestsAssumption
  <1>2. \A j \in 1..i : RangeRows(q, j) \in Seq(Rows)
    BY <1>1, RangeRowsType
  <1>3. seqs \in Seq(Seq(Rows))
    BY <1>2
  <1>4. RowsUpTo(q, i) = Contract!FlattenSeq(seqs)
    BY DEF RowsUpTo
  <1>5. RowsUpTo(q, i) \in Seq(Rows)
    <2>1. << >> \in Seq(Rows)
      OBVIOUS
    <2> HIDE DEF seqs
    <2>2. QED
      BY <1>3, <1>4, <2>1, FlattenAppend
  <1>6. ASSUME i < Len(q.ranges)
        PROVE  RowsUpTo(q, i + 1) = RowsUpTo(q, i) \o RangeRows(q, i + 1)
    <2>1. RangeRows(q, i + 1) \in Seq(Rows)
      BY <1>1, <1>6, RangeRowsType
    <2>2. Append(seqs, RangeRows(q, i + 1)) = [j \in 1..(i + 1) |-> RangeRows(q, j)]
      OBVIOUS
    <2>3. RowsUpTo(q, i + 1) = Contract!FlattenSeq(Append(seqs, RangeRows(q, i + 1)))
      BY <2>2 DEF RowsUpTo
    <2> HIDE DEF seqs
    <2>4. QED
      BY <1>3, <1>4, <2>1, <2>3, FlattenAppend
  <1>7. QED
    BY <1>5, <1>6

\* The rows of the first ranges are no more than those of all the ranges.
LEMMA RowsUpToGrow ==
    ASSUME NEW q \in Requests, Fits(q), NEW i \in Nat, i <= Len(q.ranges)
    PROVE  Len(RowsUpTo(q, i)) <= Len(RowsUpTo(q, Len(q.ranges)))
  <1> DEFINE n == Len(q.ranges)
             P == {m \in Nat : i + m <= n => Len(RowsUpTo(q, i)) <= Len(RowsUpTo(q, i + m))}
  <1>1. n \in Nat
    BY RequestsAssumption
  <1>2. RowsUpTo(q, i) \in Seq(Rows)
    BY RowsUpToStep
  <1>3. 0 \in P
    BY <1>2
  <1>4. ASSUME NEW m \in Nat, m \in P PROVE m + 1 \in P
    <2>1. SUFFICES ASSUME i + (m + 1) <= n
                   PROVE  Len(RowsUpTo(q, i)) <= Len(RowsUpTo(q, i + (m + 1)))
      OBVIOUS
    <2>2. PICK j \in Nat : j = i + m /\ j < n /\ j + 1 = i + (m + 1) /\ j <= n
      BY <1>1, <2>1
    <2>3. /\ RowsUpTo(q, j) \in Seq(Rows)
          /\ RowsUpTo(q, j + 1) = RowsUpTo(q, j) \o RangeRows(q, j + 1)
      BY <2>2, RowsUpToStep
    <2>4. RangeRows(q, j + 1) \in Seq(Rows)
      BY <1>1, <2>2, RangeRowsType
    <2>5. Len(RowsUpTo(q, j + 1)) >= Len(RowsUpTo(q, j))
      BY <2>3, <2>4
    <2>6. Len(RowsUpTo(q, i)) <= Len(RowsUpTo(q, j))
      BY <1>4, <2>2
    <2>7. Len(RowsUpTo(q, i)) \in Nat /\ Len(RowsUpTo(q, j)) \in Nat
          /\ Len(RowsUpTo(q, j + 1)) \in Nat
      BY <1>2, <2>3, <2>4
    <2>8. QED
      BY <2>2, <2>5, <2>6, <2>7
  <1>5. n - i \in Nat /\ i + (n - i) = n
    BY <1>1
  <1>6. n - i \in P
    <2> HIDE DEF P
    <2>1. QED
      BY <1>3, <1>4, <1>5, InductionOnNat
  <1>7. QED
    BY <1>5, <1>6

\* A request without ranges selects nothing; all its ranges make the selection.
LEMMA SelectedRows ==
    ASSUME NEW q \in Requests, Fits(q)
    PROVE  /\ RowsUpTo(q, 0) = << >>
           /\ RowsUpTo(q, Len(q.ranges)) = Contract!Selected(q)
           /\ Contract!Selected(q) \in Seq(Rows)
  <1>1. Len(q.ranges) \in Nat
    BY RequestsAssumption
  <1>2. RowsUpTo(q, 0) = << >>
    <2>1. [j \in 1..0 |-> RangeRows(q, j)] = << >>
      OBVIOUS
    <2>2. QED
      BY <2>1 DEF RowsUpTo, Contract!FlattenSeq
  <1>3. RowsUpTo(q, Len(q.ranges)) = Contract!Selected(q)
    BY DEF RowsUpTo, RangeRows, Contract!Selected
  <1>4. QED
    BY <1>1, <1>2, <1>3, RowsUpToStep

-----------------------------------------------------------------------------
(* What has been delivered.                                                *)

\* The ranges the call has passed are delivered, one after the other, and the
\* output offset is behind them.
DeliveredInv ==
    pc # "idle" =>
        LET rows == RowsUpTo(call, idx - 1) IN
        /\ call \in Requests
        /\ idx <= Len(call.ranges) + 1
        /\ idx <= Len(call.ranges) => req.off = Len(rows)
        /\ \A x \in 1..Len(rows) : x - 1 \in Slots => dst[x - 1] = RowTokens(rows[x])

CInv == FInv /\ DeliveredInv

\* While a call is in progress it answers a request, and its counters count.
LEMMA CallInProgress ==
    ASSUME IInv, DeliveredInv, pc # "idle", \A q \in Requests : Fits(q)
    PROVE  /\ call \in Requests /\ Fits(call)
           /\ Len(call.ranges) \in Nat /\ idx - 1 \in Nat /\ idx - 1 <= Len(call.ranges)
           /\ RowsUpTo(call, idx - 1) \in Seq(Rows)
           /\ Len(RowsUpTo(call, idx - 1)) \in Nat
           /\ req.off \in Nat
  <1>0. call \in Requests
    BY DEF DeliveredInv
  <1>1. Len(call.ranges) \in Nat /\ idx - 1 \in Nat
    BY <1>0, RequestsAssumption DEF IInv, TypeOK
  <1>2. idx - 1 <= Len(call.ranges)
    BY <1>1 DEF DeliveredInv, IInv, TypeOK
  <1>3. RowsUpTo(call, idx - 1) \in Seq(Rows)
    BY <1>0, <1>1, <1>2, RowsUpToStep
  <1>4. QED
    BY <1>0, <1>1, <1>2, <1>3 DEF IInv, TypeOK

\* A step that keeps the call, its place and the slots behind it keeps what
\* is delivered.
LEMMA DeliveredStable ==
    ASSUME IInv, DeliveredInv, pc # "idle", \A q \in Requests : Fits(q),
           call' = call, idx' = idx, req'.off = req.off,
           idx <= Len(call.ranges),
           \A x \in Slots : x < req.off => dst'[x] = dst[x]
    PROVE  DeliveredInv'
  <1> DEFINE rows == RowsUpTo(call, idx - 1)
  <1>1. req.off = Len(rows) /\ Len(rows) \in Nat
    BY CallInProgress DEF DeliveredInv
  <1>2. ASSUME NEW x \in 1..Len(rows), x - 1 \in Slots
        PROVE  dst'[x - 1] = RowTokens(rows[x])
    <2>1. x - 1 < req.off
      BY <1>1
    <2>2. dst[x - 1] = RowTokens(rows[x])
      BY <1>2 DEF DeliveredInv
    <2>3. QED
      BY <1>2, <2>1, <2>2
  <1>3. RowsUpTo(call, idx - 1)' = rows
    BY DEF RowsUpTo, RangeRows, Contract!RangeRows, Contract!Bound
  <1>4. QED
    BY <1>1, <1>2, <1>3 DEF DeliveredInv, RowTokens, Token

\* When a range is passed over or done, its rows have joined those delivered.
LEMMA DeliveredNext ==
    ASSUME FInv, DeliveredInv, \A q \in Requests : Fits(q), SkipRange \/ RangeDone
    PROVE  DeliveredInv'
  <1> USE DEF FInv
  <1> DEFINE rows == RowsUpTo(call, idx - 1)
             more == RangeRows(call, idx)
  <1>1. /\ pc \in {"next", "rangeDone"} /\ pc # "idle" /\ idx <= Len(call.ranges)
        /\ call' = call /\ dst' = dst /\ idx' = idx + 1
        /\ req'.off = req.off + RangeSize(call.ranges[idx])
    BY DEF SkipRange, RangeDone, IInv, TypeOK, ReqInv
  <1>2. /\ call \in Requests /\ Fits(call) /\ Len(call.ranges) \in Nat
        /\ idx - 1 \in Nat /\ idx \in 1..Len(call.ranges)
        /\ rows \in Seq(Rows) /\ Len(rows) \in Nat
        /\ req.off = Len(rows)
    BY <1>1, CallInProgress DEF DeliveredInv, IInv, TypeOK
  <1>3. RowsUpTo(call, idx) = rows \o more
    <2>1. PICK i \in Nat : i = idx - 1 /\ i < Len(call.ranges) /\ i + 1 = idx /\ i <= Len(call.ranges)
      BY <1>2
    <2>2. RowsUpTo(call, i + 1) = RowsUpTo(call, i) \o RangeRows(call, i + 1)
      BY <1>2, <2>1, RowsUpToStep
    <2>3. QED
      BY <2>1, <2>2
  <1>4. more \in Seq(Rows) /\ RangeSize(call.ranges[idx]) \in Nat
    BY <1>1, <1>2, RangeRowsType, RangeAtHand DEF IInv
  <1>5. \A x \in 1..Len(rows) : x - 1 \in Slots => dst[x - 1] = RowTokens(rows[x])
    BY <1>1 DEF DeliveredInv
  <1>6. /\ \A x \in 1..Len(more) :
              Len(rows) + x - 1 \in Slots => dst[Len(rows) + x - 1] = RowTokens(more[x])
        /\ call.op = "gather" => RangeSize(call.ranges[idx]) = Len(more)
    <2>1. CASE pc = "next"
      <3>1. SkipRange
        BY <2>1 DEF RangeDone
      <3>2. call.ranges[idx].begin >= N \/ call.ranges[idx].begin >= call.ranges[idx].end
        BY <3>1 DEF SkipRange
      <3>3. more = << >> /\ (call.op = "gather" => RangeSize(call.ranges[idx]) = 0)
        BY <1>2, <3>2, RangeRowsType
      <3>4. QED
        BY <3>3
    <2>2. CASE pc = "rangeDone"
      <3> DEFINE b == call.ranges[idx].begin
                 n == Least(call.ranges[idx].end, N) - b
      <3>1. /\ req.start = b /\ Count = n /\ Count \in Nat \ {0}
            /\ call.ranges[idx] \in RowRange
        BY <2>2, Decodes DEF AtRange, Count
      <3>2. b < N /\ b < call.ranges[idx].end
        BY <3>1, SizesAssumption DEF Least, RowRange
      <3>3. /\ Len(more) = Count
            /\ \A x \in 1..Count : more[x] = b + x - 1
            /\ call.op = "gather" => RangeSize(call.ranges[idx]) = Count
        BY <1>2, <3>1, <3>2, RangeRowsType
      <3>4. ASSUME NEW x \in 1..Len(more), Len(rows) + x - 1 \in Slots
            PROVE  dst[Len(rows) + x - 1] = RowTokens(more[x])
        <4>1. PICK i \in 0..(Count - 1) : i = x - 1
          BY <3>1, <3>3
        <4>2. /\ req.off + i = Len(rows) + x - 1 /\ req.start + i = b + x - 1
              /\ more[x] = b + x - 1
          BY <1>2, <3>1, <3>3, <4>1 DEF RowRange
        <4>3. dst[req.off + i] = RowTokens(req.start + i)
          BY <2>2, <3>4, <4>1, <4>2 DEF IInv, RangeExact
        <4>4. QED
          BY <4>2, <4>3
      <3>5. QED
        BY <3>3, <3>4
    <2>3. QED
      BY <1>1, <2>1, <2>2
  <1> HIDE DEF rows, more
  <1>7. Len(rows \o more) = Len(rows) + Len(more) /\ Len(more) \in Nat
    BY <1>2, <1>4
  <1>8. ASSUME NEW x \in 1..Len(rows \o more), x - 1 \in Slots
        PROVE  dst[x - 1] = RowTokens((rows \o more)[x])
    <2>1. CASE x <= Len(rows)
      <3>1. (rows \o more)[x] = rows[x] /\ x \in 1..Len(rows)
        BY <1>2, <1>4, <2>1
      <3>2. QED
        BY <1>5, <1>8, <3>1
    <2>2. CASE ~(x <= Len(rows))
      <3>1. PICK m \in Nat, n \in Nat : m = Len(rows) /\ n = Len(more) /\ x \in 1..(m + n)
        BY <1>2, <1>7
      <3>2. x - m \in 1..n /\ m + (x - m) - 1 = x - 1
        BY <2>2, <3>1
      <3>3. PICK y \in 1..n : y = x - m /\ m + y - 1 = x - 1
        BY <3>2
      <3>4. (rows \o more)[x] = more[y]
        BY <1>2, <1>4, <2>2, <3>1, <3>3
      <3>5. QED
        BY <1>6, <1>8, <3>1, <3>3, <3>4
    <2>3. QED
      BY <2>1, <2>2
  <1>9. idx + 1 <= Len(call.ranges) => req.off + RangeSize(call.ranges[idx]) = Len(rows \o more)
    <2>1. SUFFICES ASSUME idx + 1 <= Len(call.ranges)
                   PROVE  req.off + RangeSize(call.ranges[idx]) = Len(rows \o more)
      OBVIOUS
    <2>2. Len(call.ranges) # 1
      <3>1. PICK n \in Nat : n = Len(call.ranges)
        BY <1>2
      <3>2. idx \in 1..n /\ idx + 1 <= n
        BY <1>2, <2>1, <3>1
      <3>3. QED
        BY <3>1, <3>2
    <2>3. RangeSize(call.ranges[idx]) = Len(more)
      BY <1>2, <1>6, <2>2 DEF Fits
    <2>4. QED
      BY <1>2, <1>7, <2>3
  <1>10. (idx + 1) - 1 = idx /\ idx + 1 <= Len(call.ranges) + 1
    BY <1>2
  <1>11. RowsUpTo(call, idx - 1)' = rows \o more
    BY <1>1, <1>3, <1>10 DEF RowsUpTo, RangeRows, Contract!RangeRows, Contract!Bound
  <1>12. QED
    BY <1>1, <1>2, <1>8, <1>9, <1>10, <1>11 DEF DeliveredInv, RowTokens, Token

\* Every step keeps what is delivered.
LEMMA DeliveredStep ==
    ASSUME CInv, \A q \in Requests : Fits(q), [Next]_vars
    PROVE  DeliveredInv'
  <1> USE DEF CInv, FInv
  <1>1. CASE SkipRange \/ RangeDone
    BY <1>1, DeliveredNext
  <1>2. CASE Finish \/ Unwind
    BY <1>2 DEF Finish, Unwind, DeliveredInv
  <1>3. CASE EnterRange \/ DecodeAt
    <2>1. /\ pc = "next" /\ call' = call /\ idx' = idx /\ req'.off = req.off
          /\ idx <= Len(call.ranges)
      BY <1>3 DEF EnterRange, DecodeAt, IInv, TypeOK
    <2>2. \A x \in Slots : x < req.off => dst'[x] = dst[x]
      <3>1. dst' = dst \/ dst' = [dst EXCEPT ![req.off] = RowTokens(call.ranges[idx].begin)]
        BY <1>3 DEF EnterRange, DecodeAt
      <3>2. ASSUME NEW x \in Slots, x < req.off,
                   dst' = [dst EXCEPT ![req.off] = RowTokens(call.ranges[idx].begin)]
            PROVE  dst'[x] = dst[x]
        <4>1. x # req.off /\ x \in DOMAIN dst
          BY <3>2, SizesAssumption DEF IInv, TypeOK, Slots
        <4>2. QED
          BY <3>2, <4>1
      <3>3. QED
        BY <3>1, <3>2
    <2>3. QED
      BY <2>1, <2>2, DeliveredStable
  <1>4. CASE \/ SpawnPre \/ SpawnPreFails \/ JoinPre
             \/ SpawnChunkTask \/ SpawnChunkFails \/ ChunksSpawned
             \/ JoinChunkTask \/ ChunksJoined
             \/ SeqPre \/ SeqPreFails \/ SeqCombineFails \/ SeqDone
    <2>1. /\ pc \in Decoding /\ call' = call /\ idx' = idx /\ req' = req /\ dst' = dst
      BY <1>4 DEF SpawnPre, SpawnPreFails, JoinPre, SpawnChunkTask, SpawnChunkFails,
                  ChunksSpawned, JoinChunkTask, ChunksJoined, SeqPre, SeqPreFails,
                  SeqCombineFails, SeqDone, callVars, Decoding
    <2>2. pc # "idle" /\ idx <= Len(call.ranges)
      BY <2>1 DEF IInv, ReqInv, Decoding
    <2>3. QED
      BY <2>1, <2>2, DeliveredStable
  <1>5. CASE SeqCombine \/ \E t \in Threads : ChunkTask(t)
    <2>0. PICK c \in Nat, s \in Sections : \E cells : dst' = Combined(dst, c, s, cells)
      <3>1. CASE SeqCombine
        BY <3>1 DEF SeqCombine, IInv, TypeOK, SequentialInv
      <3>2. CASE \E t \in Threads : ChunkTask(t)
        BY <3>2, ChunkTaskAt
      <3>3. QED
        BY <1>5, <3>1, <3>2
    <2>1. PICK cells : dst' = Combined(dst, c, s, cells)
      BY <2>0
    <2>2. /\ pc \in {"chunkSpawn", "chunkJoin", "unwind", "seqChunk"}
          /\ call' = call /\ idx' = idx /\ req' = req
      <3>1. CASE SeqCombine
        BY <3>1 DEF SeqCombine, callVars
      <3>2. CASE \E t \in Threads : ChunkTask(t)
        BY <3>2, ChunkTaskAt
      <3>3. QED
        BY <1>5, <3>1, <3>2
    <2>3. Count \in Nat /\ TypeOK /\ pc # "idle" /\ idx <= Len(call.ranges)
      BY <2>2, Decodes DEF Decoding, IInv, ReqInv
    <2>4. \A x \in Slots : x < req.off => dst'[x] = dst[x]
      BY <2>1, <2>3, CombineStaysInRange
    <2>5. QED
      BY <2>2, <2>3, <2>4, DeliveredStable
  <1>6. ASSUME NEW q \in Requests, Call(q) PROVE DeliveredInv'
    <2>1. call' = q /\ idx' = 1 /\ req'.off = 0
      BY <1>6 DEF Call, NoReq
    <2>2. RowsUpTo(q, 0) = << >>
      BY SelectedRows
    <2>3. RowsUpTo(call, idx - 1)' = << >>
      BY <2>1, <2>2 DEF RowsUpTo, RangeRows, Contract!RangeRows, Contract!Bound
    <2>4. Len(q.ranges) \in Nat
      BY RequestsAssumption
    <2>5. QED
      BY <2>1, <2>3, <2>4 DEF DeliveredInv
  <1>7. ASSUME NEW s \in Sections, PreTask(s) PROVE DeliveredInv'
    <2>1. /\ pc' = pc /\ call' = call /\ idx' = idx /\ req' = req /\ dst' = dst
      BY <1>7 DEF PreTask, callVars
    <2>2. pc \in Decoding \cup {"unwind"}
      BY <1>7 DEF PreTask, IInv, SectionInv, Decoding
    <2>3. pc # "idle" /\ idx <= Len(call.ranges)
      BY <2>2 DEF IInv, ReqInv, Decoding
    <2>4. QED
      BY <2>1, <2>3, DeliveredStable
  <1>8. CASE UNCHANGED vars
    <2>1. /\ pc' = pc /\ call' = call /\ idx' = idx /\ req' = req /\ dst' = dst
      BY <1>8 DEF vars
    <2>2. RowsUpTo(call, idx - 1)' = RowsUpTo(call, idx - 1)
      BY <2>1 DEF RowsUpTo, RangeRows, Contract!RangeRows, Contract!Bound
    <2>3. QED
      BY <2>1, <2>2 DEF DeliveredInv, RowTokens, Token
  <1>9. QED
    BY <1>1, <1>2, <1>3, <1>4, <1>5, <1>6, <1>7, <1>8 DEF Next, CallerStep

-----------------------------------------------------------------------------
(* The contract.                                                           *)

\* The tokens of a row are read back as that row, and of no other.
LEMMA RowOfTokens ==
    ASSUME NEW r \in Rows
    PROVE  RowOf(RowTokens(r)) = r
  <1>1. ASSUME NEW p \in Rows, RowTokens(r) = RowTokens(p) PROVE p = r
    <2>1. 0 \in Sections
      BY SizesAssumption DEF Sections
    <2>2. <<0, r>> \in RowTokens(p)
      BY <1>1, <2>1 DEF RowTokens, Token
    <2>3. QED
      BY <2>2 DEF RowTokens, Token
  <1>2. QED
    BY <1>1 DEF RowOf

\* Memory nothing was stored to is not a row.
LEMMA RowOfFill ==
    ASSUME NEW op
    PROVE  RowOf(Fill(op)) = Junk /\ RowOf({Junk}) = Junk
  <1>1. ASSUME NEW r \in Rows PROVE RowTokens(r) # {} /\ RowTokens(r) # {Junk}
    <2>1. 0 \in Sections /\ r \in Nat
      BY SizesAssumption DEF Sections, Rows
    <2>2. <<0, r>> \in RowTokens(r)
      BY <2>1 DEF RowTokens, Token
    <2>3. <<0, r>> # Junk
      BY <2>1, JunkAssumption
    <2>4. QED
      BY <2>2, <2>3
  <1>2. QED
    BY <1>1 DEF RowOf, Fill

\* A step that neither enters nor leaves a call, and stores only where the
\* range at hand is delivered, is a write of the contract, or invisible to it.
LEMMA WriteStep ==
    ASSUME CInv, \A q \in Requests : Fits(q), pc # "idle", pc' # "idle",
           idx <= Len(call.ranges),
           call' = call, outcome' = outcome,
           NEW n \in Nat, n <= Len(RangeRows(call, idx)),
           \A x \in Slots : x < req.off \/ x >= req.off + n => dst'[x] = dst[x]
    PROVE  Contract!Write
  <1> USE DEF CInv, FInv
  <1>1. /\ call \in Requests /\ Fits(call) /\ Len(call.ranges) \in Nat
        /\ idx - 1 \in Nat /\ idx \in 1..Len(call.ranges)
        /\ RowsUpTo(call, idx - 1) \in Seq(Rows)
        /\ req.off = Len(RowsUpTo(call, idx - 1)) /\ req.off \in Nat
    BY CallInProgress DEF DeliveredInv, IInv, TypeOK
  <1>2. RangeRows(call, idx) \in Seq(Rows)
    BY <1>1, RangeRowsType
  <1>3. RowsUpTo(call, idx) = RowsUpTo(call, idx - 1) \o RangeRows(call, idx)
    <2>1. PICK i \in Nat : i = idx - 1 /\ i < Len(call.ranges) /\ i + 1 = idx /\ i <= Len(call.ranges)
      BY <1>1
    <2>2. RowsUpTo(call, i + 1) = RowsUpTo(call, i) \o RangeRows(call, i + 1)
      BY <1>1, <2>1, RowsUpToStep
    <2>3. QED
      BY <2>1, <2>2
  <1>4. Len(RowsUpTo(call, idx)) <= Len(Contract!Selected(call))
    <2>1. idx \in Nat /\ idx <= Len(call.ranges)
      BY <1>1
    <2>2. QED
      BY <1>1, <2>1, RowsUpToGrow, SelectedRows
  <1>5. Len(RowsUpTo(call, idx)) = req.off + Len(RangeRows(call, idx))
    BY <1>1, <1>2, <1>3
  <1>6. Len(Contract!Selected(call)) \in Nat /\ Len(RangeRows(call, idx)) \in Nat
    BY <1>1, <1>2, SelectedRows
  <1>7. ASSUME NEW x \in Slots \ Contract!Window(call)
        PROVE  dst'[x] = dst[x]
    <2>1. x >= Len(Contract!Selected(call))
      BY <1>6, SizesAssumption DEF Contract!Window, Slots
    <2>2. x >= req.off + n
      BY <1>1, <1>4, <1>5, <1>6, <2>1, SizesAssumption DEF Slots
    <2>3. QED
      BY <2>2
  <1>8. \A x \in Contract!Slots \ Contract!Window(call) :
            [y \in Slots |-> RowOf(dst'[y])][x] = [y \in Slots |-> RowOf(dst[y])][x]
    BY <1>7 DEF Contract!Slots, Slots
  <1>9. QED
    BY <1>8 DEF Contract!Write, RowOf, RowTokens, Token

\* The range being decoded has as many rows as the contract selects for it.
LEMMA RangeAtHandRows ==
    ASSUME CInv, \A q \in Requests : Fits(q), pc \in Decoding \cup {"rangeDone", "unwind"}
    PROVE  /\ Count \in Nat \ {0} /\ Count = Len(RangeRows(call, idx))
           /\ pc # "idle" /\ idx <= Len(call.ranges)
  <1> USE DEF CInv, FInv
  <1>1. /\ Count \in Nat \ {0} /\ call.ranges[idx] \in RowRange
        /\ req.start = call.ranges[idx].begin
        /\ req.end = Least(call.ranges[idx].end, N)
    BY Decodes DEF AtRange
  <1>2. pc # "idle" /\ idx <= Len(call.ranges)
    BY DEF IInv, ReqInv, Decoding
  <1>3. call \in Requests /\ Fits(call) /\ idx \in 1..Len(call.ranges)
    BY <1>2, CallInProgress DEF IInv, TypeOK
  <1>4. /\ call.ranges[idx].begin < N
        /\ call.ranges[idx].begin < call.ranges[idx].end
    BY <1>1, SizesAssumption DEF Count, Least, RowRange
  <1>5. Len(RangeRows(call, idx)) = Least(call.ranges[idx].end, N) - call.ranges[idx].begin
    BY <1>3, <1>4, RangeRowsType
  <1>6. QED
    BY <1>1, <1>2, <1>5 DEF Count

\* decodeAt stores one row.
LEMMA DecodeAtWrites ==
    ASSUME CInv, \A q \in Requests : Fits(q), DecodeAt
    PROVE  Contract!Write
  <1>1. /\ pc = "next" /\ pc' \in {"rangeDone", "unwind"} /\ idx <= Len(call.ranges)
        /\ call' = call /\ outcome' = outcome
        /\ call.ranges[idx].begin < N
        /\ call.ranges[idx].end = call.ranges[idx].begin + 1
    BY DEF DecodeAt
  <1>2. \A x \in Slots : x # req.off => dst'[x] = dst[x]
    BY DEF DecodeAt, CInv, FInv, IInv, TypeOK
  <1>3. /\ call \in Requests /\ Fits(call) /\ idx \in 1..Len(call.ranges) /\ req.off \in Nat
        /\ call.ranges[idx] \in RowRange
    BY <1>1, CallInProgress, RangeAtHand DEF CInv, FInv, IInv, TypeOK
  <1>4. Least(call.ranges[idx].end, N) - call.ranges[idx].begin = 1
    BY <1>1, <1>3, SizesAssumption DEF Least, RowRange
  <1>5. call.ranges[idx].begin < call.ranges[idx].end
    BY <1>1, <1>3 DEF RowRange
  <1>6. 1 <= Len(RangeRows(call, idx))
    BY <1>1, <1>3, <1>4, <1>5, RangeRowsType
  <1>7. \A x \in Slots : x < req.off \/ x >= req.off + 1 => dst'[x] = dst[x]
    BY <1>2, <1>3, SizesAssumption DEF Slots
  <1>8. pc # "idle" /\ pc' # "idle" /\ 1 \in Nat
    BY <1>1
  <1>9. QED
    BY <1>1, <1>6, <1>7, <1>8, WriteStep

\* Combining a section into a chunk stores to the rows of the range.
LEMMA CombineWrites ==
    ASSUME CInv, \A q \in Requests : Fits(q), SeqCombine \/ \E t \in Threads : ChunkTask(t)
    PROVE  Contract!Write
  <1>0. PICK c \in Nat, s \in Sections : \E cells : dst' = Combined(dst, c, s, cells)
    <2>1. CASE SeqCombine
      BY <2>1 DEF SeqCombine, CInv, FInv, IInv, TypeOK, SequentialInv
    <2>2. CASE \E t \in Threads : ChunkTask(t)
      BY <2>2, ChunkTaskAt DEF CInv, FInv
    <2>3. QED
      BY <2>1, <2>2
  <1>1. PICK cells : dst' = Combined(dst, c, s, cells)
    BY <1>0
  <1>2. /\ pc \in {"chunkSpawn", "chunkJoin", "unwind", "seqChunk"} /\ pc' = pc
        /\ call' = call /\ outcome' = outcome
    <2>1. CASE SeqCombine
      BY <2>1 DEF SeqCombine, callVars
    <2>2. CASE \E t \in Threads : ChunkTask(t)
      BY <2>2, ChunkTaskAt DEF CInv, FInv
    <2>3. QED
      BY <2>1, <2>2
  <1>3. /\ Count \in Nat /\ Count = Len(RangeRows(call, idx))
        /\ pc # "idle" /\ idx <= Len(call.ranges)
    BY <1>2, RangeAtHandRows DEF Decoding
  <1>4. TypeOK
    BY DEF CInv, FInv, IInv
  <1>5. \A x \in Slots : x < req.off \/ x >= req.off + Count => dst'[x] = dst[x]
    BY <1>1, <1>3, <1>4, CombineStaysInRange
  <1>6. Count <= Len(RangeRows(call, idx)) /\ pc' # "idle"
    BY <1>2, <1>3
  <1>7. QED
    BY <1>2, <1>3, <1>5, <1>6, WriteStep

\* A call that ends well has delivered what the contract says.
LEMMA FinishReturns ==
    ASSUME CInv, \A q \in Requests : Fits(q), Finish
    PROVE  Contract!Return \/ Contract!Throw
  <1> DEFINE mem == [x \in Slots |-> RowOf(dst[x])]
  <1>1. /\ pc = "next" /\ pc' = "idle" /\ idx > Len(call.ranges)
        /\ call' = call /\ dst' = dst
        /\ outcome' \in {"ok", "threw"}
    BY DEF Finish, callVars
  <1>2. /\ call \in Requests /\ Fits(call) /\ Len(call.ranges) \in Nat
        /\ idx - 1 \in Nat /\ idx - 1 <= Len(call.ranges)
    BY <1>1, CallInProgress DEF CInv, FInv
  <1>3. idx - 1 = Len(call.ranges)
    BY <1>1, <1>2 DEF CInv, FInv, IInv, TypeOK
  <1>4. RowsUpTo(call, idx - 1) = Contract!Selected(call) /\ Contract!Selected(call) \in Seq(Rows)
    BY <1>2, <1>3, SelectedRows
  <1>5. \A x \in 1..Len(Contract!Selected(call)) :
            x - 1 \in Slots => dst[x - 1] = RowTokens(Contract!Selected(call)[x])
    BY <1>1, <1>4 DEF CInv, DeliveredInv
  <1>6. ASSUME NEW x \in Contract!Window(call)
        PROVE  mem[x] = Contract!Selected(call)[x + 1]
    <2>1. Len(Contract!Selected(call)) \in Nat /\ Len(Contract!Selected(call)) <= DstSize
      BY <1>2, <1>4 DEF Fits
    <2>2. x \in Slots /\ x + 1 \in 1..Len(Contract!Selected(call)) /\ (x + 1) - 1 = x
      BY <2>1, SizesAssumption DEF Contract!Window, Slots
    <2>3. dst[x] = RowTokens(Contract!Selected(call)[x + 1])
      BY <1>5, <2>2
    <2>4. Contract!Selected(call)[x + 1] \in Rows
      BY <1>4, <2>2
    <2>5. QED
      BY <2>2, <2>3, <2>4, RowOfTokens
  <1>7. Contract!Delivered(call, mem)
    BY <1>6 DEF Contract!Delivered
  <1>8. [x \in Slots |-> RowOf(dst[x])]' = mem
    BY <1>1 DEF RowOf, RowTokens, Token
  <1>9. QED
    BY <1>1, <1>7, <1>8 DEF Contract!Return, Contract!Throw

\* Every step of the decode paths is a step of the contract, or invisible to it.
LEMMA ContractStep ==
    ASSUME CInv, \A q \in Requests : Fits(q), [Next]_vars
    PROVE  [Contract!Next]_(Contract!dvars)
  <1> USE DEF CInv, FInv
  <1>1. CASE DecodeAt
    BY <1>1, DecodeAtWrites DEF Contract!Next
  <1>2. CASE SeqCombine \/ \E t \in Threads : ChunkTask(t)
    BY <1>2, CombineWrites DEF Contract!Next
  <1>3. CASE Finish
    BY <1>3, FinishReturns DEF Contract!Next
  <1>4. CASE Unwind
    <2>1. /\ pc = "unwind" /\ pc' = "idle" /\ outcome' = "threw"
          /\ call' = call /\ dst' = dst
      BY <1>4 DEF Unwind, callVars
    <2>2. QED
      BY <2>1 DEF Contract!Throw, Contract!Next, RowOf, RowTokens, Token
  <1>5. ASSUME NEW q \in Requests, Call(q) PROVE Contract!Call
    <2>1. /\ pc = "idle" /\ pc' = "next" /\ call' = q /\ outcome' = "none"
          /\ dst' = [x \in Slots |-> Fill(q.op)]
      BY <1>5 DEF Call
    <2>2. \A x \in Slots : RowOf(dst'[x]) = Junk
      BY <2>1, RowOfFill
    <2>3. [x \in Slots |-> RowOf(dst[x])]' = [x \in Contract!Slots |-> Junk]
      BY <2>2 DEF Contract!Slots, Slots, RowOf, RowTokens, Token
    <2>4. QED
      BY <2>1, <2>3 DEF Contract!Call
  <1>6. CASE \/ EnterRange \/ SkipRange \/ RangeDone
             \/ SpawnPre \/ SpawnPreFails \/ JoinPre
             \/ SpawnChunkTask \/ SpawnChunkFails \/ ChunksSpawned
             \/ JoinChunkTask \/ ChunksJoined
             \/ SeqPre \/ SeqPreFails \/ SeqCombineFails \/ SeqDone
             \/ \E s \in Sections : PreTask(s)
    <2>1. /\ pc # "idle" /\ pc' # "idle"
          /\ call' = call /\ dst' = dst /\ outcome' = outcome
      BY <1>6 DEF EnterRange, SkipRange, RangeDone, SpawnPre, SpawnPreFails, JoinPre,
                  SpawnChunkTask, SpawnChunkFails, ChunksSpawned, JoinChunkTask,
                  ChunksJoined, SeqPre, SeqPreFails, SeqCombineFails, SeqDone,
                  PreTask, callVars, IInv, SectionInv
    <2>2. UNCHANGED Contract!dvars
      BY <2>1 DEF Contract!dvars, RowOf, RowTokens, Token
    <2>3. QED
      BY <2>2
  <1>7. CASE UNCHANGED vars
    BY <1>7 DEF vars, Contract!dvars, RowOf, RowTokens, Token
  <1>8. QED
    BY <1>1, <1>2, <1>3, <1>4, <1>5, <1>6, <1>7 DEF Next, CallerStep, Contract!Next

\* decodeAll, decodeRange, decodeRangeInto, decodeAt and decodeGatherInto keep
\* the contract of encodings/Encoder.hpp, sequential or parallel, whichever of
\* their tasks fail: they write nothing but the slots of the selected rows, and
\* when they return these hold the selected rows, contiguously and in order.
THEOREM DecodeImplementsContract ==
    ASSUME \A q \in Requests : Fits(q)
    PROVE  Spec => Contract!Init /\ [][Contract!Next]_(Contract!dvars)
  <1>1. Init => Contract!Init
    <2>1. SUFFICES ASSUME Init PROVE Contract!Init
      OBVIOUS
    <2>2. \A x \in Slots : RowOf(dst[x]) = Junk
      BY <2>1, RowOfFill DEF Init
    <2>3. QED
      BY <2>1, <2>2 DEF Init, Contract!Init, Contract!Slots, Slots, NoCall, Contract!NoCall
  <1>2. Init => CInv
    BY InitInvariant DEF CInv, FInv, AtRange, FreshInv, DeliveredInv, Init, Decoding
  <1>3. CInv /\ [Next]_vars => CInv'
    BY NextInvariant, AtRangeStep, FreshStep, DeliveredStep DEF CInv, FInv
  <1>4. CInv /\ [Next]_vars => [Contract!Next]_(Contract!dvars)
    BY ContractStep
  <1>5. QED
    BY <1>1, <1>2, <1>3, <1>4, PTL DEF Spec
=============================================================================

------------------------- MODULE SubIntSplitDecode -------------------------
(***************************************************************************)
(* The decode paths of SubIntSplitEncoder: one caller thread, the          *)
(* std::async tasks it starts, the full-length section buffers it lends    *)
(* them (preDecoded) and the memory the rows are delivered to.             *)
(*                                                                         *)
(* decodeAll, decodeRange, decodeRangeInto and decodeGatherInto all run    *)
(* the same machinery on a half-open row range: decodeAll on [0, N) of a   *)
(* fresh vector, decodeGatherInto on each range of a list in turn;         *)
(* decodeAt asks each codec for one row in turn.  With parallelism on and  *)
(* more than one section the caller                                        *)
(*   preSpawn    starts one task per section; each decodes its whole range *)
(*               into a buffer of its own,                                 *)
(*   preJoin     joins them in section order, rethrowing the first         *)
(*               exception in that order,                                  *)
(*   chunkSpawn  starts tasks on contiguous spans of chunks; each stores   *)
(*               section 0 of a chunk and ORs the others into it,          *)
(*   chunkJoin   joins those.                                              *)
(* Otherwise it pre-decodes (seqPre) only the sections without random      *)
(* access, then walks the chunks itself (seqChunk).  An exception unwinds: *)
(* the futures' destructors wait for their tasks, then the section buffers *)
(* are freed, and only then does the caller's caller see it.               *)
(*                                                                         *)
(* DATA.  A section value of a row is the token <<section, row>>; a memory *)
(* cell holds the set of tokens OR-ed into it, or contains Junk when it    *)
(* was never stored to.  Sections occupy disjoint bits, so a cell is row r *)
(* exactly when it holds all the tokens of r and nothing else.             *)
(***************************************************************************)
EXTENDS Integers, Sequences

CONSTANTS
    N,            \* rows of the encoded buffer
    Splits,       \* number of sections (cfg_.splitCount())
    ChunkSize,    \* kDecodeChunkSize, 8192 in the code
    MaxThreads,   \* cfg_.parallelism.maxThreads
    HwThreads,    \* std::thread::hardware_concurrency(); may be 0
    NonRA,        \* sections whose codec lacks RandomAccess
    DstSize,      \* slots of the destination memory
    Requests,     \* the calls made: [op, ranges, n, parallel]
    Junk          \* the content of memory nothing was stored to

Sections == 0..(Splits - 1)
Rows     == 0..(N - 1)
Slots    == 0..(DstSize - 1)

ASSUME SizesAssumption == /\ N \in Nat
                          /\ Splits \in Nat \ {0}
                          /\ ChunkSize \in Nat \ {0}
                          /\ MaxThreads \in Nat
                          /\ HwThreads \in Nat
                          /\ DstSize \in Nat
ASSUME NonRAAssumption == NonRA \subseteq Sections
ASSUME JunkAssumption  == Junk \notin Sections \X Nat

RowRange == [begin : Nat, end : Nat]

ASSUME RequestsAssumption ==
    \A q \in Requests : /\ q.op \in {"all", "range", "into", "gather", "at"}
                        /\ q.ranges \in Seq(RowRange)
                        /\ q.n \in Nat
                        /\ q.parallel \in BOOLEAN

-----------------------------------------------------------------------------
(* Arithmetic of the chunk partition.                                      *)

Least(a, b)   == IF a < b THEN a ELSE b
FloorDiv(a, b) == a \div b                     \* mutant of CeilDiv
CeilDiv(a, b)  == (a + b - 1) \div b

SignedSize(r) == r.end - r.begin               \* mutant of RangeSize
RangeSize(r) == IF r.end > r.begin THEN r.end - r.begin ELSE 0

\* The configured limit on threads: maxThreads, or the hardware's, or one.
ThreadCap == IF MaxThreads > 0 THEN MaxThreads
             ELSE IF HwThreads > 0 THEN HwThreads ELSE 1

Threads == 0..(ThreadCap - 1)

EffectiveThreadCount(work) == Least(work, ThreadCap)

NumChunks(count)       == CeilDiv(count, ChunkSize)
ChunksPerThread(count) == CeilDiv(NumChunks(count),
                                  EffectiveThreadCount(NumChunks(count)))
FirstChunk(t, count)   == t * ChunksPerThread(count)
OneChunkTooFar(t, count) ==                     \* mutant of LastChunk
    Least(FirstChunk(t, count) + ChunksPerThread(count) + 1, NumChunks(count))
LastChunk(t, count)    == Least(FirstChunk(t, count) + ChunksPerThread(count),
                                NumChunks(count))

\* Offsets, from the start of the range, of the rows of chunk c.
ChunkOffsets(c, count) ==
    (c * ChunkSize) .. (Least(c * ChunkSize + ChunkSize, count) - 1)

-----------------------------------------------------------------------------
VARIABLES
    pc,         \* where the caller is
    call,       \* the request being answered
    idx,        \* the range of call.ranges it is at
    req,        \* that range after clamping, and its offset into dst
    k,          \* the caller's loop counter: a section, or a thread
    chunk,      \* the sequential path's chunk counter
    live,       \* sections whose preDecoded buffer is allocated
    pre,        \* contents of the preDecoded buffers
    secTask,    \* per section: the pre-decode task and its future
    chunkTask,  \* per thread: the accumulation task and its cursor
    dst,        \* the memory the rows are delivered to
    outcome     \* how the last call ended

vars == <<pc, call, idx, req, k, chunk, live, pre, secTask, chunkTask, dst,
          outcome>>

callVars == <<call, idx, req>>
taskVars == <<secTask, chunkTask>>

Count == req.end - req.start

Token(s, row) == <<s, row>>
RowTokens(row) == {Token(s, row) : s \in Sections}

NoCall   == [op |-> "none", ranges |-> <<>>, n |-> 0]
NoReq    == [start |-> 0, end |-> 0, off |-> 0]
NoBuffer == [i \in Rows |-> {Junk}]
NoTask   == [st |-> "none", c |-> 0, s |-> 0]

\* decodeAll and decodeRange deliver into a vector<T>(n), which is zeroed; the
\* Into calls into memory the caller need not have initialised.
Fill(op) == IF op \in {"all", "range"} THEN {} ELSE {Junk}

\* A call is of a codec object whose cfg_.parallelism.enabled is q.parallel;
\* the buffer does not depend on it.
Parallel(q) == q.parallel /\ Splits > 1

Init == /\ pc = "idle"
        /\ call = NoCall
        /\ idx = 1
        /\ req = NoReq
        /\ k = 0
        /\ chunk = 0
        /\ live = {}
        /\ pre = [s \in Sections |-> NoBuffer]
        /\ secTask = [s \in Sections |-> "none"]
        /\ chunkTask = [t \in Threads |-> NoTask]
        /\ dst = [x \in Slots |-> {Junk}]
        /\ outcome = "none"

-----------------------------------------------------------------------------
(* The caller: entering a call and stepping through its ranges.            *)

\* A public decode entry point is called, with memory of its own choice.
Call(q) ==
    /\ pc = "idle"
    /\ pc' = "next"
    /\ call' = q
    /\ idx' = 1
    /\ req' = NoReq
    /\ dst' = [x \in Slots |-> Fill(q.op)]
    /\ outcome' = "none"
    /\ UNCHANGED <<k, chunk, live, pre, taskVars>>

\* The range at hand selects rows: clamp its end and start decoding it.
EnterRange ==
    /\ pc = "next"
    /\ call.op # "at"
    /\ idx <= Len(call.ranges)
    /\ LET r == call.ranges[idx] IN
         /\ r.begin < N /\ r.begin < r.end
         /\ req' = [req EXCEPT !.start = r.begin, !.end = Least(r.end, N)]
    /\ pc' = IF Parallel(call) THEN "preSpawn" ELSE "seqPre"
    /\ k' = 0
    /\ chunk' = 0
    /\ UNCHANGED <<call, idx, live, pre, taskVars, dst, outcome>>

\* decodeAt, a range of one row: every section's value of the row is OR-ed into
\* a word that starts as zero; a codec that throws, or has no value there, makes it throw.
DecodeAt ==
    /\ pc = "next"
    /\ call.op = "at"
    /\ idx <= Len(call.ranges)
    /\ LET r == call.ranges[idx] IN
         /\ r.begin < N /\ r.end = r.begin + 1
         /\ req' = [req EXCEPT !.start = r.begin, !.end = r.end]
         /\ \/ /\ dst' = [dst EXCEPT ![req.off] = RowTokens(r.begin)]
               /\ pc' = "rangeDone"
            \/ dst' = dst /\ pc' = "unwind"
    /\ UNCHANGED <<call, idx, k, chunk, live, pre, taskVars, outcome>>

\* An empty range, or one that starts past the last row, writes nothing; its
\* unclamped size still advances the output offset.
SkipRange ==
    /\ pc = "next"
    /\ idx <= Len(call.ranges)
    /\ LET r == call.ranges[idx] IN
         /\ r.begin >= N \/ r.begin >= r.end
         /\ req' = [req EXCEPT !.off = @ + RangeSize(r)]
    /\ idx' = idx + 1
    /\ UNCHANGED <<pc, call, k, chunk, live, pre, taskVars, dst, outcome>>

\* The range is delivered: its section buffers go out of scope.
RangeDone ==
    /\ pc = "rangeDone"
    /\ pc' = "next"
    /\ req' = [req EXCEPT !.off = @ + RangeSize(call.ranges[idx])]
    /\ idx' = idx + 1
    /\ live' = {}
    /\ pre' = [s \in Sections |-> NoBuffer]
    /\ UNCHANGED <<call, k, chunk, taskVars, dst, outcome>>

\* Every range is done.  decodeGatherInto compares the rows it counted with
\* the number it was told to expect, after having delivered them.
Finish ==
    /\ pc = "next"
    /\ idx > Len(call.ranges)
    /\ pc' = "idle"
    /\ outcome' = IF call.op = "gather" /\ req.off # call.n
                  THEN "threw" ELSE "ok"
    /\ UNCHANGED <<callVars, k, chunk, live, pre, taskVars, dst>>

-----------------------------------------------------------------------------
(* The caller: the parallel path.                                          *)

SpawnPre ==
    /\ pc = "preSpawn"
    /\ live' = live \cup {k}
    /\ secTask' = [secTask EXCEPT ![k] = "run"]
    /\ IF k + 1 < Splits THEN k' = k + 1 /\ pc' = pc
                         ELSE k' = 0     /\ pc' = "preJoin"
    /\ UNCHANGED <<callVars, chunk, pre, chunkTask, dst, outcome>>

\* Allocating the buffer, or starting the thread, throws.
SpawnPreFails ==
    /\ pc = "preSpawn"
    /\ live' \in {live, live \cup {k}}
    /\ pc' = "unwind"
    /\ UNCHANGED <<callVars, k, chunk, pre, taskVars, dst, outcome>>

\* Mutant of JoinPre: the accumulation starts after the first join.
JoinFirstOnly ==
    /\ pc = "preJoin"
    /\ secTask[k] \in {"ok", "threw"}
    /\ secTask' = [secTask EXCEPT ![k] = "none"]
    /\ k' = 0
    /\ pc' = IF secTask[k] = "threw" THEN "unwind" ELSE "chunkSpawn"
    /\ UNCHANGED <<callVars, chunk, live, pre, chunkTask, dst, outcome>>

\* preFutures[k].get(): waits for the task, then rethrows what it threw.
JoinPre ==
    /\ pc = "preJoin"
    /\ secTask[k] \in {"ok", "threw"}
    /\ secTask' = [secTask EXCEPT ![k] = "none"]
    /\ IF secTask[k] = "threw" THEN k' = k /\ pc' = "unwind"
       ELSE IF k + 1 < Splits  THEN k' = k + 1 /\ pc' = pc
       ELSE                         k' = 0 /\ pc' = "chunkSpawn"
    /\ UNCHANGED <<callVars, chunk, live, pre, chunkTask, dst, outcome>>

MoreThreads == /\ k < EffectiveThreadCount(NumChunks(Count))
               /\ FirstChunk(k, Count) < NumChunks(Count)

SpawnChunkTask ==
    /\ pc = "chunkSpawn"
    /\ MoreThreads
    /\ chunkTask' = [chunkTask EXCEPT
                       ![k] = [st |-> "run", c |-> FirstChunk(k, Count), s |-> 0]]
    /\ k' = k + 1
    /\ UNCHANGED <<pc, callVars, chunk, live, pre, secTask, dst, outcome>>

SpawnChunkFails ==
    /\ pc = "chunkSpawn"
    /\ MoreThreads
    /\ pc' = "unwind"
    /\ UNCHANGED <<callVars, k, chunk, live, pre, taskVars, dst, outcome>>

\* The loop ends, or breaks off at the first thread with no chunk left.
ChunksSpawned ==
    /\ pc = "chunkSpawn"
    /\ ~MoreThreads
    /\ pc' = "chunkJoin"
    /\ k' = 0
    /\ UNCHANGED <<callVars, chunk, live, pre, taskVars, dst, outcome>>

OnlyFinished(t) == chunkTask[t].st = "done"     \* mutant of Joinable

\* A future that never got a task is not valid and is passed over.
Joinable(t) == chunkTask[t].st \in {"none", "done"}

JoinChunkTask ==
    /\ pc = "chunkJoin"
    /\ k < EffectiveThreadCount(NumChunks(Count))
    /\ Joinable(k)
    /\ chunkTask' = [chunkTask EXCEPT ![k] = NoTask]
    /\ k' = k + 1
    /\ UNCHANGED <<pc, callVars, chunk, live, pre, secTask, dst, outcome>>

ChunksJoined ==
    /\ pc = "chunkJoin"
    /\ k = EffectiveThreadCount(NumChunks(Count))
    /\ pc' = "rangeDone"
    /\ UNCHANGED <<callVars, k, chunk, live, pre, taskVars, dst, outcome>>

Running == {s \in Sections : secTask[s] = "run"}
Combining == {t \in Threads : chunkTask[t].st = "run"}

WaitForNobody == TRUE                           \* mutants of TasksEnded
WaitForCodecs == Running = {}
TasksEnded    == Running = {} /\ Combining = {}

\* The exception leaves the block: every future's destructor waits for its
\* task, and then the section buffers are freed.  (A task that was not waited
\* for would keep running.)
Unwind ==
    /\ pc = "unwind"
    /\ TasksEnded
    /\ secTask' = [s \in Sections |-> IF s \in Running THEN "run" ELSE "none"]
    /\ chunkTask' = [t \in Threads |-> IF t \in Combining THEN chunkTask[t] ELSE NoTask]
    /\ live' = {}
    /\ pre' = [s \in Sections |-> NoBuffer]
    /\ pc' = "idle"
    /\ outcome' = "threw"
    /\ UNCHANGED <<callVars, k, chunk, dst>>

-----------------------------------------------------------------------------
(* Memory: what decoding a section, and combining it into a chunk, does.   *)

\* The whole range of section s, decoded into its buffer.
Decoded(s) == [i \in Rows |-> IF i < Count THEN {Token(s, req.start + i)}
                                           ELSE {Junk}]

\* Mutant of Combined: section 0 is OR-ed in like the others.
AlwaysOred(mem, c, s, cells) ==
    [x \in Slots |-> IF x - req.off \in ChunkOffsets(c, Count)
                     THEN cells[x - req.off] \cup mem[x] ELSE mem[x]]

\* assignSectionInto for section 0, combineSectionInto for the others, on the
\* rows of chunk c: cells gives the section's cell at each offset of the range.
Combined(mem, c, s, cells) ==
    [x \in Slots |->
        IF x - req.off \in ChunkOffsets(c, Count)
        THEN cells[x - req.off] \cup (IF s = 0 THEN {} ELSE mem[x])
        ELSE mem[x]]

(* The tasks.                                                              *)

\* Task s runs its codec, which fills the buffer or throws.
PreTask(s) ==
    /\ secTask[s] = "run"
    /\ \/ /\ secTask' = [secTask EXCEPT ![s] = "ok"]
          /\ pre' = [pre EXCEPT ![s] = Decoded(s)]
       \/ /\ secTask' = [secTask EXCEPT ![s] = "threw"]
          /\ pre' = pre
    /\ UNCHANGED <<pc, callVars, k, chunk, live, chunkTask, dst, outcome>>

\* Task t combines one section of its current chunk.
ChunkTask(t) ==
    /\ chunkTask[t].st = "run"
    /\ LET c == chunkTask[t].c
           s == chunkTask[t].s
       IN  /\ dst' = Combined(dst, c, s, pre[s])
           /\ chunkTask' = [chunkTask EXCEPT ![t] =
                IF s + 1 < Splits
                THEN [st |-> "run", c |-> c, s |-> s + 1]
                ELSE IF c + 1 < LastChunk(t, Count)
                THEN [st |-> "run", c |-> c + 1, s |-> 0]
                ELSE [st |-> "done", c |-> c, s |-> 0]]
    /\ UNCHANGED <<pc, callVars, k, chunk, live, pre, secTask, outcome>>

-----------------------------------------------------------------------------
(* The caller: the sequential path.                                        *)

SeqPre ==
    /\ pc = "seqPre"
    /\ IF k \in NonRA THEN /\ live' = live \cup {k}
                           /\ pre' = [pre EXCEPT ![k] = Decoded(k)]
                      ELSE UNCHANGED <<live, pre>>
    /\ IF k + 1 < Splits THEN k' = k + 1 /\ pc' = pc
                         ELSE k' = 0     /\ pc' = "seqChunk"
    /\ UNCHANGED <<callVars, chunk, taskVars, dst, outcome>>

\* The allocation, or the codec, of a section without random access throws.
SeqPreFails ==
    /\ pc = "seqPre"
    /\ k \in NonRA
    /\ live' \in {live, live \cup {k}}
    /\ pc' = "unwind"
    /\ UNCHANGED <<callVars, k, chunk, pre, taskVars, dst, outcome>>

\* One section of one chunk: from its buffer, or decoded from the codec by
\* decodeRangeAndAccumulate.
SeqCombine ==
    /\ pc = "seqChunk"
    /\ chunk < NumChunks(Count)
    /\ dst' = Combined(dst, chunk, k, IF k \in live THEN pre[k] ELSE Decoded(k))
    /\ IF k + 1 < Splits THEN k' = k + 1 /\ chunk' = chunk
                         ELSE k' = 0     /\ chunk' = chunk + 1
    /\ UNCHANGED <<pc, callVars, live, pre, taskVars, outcome>>

\* The codec decodes into scratch first, so a throw stores nothing.
SeqCombineFails ==
    /\ pc = "seqChunk"
    /\ chunk < NumChunks(Count)
    /\ k \notin live
    /\ pc' = "unwind"
    /\ UNCHANGED <<callVars, k, chunk, live, pre, taskVars, dst, outcome>>

SeqDone ==
    /\ pc = "seqChunk"
    /\ chunk = NumChunks(Count)
    /\ pc' = "rangeDone"
    /\ UNCHANGED <<callVars, k, chunk, live, pre, taskVars, dst, outcome>>

-----------------------------------------------------------------------------
CallerStep ==
    \/ EnterRange \/ DecodeAt \/ SkipRange \/ RangeDone \/ Finish
    \/ SpawnPre \/ SpawnPreFails \/ JoinPre
    \/ SpawnChunkTask \/ SpawnChunkFails \/ ChunksSpawned
    \/ JoinChunkTask \/ ChunksJoined \/ Unwind
    \/ SeqPre \/ SeqPreFails \/ SeqCombine \/ SeqCombineFails \/ SeqDone

Next ==
    \/ \E q \in Requests : Call(q)
    \/ CallerStep
    \/ \E s \in Sections : PreTask(s)
    \/ \E t \in Threads : ChunkTask(t)

\* Started threads run, and the caller runs whenever it is not waiting.
Fairness == /\ WF_vars(CallerStep)
            /\ \A s \in Sections : WF_vars(PreTask(s))
            /\ \A t \in Threads : WF_vars(ChunkTask(t))

Spec == Init /\ [][Next]_vars /\ Fairness

-----------------------------------------------------------------------------
(* Properties.                                                             *)

Cell == SUBSET ((Sections \X Nat) \cup {Junk})

PCs == {"idle", "next", "preSpawn", "preJoin", "chunkSpawn", "chunkJoin",
        "seqPre", "seqChunk", "rangeDone", "unwind"}

TaskState == {"none", "run", "ok", "threw"}

\* Every variable has its type (the locals of the decode paths).
TypeOK ==
    /\ pc \in PCs
    /\ call \in Requests \cup {NoCall}
    /\ idx \in Nat \ {0}
    /\ req \in [start : Nat, end : Nat, off : Nat]
    /\ k \in Nat
    /\ chunk \in Nat
    /\ live \in SUBSET Sections
    /\ pre \in [Sections -> [Rows -> Cell]]
    /\ secTask \in [Sections -> TaskState]
    /\ chunkTask \in [Threads -> [st : {"none", "run", "done"}, c : Nat, s : Nat]]
    /\ dst \in [Slots -> Cell]
    /\ outcome \in {"none", "ok", "threw"}

\* No task touches a section buffer that is not allocated: a pre-decode task
\* writes only its own live buffer, and an accumulation task runs only while
\* all the buffers it reads are live.
TasksUseLiveBuffers ==
    /\ Running \subseteq live
    /\ Combining # {} => live = Sections

\* Control never goes back to the caller's caller, nor on to the next range of
\* a gather, while a task of the call is still running: not even when the
\* call ends by the exception of another of its tasks.
NoTaskOutlivesCall ==
    pc \in {"idle", "next", "rangeDone"} => Running = {} /\ Combining = {}

\* The codec phase and the accumulation phase do not overlap, so worker
\* threads never call back into a codec while rows are being combined.
PhasesDoNotOverlap == Combining # {} => Running = {}

\* Two running accumulation tasks never have a chunk in common still to do,
\* which is why they need no synchronisation.
DisjointWriters ==
    \A t, u \in Combining :
        t # u => (chunkTask[t].c .. LastChunk(t, Count) - 1)
                 \cap (chunkTask[u].c .. LastChunk(u, Count) - 1) = {}

\* When a range is reported done every one of its rows is in its slot, with
\* all its sections and nothing that was there before: the chunks of all the
\* threads cover the range, and section 0 was stored before the others were
\* OR-ed, so the destination need not have been initialised.
RangeExact ==
    pc = "rangeDone" =>
        \A i \in 0..(Count - 1) :
            req.off + i \in Slots =>
                dst[req.off + i] = RowTokens(req.start + i)

\* In the parallel path a section that fails to decode costs the caller
\* nothing: no row of the range has been stored to, because no accumulation
\* starts before every section was joined without an exception.
FailedPredecodeStoresNothing ==
    (\E s \in Sections : secTask[s] = "threw") =>
        \A i \in 0..(Count - 1) :
            req.off + i \in Slots => dst[req.off + i] = Fill(call.op)

\* Every call ends, whichever of its tasks throw, in whichever order they end.
EveryCallEnds == (pc # "idle") ~> (pc = "idle")

(* The inductive invariant of the proofs: what holds at each program point *)
(* of the caller, how far each accumulation task has come, and what it has *)
(* delivered by then.                                                      *)

Decoding == {"preSpawn", "preJoin", "chunkSpawn", "chunkJoin", "seqPre", "seqChunk"}

NThreads == EffectiveThreadCount(NumChunks(Count))

\* While a range is being decoded, it is a non-empty range of rows.
ReqInv ==
    pc \in Decoding \cup {"rangeDone", "unwind"} =>
        /\ req.start < req.end /\ req.end <= N
        /\ idx <= Len(call.ranges)

\* The codec tasks and the section buffers, phase by phase.
SectionInv ==
    /\ pc \in {"idle", "next"} => live = {}
    /\ pc \notin {"preSpawn", "preJoin", "unwind"} =>
          \A s \in Sections : secTask[s] = "none"
    /\ pc = "preSpawn" =>
          /\ k \in Sections
          /\ live = 0..(k - 1)
          /\ \A s \in Sections : s < k <=> secTask[s] # "none"
    /\ pc = "preJoin" =>
          /\ k \in Sections
          /\ live = Sections
          /\ \A s \in Sections : k <= s <=> secTask[s] # "none"
    /\ pc \in {"chunkSpawn", "chunkJoin"} => live = Sections
    /\ Running \subseteq live

\* A buffer whose task has ended well, or that was filled by the caller, holds
\* its section of the whole range.
BufferInv ==
    pc \in Decoding =>
        \A s \in live : secTask[s] \in {"none", "ok"} => pre[s] = Decoded(s)

\* Accumulation tasks exist only between their spawn and their join.
ChunkTaskInv ==
    /\ pc \notin {"chunkSpawn", "chunkJoin", "unwind"} =>
          \A t \in Threads : chunkTask[t].st = "none"
    /\ Combining # {} => live = Sections /\ Running = {}
    /\ pc = "chunkSpawn" =>
          /\ k <= NThreads
          /\ \A t \in Threads : t < k <=> chunkTask[t].st # "none"
    /\ pc = "chunkJoin" =>
          /\ k <= NThreads
          /\ \A t \in Threads : t < k => chunkTask[t].st = "none"
          /\ \A t \in Threads : t >= NThreads => chunkTask[t].st = "none"
          /\ \A t \in Threads :
                t >= k => \/ chunkTask[t].st # "none"
                          \/ FirstChunk(t, Count) >= NumChunks(Count)

ChunkHolds(c, secs) ==
    \A i \in ChunkOffsets(c, Count) :
        req.off + i \in Slots =>
            dst[req.off + i] = {Token(s, req.start + i) : s \in secs}

\* A running task is inside its span of chunks; those behind it are complete
\* and the one it is at holds the sections it has combined.
CursorInv ==
    \A t \in Combining :
        /\ chunkTask[t].c \in FirstChunk(t, Count)..(LastChunk(t, Count) - 1)
        /\ chunkTask[t].s \in Sections

ProgressInv ==
    /\ pc \in {"chunkSpawn", "chunkJoin"} =>
          \A t \in Combining :
              /\ chunkTask[t].s > 0 =>
                    ChunkHolds(chunkTask[t].c, 0..(chunkTask[t].s - 1))
              /\ \A c \in FirstChunk(t, Count)..(chunkTask[t].c - 1) :
                    ChunkHolds(c, Sections)
    /\ pc \in {"chunkSpawn", "chunkJoin"} =>
          \A t \in Threads :
              chunkTask[t].st = "done" \/ (pc = "chunkJoin" /\ t < k) =>
                  \A c \in FirstChunk(t, Count)..(LastChunk(t, Count) - 1) :
                      ChunkHolds(c, Sections)

SequentialInv ==
    /\ pc = "seqPre" => k \in Sections /\ chunk = 0
    /\ pc = "seqChunk" =>
          /\ k \in Sections
          /\ chunk <= NumChunks(Count)
          /\ k > 0 => chunk < NumChunks(Count) /\ ChunkHolds(chunk, 0..(k - 1))
          /\ \A c \in 0..(chunk - 1) : ChunkHolds(c, Sections)

IInv == /\ TypeOK /\ ReqInv /\ SectionInv /\ BufferInv /\ ChunkTaskInv
        /\ CursorInv /\ ProgressInv /\ SequentialInv /\ RangeExact

-----------------------------------------------------------------------------
(* The contract of encodings/Encoder.hpp: a cell is a row when it holds    *)
(* exactly the row's tokens.                                               *)

RowOf(cell) == IF \E r \in Rows : cell = RowTokens(r)
               THEN CHOOSE r \in Rows : cell = RowTokens(r)
               ELSE Junk

Contract == INSTANCE Decoder WITH
              busy <- pc # "idle",
              dst <- [x \in Slots |-> RowOf(dst[x])]

ImplementsDecoder == Contract!Spec
=============================================================================

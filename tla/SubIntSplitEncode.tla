------------------------- MODULE SubIntSplitEncode -------------------------
(***************************************************************************)
(* SubIntSplitEncoder::encode: a caller cuts every value into bit          *)
(* sections, has each section encoded by its codec, one std::async task    *)
(* per section when parallelism is on, and lays the payloads out behind a  *)
(* header.  What decoding makes of that layout is the reader's half, after *)
(* parseHeader.                                                            *)
(*                                                                         *)
(* DATA.  A value has Width bits.  An encoded buffer is a sequence of      *)
(* cells: the row count, the number of sections and their order, then each *)
(* section's width and payload size, then the payloads.  A section codec   *)
(* emits one cell per value, or one cell in all for a constant section, so *)
(* that payloads differ in size as those of real codecs do.                *)
(***************************************************************************)
EXTENDS Integers, Sequences, SequencesExt, Arithmetic

CONSTANTS
    Width,     \* bits of a value (kTotalBits)
    Configs,   \* the configurations: [bits, order, parallel]
    Inputs,    \* the sequences of values that are encoded
    None       \* memory that is not allocated

Orders == {"LSB_TO_MSB", "MSB_TO_LSB"}
Values == 0..(PowerOfTwo[Width] - 1)

ASSUME WidthAssumption == Width \in Nat \ {0}
\* SubIntSplitConfigIntegral::validate
ASSUME ConfigsAssumption ==
    \A c \in Configs : /\ c.bits \in Seq(1..Width) /\ Len(c.bits) > 0
                       /\ Total(c.bits) = Width
                       /\ c.order \in Orders /\ c.parallel \in BOOLEAN
ASSUME InputsAssumption == Inputs \subseteq Seq(Values)
ASSUME NoneAssumption == \A n \in 1..Width : None \notin [0..(n - 1) -> Seq(Values)]

VARIABLES
    pc,       \* where the caller is
    cfg,      \* the encoder's configuration
    data,     \* the values being encoded
    k,        \* the caller's loop counter
    raw,      \* sectionsRaw: per section its value of every row
    task,     \* per section: the task that encodes it, and its future
    enc,      \* encodedSections: per section its payload
    out,      \* the encoded buffer
    outcome   \* how the last call ended

vars == <<pc, cfg, data, k, raw, task, enc, out, outcome>>

Splits   == Len(cfg.bits)
Sections == 0..(Splits - 1)
Bits(s)  == cfg.bits[s + 1]

Init == /\ pc = "idle"
        /\ cfg \in Configs
        /\ data = <<>>
        /\ k = 0
        /\ raw = None
        /\ task = [s \in Sections |-> "none"]
        /\ enc = None
        /\ out = None
        /\ outcome = "none"

-----------------------------------------------------------------------------
(* Splitting a value.                                                      *)

\* The writer's shifts: from the low end the value is shifted on by every width
\* taken, from the high end the remaining width is the shift.
ShiftTooFar(s) == IF cfg.order = "LSB_TO_MSB" THEN SumTo(cfg.bits, s)
                  ELSE Width - SumTo(cfg.bits, s)     \* mutant of SplitShift
SplitShift(s) == IF cfg.order = "LSB_TO_MSB" THEN SumTo(cfg.bits, s)
                 ELSE Width - SumTo(cfg.bits, s + 1)

SectionValue(v, s) == (v \div PowerOfTwo[SplitShift(s)]) % PowerOfTwo[Bits(s)]

\* TypedSectionCodecAdapter::encode refuses a value wider than its section.
Overflows(s) == \E i \in DOMAIN raw[s] : raw[s][i] >= PowerOfTwo[Bits(s)]

-----------------------------------------------------------------------------
(* The layout.                                                             *)

Payload(vs) == IF \A i \in DOMAIN vs : vs[i] = vs[1] THEN <<vs[1]>> ELSE vs

Header(n, sizes) ==
    <<n, Splits, cfg.order>>
        \o FlattenSeq([s \in 1..Splits |-> <<cfg.bits[s], sizes[s]>>])

Empty == Header(0, [s \in 1..Splits |-> 0])

Buffer == Header(Len(data), [s \in 1..Splits |-> Len(enc[s - 1])])
              \o FlattenSeq([s \in 1..Splits |-> enc[s - 1]])

-----------------------------------------------------------------------------
(* encode.                                                                 *)

Encode(d) ==
    /\ pc = "idle"
    /\ Len(d) > 0
    /\ data' = d
    /\ pc' = "split"
    /\ out' = None
    /\ outcome' = "none"
    /\ UNCHANGED <<cfg, k, raw, task, enc>>

EncodeEmpty ==
    /\ pc = "idle"
    /\ data' = <<>>
    /\ out' = Empty
    /\ outcome' = "ok"
    /\ UNCHANGED <<pc, cfg, k, raw, task, enc>>

\* The section array is filled, and the arrays for the results allocated.
Split ==
    /\ pc = "split"
    /\ raw' = [s \in Sections |-> [i \in DOMAIN data |-> SectionValue(data[i], s)]]
    /\ enc' = [s \in Sections |-> <<>>]
    /\ k' = 0
    /\ pc' = IF cfg.parallel /\ Splits > 1 THEN "spawn" ELSE "sections"
    /\ UNCHANGED <<cfg, data, task, out, outcome>>

SplitFails ==
    /\ pc = "split"
    /\ pc' = "unwind"
    /\ UNCHANGED <<cfg, data, k, raw, task, enc, out, outcome>>

SpawnPastTheEnd ==                              \* mutant of Spawn
    /\ pc = "spawn"
    /\ task' = [task EXCEPT ![k] = "run"]
    /\ k' = k + 1
    /\ pc' = IF k + 1 < Splits THEN pc ELSE "join"
    /\ UNCHANGED <<cfg, data, raw, enc, out, outcome>>
Spawn ==
    /\ pc = "spawn"
    /\ task' = [task EXCEPT ![k] = "run"]
    /\ IF k + 1 < Splits THEN k' = k + 1 /\ pc' = pc
                         ELSE k' = 0     /\ pc' = "join"
    /\ UNCHANGED <<cfg, data, raw, enc, out, outcome>>

SpawnFails ==
    /\ pc = "spawn"
    /\ pc' = "unwind"
    /\ UNCHANGED <<cfg, data, k, raw, task, enc, out, outcome>>

\* The task of section s runs its codec, which may throw.
EncodeSection(s) ==
    /\ task[s] = "run"
    /\ \/ /\ ~Overflows(s)
          /\ task' = [task EXCEPT ![s] = "ok"]
          /\ enc' = [enc EXCEPT ![s] = Payload(raw[s])]
       \/ /\ task' = [task EXCEPT ![s] = IF Overflows(s) THEN "overflow" ELSE "threw"]
          /\ enc' = enc
    /\ UNCHANGED <<pc, cfg, data, k, raw, out, outcome>>

Ended == {"ok", "threw", "overflow"}

JoinSuccesses ==                                \* mutant of Join
    /\ pc = "join"
    /\ task[k] = "ok"
    /\ task' = [task EXCEPT ![k] = "none"]
    /\ IF k + 1 < Splits THEN k' = k + 1 /\ pc' = pc ELSE k' = 0 /\ pc' = "layout"
    /\ UNCHANGED <<cfg, data, raw, enc, out, outcome>>
\* f.get() on the futures in order
Join ==
    /\ pc = "join"
    /\ task[k] \in Ended
    /\ task' = [task EXCEPT ![k] = "none"]
    /\ IF task[k] # "ok" THEN k' = k /\ pc' = "unwind"
       ELSE IF k + 1 < Splits THEN k' = k + 1 /\ pc' = pc
       ELSE k' = 0 /\ pc' = "layout"
    /\ UNCHANGED <<cfg, data, raw, enc, out, outcome>>

\* Without parallelism the caller encodes the sections itself.
EncodeInTurn ==
    /\ pc = "sections"
    /\ ~Overflows(k)
    /\ enc' = [enc EXCEPT ![k] = Payload(raw[k])]
    /\ IF k + 1 < Splits THEN k' = k + 1 /\ pc' = pc
                         ELSE k' = 0     /\ pc' = "layout"
    /\ UNCHANGED <<cfg, data, raw, task, out, outcome>>

EncodeInTurnFails ==
    /\ pc = "sections"
    /\ pc' = "unwind"
    /\ UNCHANGED <<cfg, data, k, raw, task, enc, out, outcome>>

Layout ==
    /\ pc = "layout"
    /\ out' = Buffer
    /\ raw' = None
    /\ enc' = None
    /\ pc' = "idle"
    /\ outcome' = "ok"
    /\ UNCHANGED <<cfg, data, k, task>>

LayoutFails ==
    /\ pc = "layout"
    /\ pc' = "unwind"
    /\ UNCHANGED <<cfg, data, k, raw, task, enc, out, outcome>>

Running == {s \in Sections : task[s] = "run"}

WaitForNobody == TRUE                           \* mutant of TasksEnded
TasksEnded    == Running = {}

\* The exception destroys the futures, which wait for their tasks, and after
\* them the arrays the tasks use.
Unwind ==
    /\ pc = "unwind"
    /\ TasksEnded
    /\ task' = [s \in Sections |-> IF s \in Running THEN "run" ELSE "none"]
    /\ raw' = None
    /\ enc' = None
    /\ pc' = "idle"
    /\ outcome' = "threw"
    /\ UNCHANGED <<cfg, data, k, out>>

CallerStep ==
    \/ Split \/ SplitFails \/ Spawn \/ SpawnFails \/ Join
    \/ EncodeInTurn \/ EncodeInTurnFails \/ Layout \/ LayoutFails \/ Unwind

Next == \/ \E d \in Inputs : Encode(d)
        \/ EncodeEmpty
        \/ CallerStep
        \/ \E s \in Sections : EncodeSection(s)

\* Started threads run, and the caller runs whenever it is not waiting.
Fairness == WF_vars(CallerStep) /\ \A s \in 0..(Width - 1) :
                                      WF_vars(s \in Sections /\ EncodeSection(s))

Spec == Init /\ [][Next]_vars /\ Fairness

-----------------------------------------------------------------------------
(* Reading the layout: parseHeader, and the combination of the sections.   *)

HeaderCells(splits) == 3 + 2 * splits

\* The header of a buffer, with the payload of each section cut out of it.
Parse(b) ==
    LET splits == b[2]
        bits   == [s \in 1..splits |-> b[2 * s + 2]]
        sizes  == [s \in 1..splits |-> b[2 * s + 3]]
    IN  [rows   |-> b[1],
         shifts |-> [s \in 1..splits |->
                        IF b[3] = "LSB_TO_MSB" THEN SumTo(bits, s - 1)
                        ELSE Width - SumTo(bits, s)],
         views  |-> [s \in 1..splits |->
                        LET off == HeaderCells(splits) + SumTo(sizes, s - 1)
                        IN  SubSeq(b, off + 1, off + sizes[s])]]

\* What the section codec decodes from a view of n rows.
Unpacked(view, n) == IF Len(view) = n THEN view ELSE [i \in 1..n |-> view[1]]

DecodedRows(b) ==
    LET h == Parse(b) IN
    [i \in 1..h.rows |->
        Total([s \in DOMAIN h.views |->
                  Unpacked(h.views[s], h.rows)[i] * PowerOfTwo[h.shifts[s]]])]

-----------------------------------------------------------------------------
\* Every variable has its type.
TypeOK ==
    /\ pc \in {"idle", "split", "spawn", "join", "sections", "layout", "unwind"}
    /\ cfg \in Configs
    /\ data \in Seq(Values)
    /\ k \in Sections
    /\ raw = None \/ raw \in [Sections -> Seq(Values)]
    /\ task \in [Sections -> {"none", "run"} \cup Ended]
    /\ enc = None \/ enc \in [Sections -> Seq(Values)]
    /\ outcome \in {"none", "ok", "threw"}

\* What is decoded from an encoded buffer is what was encoded: writer and
\* reader agree on widths, shifts, sizes and offsets for every configuration,
\* and no section value is ever refused as too wide (TypedSectionCodecAdapter,
\* "Section value does not fit in configured bit width").
RoundTrip ==
    /\ pc = "idle" /\ outcome = "ok" => DecodedRows(out) = data
    /\ \A s \in Sections : task[s] # "overflow"

\* A task runs only while the section array it reads and the array it writes
\* are there, also when another section or thread failed: encode returns, or
\* throws, only after its tasks have ended.
TasksUseLiveArrays ==
    Running # {} => raw # None /\ enc # None /\ pc \notin {"idle", "layout"}

\* Every encode ends, whichever of its tasks throw.
EveryEncodeEnds == (pc # "idle") ~> (pc = "idle")
=============================================================================

---------------------- MODULE SubIntSplitEncodeProofs ----------------------
(***************************************************************************)
(* Proofs about SubIntSplitEncode, for every width of values, every        *)
(* configuration that validate() accepts and every input:                  *)
(*   - what decoding reads from an encoded buffer is what was encoded;     *)
(*   - the arrays of a call outlive the tasks that use them.               *)
(* The invariant says where the tasks can be at each of the caller's       *)
(* steps, and that a payload the caller has gone by is the one its section *)
(* has; the rest is the layout, cell by cell, and the arithmetic of shifts *)
(* and masks.                                                              *)
(***************************************************************************)
EXTENDS SubIntSplitEncode, Induction

-----------------------------------------------------------------------------
(* What validate() leaves of a configuration.                              *)

\* The sections of a configuration are within a value: each has bits, they sum
\* up to the width, and so there are no more of them than bits.
LEMMA ConfigBits ==
    ASSUME cfg \in Configs
    PROVE  /\ Splits \in 1..Width
           /\ cfg.bits \in Seq(1..Width)
           /\ \A i \in 1..Splits : cfg.bits[i] \in 1..Width
           /\ SumTo(cfg.bits, 0) = 0 /\ SumTo(cfg.bits, Splits) = Width
           /\ \A i \in 0..Splits : SumTo(cfg.bits, i) \in 0..Width
           /\ \A i \in 1..Splits : SumTo(cfg.bits, i) = SumTo(cfg.bits, i - 1) + cfg.bits[i]
  <1> DEFINE n == Splits
             b == cfg.bits
  <1>1. n \in Nat \ {0} /\ b \in Seq(1..Width) /\ SumTo(b, n) = Width
    BY ConfigsAssumption DEF Splits, Total
  <1>2. \A i \in 1..n : b[i] \in 1..Width /\ b[i] \in Nat
    BY <1>1, WidthAssumption DEF Splits
  <1> HIDE DEF n, b
  <1>3. /\ SumTo(b, 0) = 0
        /\ \A i \in 0..n : SumTo(b, i) \in Nat
        /\ \A i \in 1..n : SumTo(b, i) = SumTo(b, i - 1) + b[i]
    BY <1>1, <1>2, SumToStep
  <1>4. ASSUME NEW i \in 0..n PROVE SumTo(b, i) <= SumTo(b, n)
    <2>1. n \in 0..n /\ i <= n
      BY <1>1
    <2>2. QED
      BY <1>1, <1>2, <2>1, SumToGrows
  <1>5. n <= Width
    <2> DEFINE P == {i \in Nat : i <= n => i <= SumTo(b, i)}
    <2>1. 0 \in P
      BY <1>3
    <2>2. ASSUME NEW i \in Nat, i \in P PROVE i + 1 \in P
      <3>1. SUFFICES ASSUME i + 1 <= n PROVE i + 1 <= SumTo(b, i + 1)
        OBVIOUS
      <3>2. PICK j \in 1..n : j = i + 1 /\ j - 1 = i /\ i \in 0..n
        BY <1>1, <3>1
      <3>3. i <= SumTo(b, i)
        BY <1>1, <2>2, <3>1
      <3>4. SumTo(b, j) = SumTo(b, i) + b[j] /\ b[j] >= 1 /\ SumTo(b, i) \in Nat /\ b[j] \in Nat
        BY <1>2, <1>3, <3>2
      <3>5. QED
        BY <3>2, <3>3, <3>4
    <2>3. \A i \in Nat : i \in P
      <3> HIDE DEF P
      <3> QED
        BY <2>1, <2>2, InductionOnNat
    <2>4. QED
      BY <1>1, <2>3
  <1>6. QED
    BY <1>1, <1>2, <1>3, <1>4, <1>5, WidthAssumption DEF n, b

\* A section is shifted down by bits the value has.
LEMMA ShiftFits ==
    ASSUME cfg \in Configs, NEW s \in Sections
    PROVE  /\ Bits(s) \in 1..Width
           /\ SplitShift(s) \in Nat /\ SplitShift(s) + Bits(s) <= Width
  <1>1. PICK j \in 1..Splits : j = s + 1 /\ j - 1 = s
    BY ConfigBits DEF Sections
  <1>2. j \in 0..Splits /\ s \in 0..Splits
    BY <1>1, ConfigBits DEF Sections
  <1>3. PICK x \in 0..Width, y \in 0..Width :
            /\ x = SumTo(cfg.bits, s) /\ y = SumTo(cfg.bits, j)
            /\ y = x + cfg.bits[j] /\ cfg.bits[j] \in 1..Width
    BY <1>1, <1>2, ConfigBits
  <1>4. QED
    BY <1>1, <1>3, WidthAssumption DEF Bits, SplitShift

\* What a section holds fits its bits, and is a value.
LEMMA SectionValueFits ==
    ASSUME cfg \in Configs, NEW s \in Sections, NEW v \in Values
    PROVE  /\ SectionValue(v, s) \in 0..(PowerOfTwo[Bits(s)] - 1)
           /\ SectionValue(v, s) \in Values
  <1>1. SplitShift(s) \in Nat /\ Bits(s) \in Nat /\ Bits(s) <= Width /\ Width \in Nat
    BY ShiftFits, WidthAssumption
  <1>2. PICK p \in Nat \ {0}, q \in Nat \ {0}, w \in Nat \ {0} :
            /\ p = PowerOfTwo[SplitShift(s)] /\ q = PowerOfTwo[Bits(s)]
            /\ w = PowerOfTwo[Width]
    BY <1>1, PowerOfTwoStep
  <1>3. q <= w
    BY <1>1, <1>2, PowerOfTwoGrows
  <1>4. v \in 0..(w - 1)
    BY <1>2 DEF Values
  <1>5. v \div p \in Nat
    BY <1>4
  <1>6. (v \div p) % q \in 0..(q - 1)
    BY <1>5
  <1>7. QED
    BY <1>2, <1>3, <1>6 DEF SectionValue, Values

-----------------------------------------------------------------------------
(* The invariant.                                                          *)

SplitOf(d) == [s \in Sections |-> [i \in DOMAIN d |-> SectionValue(d[i], s)]]

HasArrays == raw = SplitOf(data) /\ enc \in [Sections -> Seq(Values)]
NoArrays  == raw = None /\ enc = None

IsEncoded(s) == enc[s] = Payload(SplitOf(data)[s])

\* The arrays are there from the split to the end of the call, and as long as
\* a task runs.
ArraysInv ==
    /\ pc \in {"idle", "split"} => NoArrays
    /\ pc \in {"spawn", "join", "sections", "layout"} => HasArrays
    /\ pc = "unwind" => HasArrays \/ NoArrays
    /\ pc # "idle" => Len(data) > 0

\* Where the task of a section can be, and that its payload is there when the
\* caller goes by it.
TasksInv ==
    \A s \in Sections :
        /\ task[s] # "overflow"
        /\ pc \in {"idle", "split", "sections", "layout"} => task[s] = "none"
        /\ pc = "unwind" /\ NoArrays => task[s] = "none"
        /\ pc = "spawn" => (task[s] = "none" <=> s >= k)
        /\ pc = "join" => (task[s] = "none" <=> s < k)
        /\ pc \in {"spawn", "join"} /\ task[s] = "ok" => IsEncoded(s)
        /\ pc \in {"join", "sections"} /\ s < k => IsEncoded(s)
        /\ pc = "layout" => IsEncoded(s)

\* What a call that ended well has written.
Written(d) ==
    IF d = <<>> THEN Empty
    ELSE Header(Len(d), [s \in 1..Splits |-> Len(Payload(SplitOf(d)[s - 1]))])
             \o FlattenSeq([s \in 1..Splits |-> Payload(SplitOf(d)[s - 1])])

OutInv == pc = "idle" /\ outcome = "ok" => out = Written(data)

IInv == TypeOK /\ ArraysInv /\ TasksInv /\ OutInv

\* The array of section values has section values in it, and is memory.
LEMMA SplitOfType ==
    ASSUME cfg \in Configs, NEW d \in Seq(Values)
    PROVE  /\ SplitOf(d) \in [Sections -> Seq(Values)]
           /\ \A s \in Sections : DOMAIN SplitOf(d)[s] = DOMAIN d
           /\ \A s \in Sections : \A i \in DOMAIN d :
                 SplitOf(d)[s][i] = SectionValue(d[i], s)
           /\ \A a \in [Sections -> Seq(Values)] : a # None
  <1>1. ASSUME NEW s \in Sections
        PROVE  [i \in DOMAIN d |-> SectionValue(d[i], s)] \in Seq(Values)
    <2>1. \A i \in 1..Len(d) : SectionValue(d[i], s) \in Values
      BY SectionValueFits
    <2>2. Len(d) \in Nat /\ DOMAIN d = 1..Len(d)
      OBVIOUS
    <2> DEFINE e == [i \in 1..Len(d) |-> SectionValue(d[i], s)]
    <2>3. e \in [1..Len(d) -> Values]
      BY <2>1
    <2>4. e \in Seq(Values)
      BY <2>2, <2>3
    <2>5. QED
      BY <2>2, <2>4
  <1>2. ASSUME NEW a \in [Sections -> Seq(Values)] PROVE a # None
    <2>1. Splits \in 1..Width
      BY ConfigBits
    <2>2. QED
      BY <2>1, NoneAssumption DEF Sections
  <1>3. QED
    BY <1>1, <1>2 DEF SplitOf

\* A payload holds values, one per row or one in all.
LEMMA PayloadType ==
    ASSUME NEW vs \in Seq(Values), Len(vs) > 0
    PROVE  /\ Payload(vs) \in Seq(Values)
           /\ \/ Len(Payload(vs)) = Len(vs) /\ Payload(vs) = vs
              \/ /\ Len(Payload(vs)) = 1 /\ Payload(vs)[1] = vs[1]
                 /\ \A i \in DOMAIN vs : vs[i] = vs[1]
  <1>1. 1 \in DOMAIN vs /\ vs[1] \in Values
    OBVIOUS
  <1>2. CASE \A i \in DOMAIN vs : vs[i] = vs[1]
    BY <1>1, <1>2 DEF Payload
  <1>3. CASE ~(\A i \in DOMAIN vs : vs[i] = vs[1])
    BY <1>3 DEF Payload
  <1>4. QED
    BY <1>2, <1>3

LEMMA InitInv == Init => IInv
  <1>1. SUFFICES ASSUME Init PROVE IInv
    OBVIOUS
  <1>2. cfg \in Configs /\ Splits \in 1..Width
    BY <1>1, ConfigBits DEF Init
  <1>3. 0 \in Sections
    BY <1>2 DEF Sections
  <1>4. TypeOK
    BY <1>1, <1>2, <1>3 DEF Init, TypeOK
  <1>5. QED
    BY <1>1, <1>4 DEF Init, IInv, ArraysInv, TasksInv, OutInv, NoArrays

\* No step changes the configuration, and what is made of it.
LEMMA ConfigStays ==
    ASSUME [Next]_vars
    PROVE  /\ cfg' = cfg /\ Sections' = Sections /\ Splits' = Splits
           /\ \A s : IsEncoded(s)' = (enc'[s] = Payload(SplitOf(data)'[s]))
           /\ \A d : SplitOf(d)' = SplitOf(d)
           /\ \A d : Written(d)' = Written(d)
           /\ data' = data => SplitOf(data)' = SplitOf(data)
  <1>1. cfg' = cfg
    BY DEF Next, CallerStep, Encode, EncodeEmpty, Split, SplitFails, Spawn, SpawnFails, Join,
           EncodeInTurn, EncodeInTurnFails, Layout, LayoutFails, Unwind, EncodeSection, vars
  <1>2. Splits' = Splits /\ Sections' = Sections
    BY <1>1 DEF Splits, Sections
  <1>3. \A d : SplitOf(d)' = SplitOf(d)
    BY <1>1, <1>2 DEF SplitOf, SectionValue, SplitShift, Bits
  <1>4. \A d : Written(d)' = Written(d)
    BY <1>1, <1>2, <1>3 DEF Written, Header, Empty
  <1>5. data' = data => SplitOf(data)' = SplitOf(data)
    BY <1>1, <1>2 DEF SplitOf, SectionValue, SplitShift, Bits
  <1>6. QED
    BY <1>1, <1>2, <1>3, <1>4, <1>5 DEF IsEncoded

\* A codec is never handed a value that is too wide for its section, and its
\* payload can be stored.
LEMMA NothingOverflows ==
    ASSUME IInv, HasArrays, Len(data) > 0, NEW s \in Sections
    PROVE  /\ ~Overflows(s)
           /\ Payload(raw[s]) \in Seq(Values)
           /\ [enc EXCEPT ![s] = Payload(raw[s])] \in [Sections -> Seq(Values)]
           /\ raw \in [Sections -> Seq(Values)]
           /\ raw # None /\ enc # None
  <1>1. cfg \in Configs /\ data \in Seq(Values)
    BY DEF IInv, TypeOK
  <1>2. /\ raw = SplitOf(data) /\ raw \in [Sections -> Seq(Values)]
        /\ DOMAIN raw[s] = DOMAIN data
        /\ \A i \in DOMAIN data : raw[s][i] = SectionValue(data[i], s)
        /\ raw # None /\ enc # None
    BY <1>1, SplitOfType DEF HasArrays
  <1>3. ASSUME NEW i \in DOMAIN raw[s] PROVE ~(raw[s][i] >= PowerOfTwo[Bits(s)])
    <2>1. data[i] \in Values /\ raw[s][i] = SectionValue(data[i], s)
      BY <1>1, <1>2
    <2>2. raw[s][i] \in 0..(PowerOfTwo[Bits(s)] - 1)
      BY <1>1, <2>1, SectionValueFits
    <2>3. PowerOfTwo[Bits(s)] \in Nat
      <3>1. Bits(s) \in Nat
        BY <1>1, ShiftFits, WidthAssumption
      <3>2. QED
        BY <3>1, PowerOfTwoStep
    <2>4. QED
      BY <2>2, <2>3
  <1>4. Payload(raw[s]) \in Seq(Values)
    <2>1. raw[s] \in Seq(Values) /\ Len(raw[s]) = Len(data)
      BY <1>1, <1>2
    <2>2. QED
      BY <2>1, PayloadType
  <1>5. QED
    BY <1>2, <1>3, <1>4 DEF Overflows, HasArrays

\* The caller starts, and where it starts the codecs.
LEMMA CallInv ==
    ASSUME IInv, [Next]_vars,
           (\E d \in Inputs : Encode(d)) \/ EncodeEmpty \/ Split \/ SplitFails
    PROVE  IInv'
  <1>1. cfg' = cfg /\ Sections' = Sections /\ cfg \in Configs
    BY ConfigStays DEF IInv, TypeOK
  <1>2. Splits \in 1..Width /\ 0 \in Sections
    BY <1>1, ConfigBits DEF Sections
  <1>3. ASSUME NEW d \in Inputs, Encode(d) PROVE IInv'
    <2>1. d \in Seq(Values)
      BY InputsAssumption
    <2>2. TypeOK'
      BY <1>1, <1>3, <2>1 DEF Encode, IInv, TypeOK
    <2>3. ArraysInv'
      BY <1>3 DEF Encode, IInv, ArraysInv, NoArrays
    <2>4. TasksInv'
      BY <1>1, <1>3 DEF Encode, IInv, TasksInv
    <2>5. QED
      BY <1>3, <2>2, <2>3, <2>4 DEF Encode, IInv, OutInv
  <1>4. CASE EncodeEmpty
    <2>1. TypeOK'
      BY <1>1, <1>4 DEF EncodeEmpty, IInv, TypeOK
    <2>2. ArraysInv'
      BY <1>4 DEF EncodeEmpty, IInv, ArraysInv, NoArrays
    <2>3. TasksInv'
      BY <1>1, <1>4 DEF EncodeEmpty, IInv, TasksInv
    <2>4. Written(data)' = Empty
      BY <1>1, <1>4 DEF EncodeEmpty, Written, Empty, Header, Splits
    <2>5. out' = Empty
      BY <1>4 DEF EncodeEmpty
    <2>6. OutInv'
      BY <2>4, <2>5 DEF OutInv
    <2>7. QED
      BY <2>1, <2>2, <2>3, <2>6 DEF IInv
  <1>5. CASE Split
    <2>1. raw' = SplitOf(data) /\ SplitOf(data)' = SplitOf(data)
      BY <1>5, ConfigStays DEF Split, SplitOf
    <2>2. raw' \in [Sections -> Seq(Values)]
      BY <1>1, <2>1, SplitOfType DEF IInv, TypeOK
    <2>3. enc' \in [Sections -> Seq(Values)]
      BY <1>5 DEF Split
    <2>4. TypeOK'
      BY <1>1, <1>2, <1>5, <2>2, <2>3 DEF Split, IInv, TypeOK
    <2>5. ArraysInv'
      BY <1>1, <1>5, <2>1, <2>3 DEF Split, IInv, ArraysInv, HasArrays
    <2>6. TasksInv'
      <3>1. \A s \in Sections : s >= 0 /\ ~(s < 0)
        BY <1>2 DEF Sections
      <3>2. \A s \in Sections : task'[s] = "none"
        BY <1>5 DEF Split, IInv, TasksInv
      <3>3. pc' \in {"spawn", "sections"} /\ k' = 0
        BY <1>5 DEF Split
      <3>4. QED
        BY <1>1, <3>1, <3>2, <3>3 DEF TasksInv
    <2>7. QED
      BY <1>5, <2>4, <2>5, <2>6 DEF Split, IInv, OutInv
  <1>6. CASE SplitFails
    <2>1. TypeOK'
      BY <1>1, <1>6 DEF SplitFails, IInv, TypeOK
    <2>2. ArraysInv'
      BY <1>6 DEF SplitFails, IInv, ArraysInv, NoArrays
    <2>3. TasksInv'
      BY <1>1, <1>6 DEF SplitFails, IInv, TasksInv
    <2>4. QED
      BY <1>6, <2>1, <2>2, <2>3 DEF SplitFails, IInv, OutInv
  <1>7. QED
    BY <1>3, <1>4, <1>5, <1>6

\* The caller starts tasks, and takes what they return.
LEMMA TasksStartAndJoin ==
    ASSUME IInv, [Next]_vars, Spawn \/ SpawnFails \/ Join
    PROVE  IInv'
  <1>1. cfg' = cfg /\ Sections' = Sections /\ Splits' = Splits /\ cfg \in Configs
    BY ConfigStays DEF IInv, TypeOK
  <1>2. Splits \in 1..Width /\ 0 \in Sections /\ k \in Sections
    BY <1>1, ConfigBits DEF Sections, IInv, TypeOK
  <1>3. /\ raw' = raw /\ enc' = enc /\ data' = data /\ HasArrays
        /\ pc \in {"spawn", "join"} /\ Len(data) > 0 /\ pc' # "idle"
    BY DEF Spawn, SpawnFails, Join, IInv, ArraysInv
  <1>4. SplitOf(data)' = SplitOf(data) /\ \A s : IsEncoded(s)' = IsEncoded(s)
    BY <1>3, ConfigStays DEF IsEncoded
  <1>5. HasArrays'
    BY <1>1, <1>3, <1>4 DEF HasArrays
  <1>6. ArraysInv'
    BY <1>3, <1>5 DEF ArraysInv, Spawn, SpawnFails, Join
  <1>7. ~NoArrays'
    BY <1>2, <1>3, NothingOverflows DEF NoArrays
  <1>8. CASE Spawn
    <2>1. TypeOK'
      BY <1>1, <1>2, <1>8 DEF Spawn, IInv, TypeOK, Sections
    <2>2. TasksInv'
      BY <1>1, <1>2, <1>4, <1>8 DEF Spawn, IInv, TypeOK, TasksInv, Sections, Ended
    <2>3. QED
      BY <1>3, <1>6, <2>1, <2>2 DEF IInv, OutInv
  <1>9. CASE SpawnFails
    <2>1. TypeOK'
      BY <1>1, <1>9 DEF SpawnFails, IInv, TypeOK
    <2>2. TasksInv'
      BY <1>1, <1>7, <1>9 DEF SpawnFails, IInv, TasksInv
    <2>3. QED
      BY <1>3, <1>6, <2>1, <2>2 DEF IInv, OutInv
  <1>10. CASE Join
    <2>1. TypeOK'
      BY <1>1, <1>2, <1>10 DEF Join, IInv, TypeOK, Sections
    <2>2. TasksInv'
      <3>1. \A s \in Sections : s # k => task'[s] = task[s]
        BY <1>10 DEF Join, IInv, TypeOK
      <3>2. task'[k] = "none"
        BY <1>2, <1>10 DEF Join, IInv, TypeOK
      <3>3. k \in Nat /\ \A s \in Sections : s \in Nat /\ s < Splits
        BY <1>2 DEF Sections
      <3>4. CASE task[k] # "ok"
        BY <1>1, <1>7, <1>10, <3>1, <3>2, <3>4 DEF Join, IInv, TasksInv
      <3>5. CASE task[k] = "ok" /\ k + 1 < Splits
        <4>1. pc' = "join" /\ k' = k + 1 /\ pc = "join"
          BY <1>10, <3>5 DEF Join
        <4>2. ASSUME NEW s \in Sections
              PROVE  /\ task'[s] # "overflow"
                     /\ task'[s] = "none" <=> s < k + 1
                     /\ task'[s] = "ok" => IsEncoded(s)
                     /\ s < k + 1 => IsEncoded(s)
          <5>1. CASE s = k
            BY <3>2, <3>3, <3>5, <4>1, <5>1 DEF IInv, TasksInv
          <5>2. CASE s # k
            BY <3>1, <3>3, <4>1, <5>2 DEF IInv, TasksInv
          <5>3. QED
            BY <5>1, <5>2
        <4>3. QED
          BY <1>1, <1>4, <4>1, <4>2 DEF TasksInv
      <3>6. CASE task[k] = "ok" /\ ~(k + 1 < Splits)
        <4>1. pc' = "layout" /\ pc = "join"
          BY <1>10, <3>6 DEF Join
        <4>2. ASSUME NEW s \in Sections PROVE task'[s] = "none" /\ IsEncoded(s)
          <5>1. CASE s = k
            BY <3>2, <3>6, <4>1, <5>1 DEF IInv, TasksInv
          <5>2. CASE s # k
            <6>1. s < k
              BY <1>2, <3>3, <3>6, <5>2
            <6>2. QED
              BY <3>1, <4>1, <5>2, <6>1 DEF IInv, TasksInv
          <5>3. QED
            BY <5>1, <5>2
        <4>3. QED
          BY <1>1, <1>4, <4>1, <4>2 DEF TasksInv
      <3>7. QED
        BY <3>4, <3>5, <3>6
    <2>3. QED
      BY <1>3, <1>6, <2>1, <2>2 DEF IInv, OutInv
  <1>11. QED
    BY <1>8, <1>9, <1>10

\* A section is encoded, by its task or by the caller, or fails to be.
LEMMA SectionsEncoded ==
    ASSUME IInv, [Next]_vars,
           EncodeInTurn \/ EncodeInTurnFails \/ (\E s \in Sections : EncodeSection(s))
    PROVE  IInv'
  <1>1. cfg' = cfg /\ Sections' = Sections /\ Splits' = Splits /\ cfg \in Configs
    BY ConfigStays DEF IInv, TypeOK
  <1>2. Splits \in 1..Width /\ 0 \in Sections /\ k \in Sections
    BY <1>1, ConfigBits DEF Sections, IInv, TypeOK
  <1>3. data' = data /\ SplitOf(data)' = SplitOf(data)
    BY ConfigStays DEF EncodeInTurn, EncodeInTurnFails, EncodeSection
  <1>4. CASE EncodeInTurn
    <2>1. HasArrays /\ Len(data) > 0 /\ pc = "sections" /\ pc' \in {"sections", "layout"}
      BY <1>4 DEF EncodeInTurn, IInv, ArraysInv
    <2>2. enc' = [enc EXCEPT ![k] = Payload(raw[k])] /\ raw' = raw /\ task' = task
      BY <1>4 DEF EncodeInTurn
    <2>3. enc' \in [Sections -> Seq(Values)] /\ raw \in [Sections -> Seq(Values)]
      BY <1>2, <2>1, <2>2, NothingOverflows
    <2>4. TypeOK'
      <3>1. k + 1 < Splits => k + 1 \in Sections
        BY <1>2 DEF Sections
      <3>2. QED
        BY <1>1, <1>2, <1>4, <2>2, <2>3, <3>1 DEF EncodeInTurn, IInv, TypeOK
    <2>5. ArraysInv'
      BY <1>1, <1>3, <2>1, <2>2, <2>3 DEF ArraysInv, HasArrays
    <2>6. \A s \in Sections : IsEncoded(s) \/ s = k => IsEncoded(s)'
      <3>1. enc'[k] = Payload(SplitOf(data)[k])
        BY <1>2, <2>1, <2>2 DEF HasArrays
      <3>2. \A s \in Sections : s # k => enc'[s] = enc[s]
        BY <2>1, <2>2 DEF HasArrays
      <3>3. QED
        BY <1>3, <3>1, <3>2 DEF IsEncoded
    <2>7. \A s \in Sections : /\ task'[s] = "none"
                              /\ s < k + 1 => IsEncoded(s)'
      <3>1. \A s \in Sections : s \in Int /\ (s < k + 1 => s < k \/ s = k)
        BY <1>2 DEF Sections
      <3>2. \A s \in Sections : task[s] = "none" /\ (s < k => IsEncoded(s))
        BY <2>1 DEF IInv, TasksInv
      <3>3. QED
        BY <2>2, <2>6, <3>1, <3>2
    <2>8. CASE k + 1 < Splits
      <3>1. k' = k + 1 /\ pc' = "sections"
        BY <1>4, <2>8 DEF EncodeInTurn
      <3>2. TasksInv'
        BY <1>1, <2>7, <3>1 DEF TasksInv
      <3>3. QED
        BY <2>1, <2>4, <2>5, <3>2 DEF IInv, OutInv
    <2>9. CASE ~(k + 1 < Splits)
      <3>1. pc' = "layout"
        BY <1>4, <2>9 DEF EncodeInTurn
      <3>2. \A s \in Sections : s < k + 1
        BY <1>2, <2>9 DEF Sections
      <3>3. TasksInv'
        BY <1>1, <2>7, <3>1, <3>2 DEF TasksInv
      <3>4. QED
        BY <2>1, <2>4, <2>5, <3>3 DEF IInv, OutInv
    <2>10. QED
      BY <2>8, <2>9
  <1>5. CASE EncodeInTurnFails
    <2>1. TypeOK'
      BY <1>1, <1>5 DEF EncodeInTurnFails, IInv, TypeOK
    <2>2. ArraysInv'
      BY <1>1, <1>3, <1>5 DEF EncodeInTurnFails, IInv, ArraysInv, HasArrays
    <2>3. TasksInv'
      BY <1>1, <1>5 DEF EncodeInTurnFails, IInv, TasksInv
    <2>4. QED
      BY <1>5, <2>1, <2>2, <2>3 DEF EncodeInTurnFails, IInv, OutInv
  <1>6. ASSUME NEW s \in Sections, EncodeSection(s) PROVE IInv'
    <2>1. pc \in {"spawn", "join", "unwind"} /\ task[s] = "run" /\ ~(pc = "unwind" /\ NoArrays)
      BY <1>6 DEF EncodeSection, IInv, TasksInv, TypeOK
    <2>2. HasArrays /\ Len(data) > 0
      BY <2>1 DEF IInv, ArraysInv
    <2>3. /\ ~Overflows(s) /\ raw \in [Sections -> Seq(Values)]
          /\ [enc EXCEPT ![s] = Payload(raw[s])] \in [Sections -> Seq(Values)]
          /\ raw # None
      BY <2>2, NothingOverflows
    <2>4. pc' = pc /\ k' = k /\ raw' = raw /\ out' = out /\ outcome' = outcome
      BY <1>6 DEF EncodeSection
    <2>5. /\ enc' \in [Sections -> Seq(Values)]
          /\ \A p \in Sections : p # s => enc'[p] = enc[p]
          /\ task' \in [Sections -> {"none", "run"} \cup Ended]
          /\ \A p \in Sections : p # s => task'[p] = task[p]
          /\ \/ task'[s] = "ok" /\ enc'[s] = Payload(raw[s])
             \/ task'[s] = "threw"
      <3>1. task \in [Sections -> {"none", "run"} \cup Ended]
            /\ enc \in [Sections -> Seq(Values)]
        BY <2>2 DEF IInv, TypeOK, HasArrays
      <3>2. CASE task' = [task EXCEPT ![s] = "ok"] /\ enc' = [enc EXCEPT ![s] = Payload(raw[s])]
        BY <2>3, <3>1, <3>2 DEF Ended
      <3>3. CASE task' = [task EXCEPT ![s] = "threw"] /\ enc' = enc
        BY <3>1, <3>3 DEF Ended
      <3>4. QED
        BY <1>6, <2>3, <3>2, <3>3 DEF EncodeSection
    <2>6. TypeOK'
      BY <1>1, <1>3, <2>3, <2>4, <2>5 DEF IInv, TypeOK
    <2>7. HasArrays'
      BY <1>1, <1>3, <2>2, <2>4, <2>5 DEF HasArrays
    <2>8. ArraysInv'
      BY <1>3, <2>1, <2>2, <2>4, <2>7 DEF ArraysInv
    <2>9. ~NoArrays'
      BY <2>3, <2>4 DEF NoArrays
    <2>10. \A p \in Sections : p # s => (IsEncoded(p)' = IsEncoded(p))
      BY <1>3, <2>5 DEF IsEncoded
    <2>11. task'[s] = "ok" => IsEncoded(s)'
      BY <1>3, <2>2, <2>5 DEF IsEncoded, HasArrays
    <2>12. TasksInv'
      <3>1. ASSUME NEW p \in Sections, p # s
            PROVE  /\ task'[p] # "overflow"
                   /\ pc = "spawn" => (task'[p] = "none" <=> p >= k)
                   /\ pc = "join" => (task'[p] = "none" <=> p < k)
                   /\ pc \in {"spawn", "join"} /\ task'[p] = "ok" => IsEncoded(p)'
                   /\ pc = "join" /\ p < k => IsEncoded(p)'
        BY <2>5, <2>10, <3>1 DEF IInv, TasksInv
      <3>2. /\ task'[s] # "overflow" /\ task'[s] # "none"
            /\ pc = "spawn" => ~(s >= k)
            /\ pc = "join" => ~(s < k)
        BY <2>1, <2>5 DEF IInv, TasksInv
      <3>3. QED
        BY <1>1, <2>1, <2>4, <2>9, <2>11, <3>1, <3>2 DEF TasksInv
    <2>13. OutInv'
      BY <2>1, <2>4 DEF OutInv
    <2>14. QED
      BY <2>6, <2>8, <2>12, <2>13 DEF IInv
  <1>7. QED
    BY <1>4, <1>5, <1>6

\* The caller lays the payloads out, or gives up.
LEMMA CallEnds ==
    ASSUME IInv, [Next]_vars, Layout \/ LayoutFails \/ Unwind
    PROVE  IInv'
  <1>1. cfg' = cfg /\ Sections' = Sections /\ Splits' = Splits /\ cfg \in Configs
    BY ConfigStays DEF IInv, TypeOK
  <1>2. data' = data /\ SplitOf(data)' = SplitOf(data)
    BY ConfigStays DEF Layout, LayoutFails, Unwind
  <1>3. CASE Layout
    <2>1. TypeOK'
      BY <1>1, <1>3 DEF Layout, IInv, TypeOK
    <2>2. ArraysInv'
      BY <1>3 DEF Layout, ArraysInv, NoArrays
    <2>3. TasksInv'
      BY <1>1, <1>3 DEF Layout, IInv, TasksInv
    <2>4. OutInv'
      <3>1. \A s \in Sections : enc[s] = Payload(SplitOf(data)[s])
        BY <1>3 DEF Layout, IInv, TasksInv, IsEncoded
      <3>2. \A s \in 1..Splits : s - 1 \in Sections
        BY <1>1, ConfigBits DEF Sections
      <3>3. /\ [s \in 1..Splits |-> enc[s - 1]]
                  = [s \in 1..Splits |-> Payload(SplitOf(data)[s - 1])]
            /\ [s \in 1..Splits |-> Len(enc[s - 1])]
                  = [s \in 1..Splits |-> Len(Payload(SplitOf(data)[s - 1]))]
        BY <3>1, <3>2
      <3>4. data # <<>>
        BY <1>3 DEF Layout, IInv, ArraysInv
      <3>5. Buffer = Written(data)
        BY <3>3, <3>4 DEF Buffer, Written
      <3>6. Written(data)' = Written(data)
        BY <1>1, <1>2 DEF Written, Header, Empty
      <3>7. out' = Buffer
        BY <1>3 DEF Layout
      <3>8. QED
        BY <3>5, <3>6, <3>7 DEF OutInv
    <2>5. QED
      BY <2>1, <2>2, <2>3, <2>4 DEF IInv
  <1>4. CASE LayoutFails
    <2>1. TypeOK'
      BY <1>1, <1>4 DEF LayoutFails, IInv, TypeOK
    <2>2. ArraysInv'
      BY <1>1, <1>2, <1>4 DEF LayoutFails, IInv, ArraysInv, HasArrays
    <2>3. TasksInv'
      BY <1>1, <1>4 DEF LayoutFails, IInv, TasksInv
    <2>4. QED
      BY <1>4, <2>1, <2>2, <2>3 DEF LayoutFails, IInv, OutInv
  <1>5. CASE Unwind
    <2>1. \A s \in Sections : task'[s] = "none"
      BY <1>5 DEF Unwind, TasksEnded, Running
    <2>2. TypeOK'
      BY <1>1, <1>5 DEF Unwind, IInv, TypeOK
    <2>3. ArraysInv'
      BY <1>5 DEF Unwind, ArraysInv, NoArrays
    <2>4. TasksInv'
      BY <1>1, <1>5, <2>1 DEF Unwind, TasksInv
    <2>5. QED
      BY <1>5, <2>2, <2>3, <2>4 DEF Unwind, IInv, OutInv
  <1>6. QED
    BY <1>3, <1>4, <1>5

LEMMA NextInv == IInv /\ [Next]_vars => IInv'
  <1> SUFFICES ASSUME IInv, [Next]_vars PROVE IInv'
    OBVIOUS
  <1>1. CASE (\E d \in Inputs : Encode(d)) \/ EncodeEmpty \/ Split \/ SplitFails
    BY <1>1, CallInv
  <1>2. CASE Spawn \/ SpawnFails \/ Join
    BY <1>2, TasksStartAndJoin
  <1>3. CASE EncodeInTurn \/ EncodeInTurnFails \/ (\E s \in Sections : EncodeSection(s))
    BY <1>3, SectionsEncoded
  <1>4. CASE Layout \/ LayoutFails \/ Unwind
    BY <1>4, CallEnds
  <1>5. CASE UNCHANGED vars
    <2>1. cfg' = cfg /\ Sections' = Sections /\ data' = data /\ SplitOf(data)' = SplitOf(data)
      BY <1>5, ConfigStays DEF vars
    <2>2. TypeOK'
      BY <1>5, <2>1 DEF vars, IInv, TypeOK
    <2>3. ArraysInv'
      BY <1>5, <2>1 DEF vars, IInv, ArraysInv, NoArrays, HasArrays
    <2>4. TasksInv'
      BY <1>5, <2>1 DEF vars, IInv, TasksInv, IsEncoded, NoArrays
    <2>5. Written(data)' = Written(data)
      BY <1>5 DEF vars, Written, Header, Empty, Splits, SplitOf, SectionValue, SplitShift, Bits,
                  Sections
    <2>6. QED
      BY <1>5, <2>2, <2>3, <2>4, <2>5 DEF vars, IInv, OutInv
  <1>6. QED
    BY <1>1, <1>2, <1>3, <1>4, <1>5 DEF Next, CallerStep

LEMMA Invariance == Spec => []IInv
  BY InitInv, NextInv, PTL DEF Spec

-----------------------------------------------------------------------------
(* What is read from the layout.                                           *)

\* The section's payload is read back as what the section held.
LEMMA PayloadUnpacks ==
    ASSUME NEW vs \in Seq(Values), Len(vs) > 0
    PROVE  \A i \in 1..Len(vs) : Unpacked(Payload(vs), Len(vs))[i] = vs[i]
  <1>1. Len(vs) \in Nat /\ DOMAIN vs = 1..Len(vs)
    OBVIOUS
  <1>2. CASE Len(Payload(vs)) = Len(vs) /\ Payload(vs) = vs
    BY <1>2 DEF Unpacked
  <1>3. CASE /\ Len(Payload(vs)) = 1 /\ Payload(vs)[1] = vs[1]
             /\ \A i \in DOMAIN vs : vs[i] = vs[1]
    <2>1. CASE Len(vs) = 1
      <3>1. Unpacked(Payload(vs), Len(vs)) = Payload(vs)
        BY <1>3, <2>1 DEF Unpacked
      <3>2. \A i \in 1..Len(vs) : i = 1
        BY <2>1
      <3>3. QED
        BY <1>3, <3>1, <3>2
    <2>2. CASE Len(vs) # 1
      BY <1>1, <1>3, <2>2 DEF Unpacked
    <2>3. QED
      BY <2>1, <2>2
  <1>4. QED
    BY <1>2, <1>3, PayloadType

\* The sum of what the sections hold of a value, each shifted to its place, is
\* the value: from the low end the sections so far are its low bits, from the
\* high end all but its low bits.
LEMMA SectionsAddUp ==
    ASSUME cfg \in Configs, NEW v \in Values, NEW parts,
           \A s \in 1..Splits :
              parts[s] = SectionValue(v, s - 1) * PowerOfTwo[SplitShift(s - 1)]
    PROVE  SumTo(parts, Splits) = v
  <1> DEFINE n == Splits
             b == cfg.bits
             T(i) == SumTo(b, i)
             low == cfg.order = "LSB_TO_MSB"
  <1>1. /\ n \in 1..Width /\ Width \in Nat /\ T(0) = 0 /\ T(n) = Width
        /\ \A i \in 0..n : T(i) \in 0..Width
        /\ \A i \in 1..n : T(i) = T(i - 1) + b[i] /\ b[i] \in 1..Width
    BY ConfigBits, WidthAssumption
  <1>2. \A s \in 1..n : /\ s - 1 \in Sections
                        /\ Bits(s - 1) = b[s]
                        /\ SplitShift(s - 1) = IF low THEN T(s - 1) ELSE Width - T(s)
    BY <1>1 DEF Sections, Bits, SplitShift
  <1>3. v \in Nat /\ v < PowerOfTwo[Width]
    BY <1>1, PowerOfTwoStep DEF Values
  <1> HIDE DEF n, b, T, low
  <1>4. ASSUME NEW s \in 1..n, NEW d \in Nat, d = SplitShift(s - 1)
        PROVE  /\ parts[s] \in Nat
               /\ v % PowerOfTwo[d + b[s]] = (v % PowerOfTwo[d]) + parts[s]
    <2>1. b[s] \in Nat
      BY <1>1
    <2>2. PICK p \in Nat \ {0}, q \in Nat \ {0} : p = PowerOfTwo[d] /\ q = PowerOfTwo[b[s]]
      BY <2>1, PowerOfTwoStep
    <2>3. parts[s] = ((v \div p) % q) * p
      BY <1>2, <1>4, <2>2 DEF SectionValue, n
    <2>4. v % (p * q) = (v % p) + ((v \div p) % q) * p
      BY <1>3, LowDigits
    <2>5. PowerOfTwo[d + b[s]] = p * q
      BY <2>1, <2>2, PowerOfTwoSum
    <2>6. (v \div p) % q \in Nat
      BY <1>3
    <2>7. QED
      BY <2>3, <2>4, <2>5, <2>2, <2>6
  <1>5. ASSUME NEW s \in 1..n PROVE SplitShift(s - 1) \in Nat /\ parts[s] \in Nat
    <2>1. SplitShift(s - 1) \in Nat
      BY <1>2, ShiftFits
    <2>2. QED
      BY <1>4, <2>1
  <1>6. /\ SumTo(parts, 0) = 0
        /\ \A i \in 0..n : SumTo(parts, i) \in Nat
        /\ \A i \in 1..n : SumTo(parts, i) = SumTo(parts, i - 1) + parts[i]
    BY <1>1, <1>5, SumToStep
  <1>7. v % PowerOfTwo[Width] = v /\ v % PowerOfTwo[0] = 0
    <2>1. PICK w \in Nat \ {0} : w = PowerOfTwo[Width] /\ v \in 0..(w - 1)
      BY <1>1, <1>3, PowerOfTwoStep
    <2>2. (0 * w + v) % w = v /\ 0 * w + v = v
      BY <2>1, QuotientUnique
    <2>3. v % 1 = 0
      BY <1>3
    <2>4. QED
      BY <2>1, <2>2, <2>3, PowerOfTwoStep
  <1>8. CASE low
    <2> DEFINE P == {i \in Nat : i <= n => SumTo(parts, i) = v % PowerOfTwo[T(i)]}
    <2>1. 0 \in P
      BY <1>1, <1>6, <1>7
    <2>2. ASSUME NEW i \in Nat, i \in P PROVE i + 1 \in P
      <3>1. SUFFICES ASSUME i + 1 <= n
                     PROVE  SumTo(parts, i + 1) = v % PowerOfTwo[T(i + 1)]
        OBVIOUS
      <3>2. PICK j \in 1..n : j = i + 1 /\ j - 1 = i /\ i \in 0..n
        BY <1>1, <3>1
      <3>3. PICK d \in Nat : d = T(i)
        BY <1>1, <3>2
      <3>4. d = SplitShift(j - 1)
        BY <1>2, <1>8, <3>2, <3>3
      <3>5. v % PowerOfTwo[d + b[j]] = (v % PowerOfTwo[d]) + parts[j]
        BY <1>4, <3>4
      <3>6. T(j) = d + b[j]
        BY <1>1, <3>2, <3>3
      <3>7. SumTo(parts, j) = SumTo(parts, i) + parts[j]
        BY <1>6, <3>2
      <3>8. SumTo(parts, i) = v % PowerOfTwo[d]
        BY <1>1, <2>2, <3>1, <3>2, <3>3
      <3>9. QED
        BY <3>2, <3>5, <3>6, <3>7, <3>8
    <2>3. \A i \in Nat : i \in P
      <3> HIDE DEF P
      <3> QED
        BY <2>1, <2>2, InductionOnNat
    <2>4. n \in Nat /\ n \in P
      BY <1>1, <2>3
    <2>5. QED
      BY <1>1, <1>7, <2>4 DEF n
  <1>9. CASE ~low
    <2> DEFINE P == {i \in Nat : i <= n =>
                        SumTo(parts, i) + (v % PowerOfTwo[Width - T(i)]) = v}
    <2>1. 0 \in P
      <3>1. Width - T(0) = Width
        BY <1>1
      <3>2. QED
        BY <1>3, <1>6, <1>7, <3>1
    <2>2. ASSUME NEW i \in Nat, i \in P PROVE i + 1 \in P
      <3>1. SUFFICES ASSUME i + 1 <= n
                     PROVE  SumTo(parts, i + 1) + (v % PowerOfTwo[Width - T(i + 1)]) = v
        OBVIOUS
      <3>2. PICK j \in 1..n : j = i + 1 /\ j - 1 = i /\ i \in 0..n /\ j \in 0..n
        BY <1>1, <3>1
      <3>3. PICK d \in Nat : d = Width - T(j)
        BY <1>1, <3>2
      <3>4. d = SplitShift(j - 1)
        BY <1>2, <1>9, <3>3
      <3>5. v % PowerOfTwo[d + b[j]] = (v % PowerOfTwo[d]) + parts[j]
        BY <1>4, <3>4
      <3>6. Width - T(i) = d + b[j]
        BY <1>1, <3>2, <3>3
      <3>7. SumTo(parts, j) = SumTo(parts, i) + parts[j] /\ SumTo(parts, i) \in Nat
        BY <1>6, <3>2
      <3>8. SumTo(parts, i) + (v % PowerOfTwo[d + b[j]]) = v
        BY <1>1, <2>2, <3>1, <3>2, <3>6
      <3>9. v % PowerOfTwo[d] \in Nat /\ parts[j] \in Nat
        <4>1. PowerOfTwo[d] \in Nat \ {0}
          BY PowerOfTwoStep
        <4>2. QED
          BY <1>3, <1>5, <4>1
      <3>10. QED
        BY <3>2, <3>3, <3>5, <3>7, <3>8, <3>9
    <2>3. \A i \in Nat : i \in P
      <3> HIDE DEF P
      <3> QED
        BY <2>1, <2>2, InductionOnNat
    <2>4. n \in Nat /\ n \in P /\ n \in 0..n
      <3>1. n \in Nat /\ n \in 0..n
        BY <1>1
      <3>2. QED
        BY <2>3, <3>1
    <2>5. Width - T(n) = 0
      BY <1>1
    <2>6. SumTo(parts, n) \in Nat
      BY <1>6, <2>4
    <2>7. QED
      BY <1>7, <2>4, <2>5, <2>6 DEF n
  <1>10. QED
    BY <1>8, <1>9

\* A cell is a number or the order.
Cells == Nat \cup Orders

\* A buffer starts with a header of n rows and these sizes.
HasHeader(b, n, sizes) ==
    /\ b[1] = n /\ b[2] = Splits /\ b[3] = cfg.order
    /\ \A s \in 1..Splits : b[2 * s + 2] = cfg.bits[s] /\ b[2 * s + 3] = sizes[s]

\* A parsed header has n rows, the sections' shifts and these payloads.
Parses(h, n, loads) ==
    /\ h.rows = n
    /\ DOMAIN h.views = 1..Splits
    /\ \A s \in 1..Splits : h.shifts[s] = SplitShift(s - 1) /\ h.views[s] = loads[s]

\* The cells of a header are where Parse looks for them.
LEMMA HeaderLayout ==
    ASSUME cfg \in Configs, NEW n \in Nat, NEW sizes,
           \A s \in 1..Splits : sizes[s] \in Nat
    PROVE  /\ Header(n, sizes) \in Seq(Cells)
           /\ Len(Header(n, sizes)) = HeaderCells(Splits)
           /\ HasHeader(Header(n, sizes), n, sizes)
  <1> DEFINE m == Splits
             pairs == [s \in 1..m |-> <<cfg.bits[s], sizes[s]>>]
             two == [s \in 1..m |-> 2]
             front == <<n, m, cfg.order>>
  <1>1. m \in Nat \ {0} /\ \A s \in 1..m : cfg.bits[s] \in Nat /\ sizes[s] \in Nat
    BY ConfigBits, WidthAssumption
  <1>2. cfg.order \in Orders
    BY ConfigsAssumption
  <1>3. pairs \in Seq(Seq(Cells)) /\ Len(pairs) = m
    <2>1. \A s \in 1..m : <<cfg.bits[s], sizes[s]>> \in Seq(Cells)
      BY <1>1 DEF Cells
    <2>2. PICK T : T = Seq(Cells)
      OBVIOUS
    <2>3. pairs \in [1..m -> T] /\ m \in Nat
      BY <1>1, <2>1, <2>2
    <2>4. pairs \in Seq(T) /\ Len(pairs) = m
      <3> HIDE DEF pairs, m
      <3> QED
        BY <2>3
    <2>5. QED
      BY <2>2, <2>4
  <1>4. \A s \in 1..m : pairs[s] = <<cfg.bits[s], sizes[s]>> /\ Len(pairs[s]) = 2
    OBVIOUS
  <1>5. front \in Seq(Cells) /\ Len(front) = 3
        /\ front[1] = n /\ front[2] = m /\ front[3] = cfg.order
    BY <1>1, <1>2 DEF Cells
  <1>6. \A s \in 1..m : two[s] = 2
    OBVIOUS
  <1>7. Header(n, sizes) = front \o Flat(pairs)
    BY DEF Header, FlattenSeq, Flat
  <1> HIDE DEF m, pairs, two, front
  <1>8. \A i \in 0..m : SumTo(two, i) = 2 * i
    <2>1. /\ SumTo(two, 0) = 0
          /\ \A i \in 1..m : SumTo(two, i) = SumTo(two, i - 1) + two[i]
      BY <1>1, <1>6, SumToStep
    <2> DEFINE P == {i \in Nat : i <= m => SumTo(two, i) = 2 * i}
    <2>2. 0 \in P
      BY <2>1
    <2>3. ASSUME NEW i \in Nat, i \in P PROVE i + 1 \in P
      <3>1. SUFFICES ASSUME i + 1 <= m PROVE SumTo(two, i + 1) = 2 * (i + 1)
        OBVIOUS
      <3>2. PICK j \in 1..m : j = i + 1 /\ j - 1 = i
        BY <1>1, <3>1
      <3>3. SumTo(two, i) = 2 * i
        BY <1>1, <2>3, <3>1
      <3>4. QED
        BY <1>6, <2>1, <3>2, <3>3
    <2>4. \A i \in Nat : i \in P
      <3> HIDE DEF P
      <3> QED
        BY <2>2, <2>3, InductionOnNat
    <2>5. QED
      BY <1>1, <2>4
  <1>9. \A s \in 1..Len(pairs) : two[s] = Len(pairs[s])
    BY <1>3, <1>4, <1>6
  <1>10. Flat(pairs) \in Seq(Cells) /\ LaidOut(Flat(pairs), pairs, two)
    BY <1>3, <1>9, FlatAt
  <1>11. Len(Flat(pairs)) = 2 * m
    BY <1>1, <1>3, <1>8, <1>10 DEF LaidOut
  <1>12. /\ Header(n, sizes) \in Seq(Cells)
         /\ Len(Header(n, sizes)) = 3 + 2 * m
         /\ \A i \in 1..3 : Header(n, sizes)[i] = front[i]
         /\ \A i \in 1..(2 * m) : Header(n, sizes)[3 + i] = Flat(pairs)[i]
    <2>0. front \in Seq(Cells)
      BY <1>5
    <2>1. PICK u, w : u = 3 /\ w = 2 * m
      OBVIOUS
    <2>2. u = Len(front) /\ w = Len(Flat(pairs))
      BY <1>5, <1>11, <2>1
    <2>3. /\ front \o Flat(pairs) \in Seq(Cells)
          /\ Len(front \o Flat(pairs)) = u + w
          /\ \A i \in 1..u : (front \o Flat(pairs))[i] = front[i]
          /\ \A i \in 1..w : (front \o Flat(pairs))[u + i] = Flat(pairs)[i]
      BY <2>0, <1>10, <2>2, ConcatAt
    <2>4. QED
      BY <1>7, <2>1, <2>3
  <1>13. ASSUME NEW s \in 1..m
         PROVE  /\ Header(n, sizes)[2 * s + 2] = cfg.bits[s]
                /\ Header(n, sizes)[2 * s + 3] = sizes[s]
    <2>1. SumTo(two, s - 1) = 2 * (s - 1)
      BY <1>1, <1>8
    <2>2. /\ Flat(pairs)[2 * (s - 1) + 1] = pairs[s][1]
          /\ Flat(pairs)[2 * (s - 1) + 2] = pairs[s][2]
      <3>1. s \in 1..Len(pairs) /\ Len(pairs[s]) = 2
        BY <1>3, <1>4
      <3>2. \A x \in 1..2 : Flat(pairs)[SumTo(two, s - 1) + x] = pairs[s][x]
        BY ONLY <1>10, <3>1 DEF LaidOut
      <3>3. 1 \in 1..2 /\ 2 \in 1..2
        OBVIOUS
      <3>4. QED
        BY ONLY <2>1, <3>2, <3>3
    <2>3. PICK i \in 1..(2 * m), j \in 1..(2 * m) :
              /\ i = 2 * (s - 1) + 1 /\ 3 + i = 2 * s + 2
              /\ j = 2 * (s - 1) + 2 /\ 3 + j = 2 * s + 3
      BY <1>1
    <2>4. Header(n, sizes)[3 + i] = cfg.bits[s] /\ Header(n, sizes)[3 + j] = sizes[s]
      BY <1>4, <1>12, <2>2, <2>3
    <2>5. QED
      BY <2>3, <2>4
  <1>14. /\ Header(n, sizes)[1] = n /\ Header(n, sizes)[2] = m
         /\ Header(n, sizes)[3] = cfg.order
    <2>1. 1 \in 1..3 /\ 2 \in 1..3 /\ 3 \in 1..3
      OBVIOUS
    <2>2. \A i \in 1..3 : Header(n, sizes)[i] = front[i]
      BY <1>12
    <2>3. front[1] = n /\ front[2] = m /\ front[3] = cfg.order
      BY <1>5
    <2>4. QED
      BY <2>1, <2>2, <2>3
  <1>15. QED
    BY <1>12, <1>13, <1>14 DEF HeaderCells, HasHeader, m

\* What Parse makes of a header with payloads of its sizes behind it.
LEMMA ParsedLayout ==
    ASSUME cfg \in Configs, NEW n \in Nat, NEW loads \in [1..Splits -> Seq(Nat)], NEW sizes,
           sizes = [s \in 1..Splits |-> Len(loads[s])]
    PROVE  Parses(Parse(Header(n, sizes) \o FlattenSeq(loads)), n, loads)
  <1> DEFINE m == Splits
             head == Header(n, sizes)
             tail == Flat(loads)
             b == head \o tail
  <1>1. m \in Nat \ {0} /\ m = Splits
    BY ConfigBits, WidthAssumption
  <1>2. loads \in Seq(Seq(Cells)) /\ Len(loads) = m
        /\ \A s \in 1..m : sizes[s] = Len(loads[s]) /\ sizes[s] \in Nat
    <2>1. \A s \in 1..m : loads[s] \in Seq(Cells) /\ Len(loads[s]) \in Nat
      BY DEF Cells
    <2>2. loads \in [1..m -> Seq(Cells)] /\ m \in Nat
      BY <1>1, <2>1
    <2>3. QED
      BY <2>1, <2>2
  <1>3. /\ head \in Seq(Cells) /\ Len(head) = 3 + 2 * m
        /\ head[1] = n /\ head[2] = m /\ head[3] = cfg.order
        /\ \A s \in 1..m : head[2 * s + 2] = cfg.bits[s] /\ head[2 * s + 3] = sizes[s]
    <2>1. \A s \in 1..Splits : sizes[s] \in Nat
      BY <1>2
    <2>2. head \in Seq(Cells) /\ Len(head) = HeaderCells(m) /\ HasHeader(head, n, sizes)
      BY <2>1, HeaderLayout
    <2>3. QED
      BY <2>2 DEF HeaderCells, HasHeader
  <1>4. tail \in Seq(Cells) /\ LaidOut(tail, loads, sizes)
    <2>1. \A s \in 1..Len(loads) : sizes[s] = Len(loads[s])
      BY <1>2
    <2>2. QED
      BY <1>2, <2>1, FlatAt
  <1>5. FlattenSeq(loads) = tail
    BY DEF FlattenSeq, Flat
  <1> HIDE DEF head, tail, m
  <1>6. PICK u, w : u = Len(head) /\ w = Len(tail)
    OBVIOUS
  <1>7. /\ b \in Seq(Cells) /\ Len(b) = u + w /\ u \in Nat /\ w \in Nat
        /\ \A i \in 1..u : b[i] = head[i]
        /\ \A i \in 1..w : b[u + i] = tail[i]
    BY <1>3, <1>4, <1>6, ConcatAt
  <1> HIDE DEF b
  <1>8. /\ b[1] = n /\ b[2] = m /\ b[3] = cfg.order
        /\ \A s \in 1..m : b[2 * s + 2] = cfg.bits[s] /\ b[2 * s + 3] = sizes[s]
    <2>2. /\ 1 \in 1..u /\ 2 \in 1..u /\ 3 \in 1..u
          /\ \A s \in 1..m : 2 * s + 2 \in 1..u /\ 2 * s + 3 \in 1..u
      BY <1>1, <1>3, <1>6
    <2>3. b[1] = n /\ b[2] = m /\ b[3] = cfg.order
      BY ONLY <1>3, <1>7, <2>2
    <2>4. ASSUME NEW s \in 1..m
          PROVE  b[2 * s + 2] = cfg.bits[s] /\ b[2 * s + 3] = sizes[s]
      BY ONLY <1>3, <1>7, <2>2, s \in 1..m
    <2>5. QED
      BY <2>3, <2>4
  <1>9. [s \in 1..b[2] |-> b[2 * s + 2]] = cfg.bits
    <2>1. cfg.bits \in Seq(1..Width) /\ Len(cfg.bits) = m
      BY <1>1, ConfigBits DEF Splits
    <2>2. cfg.bits = [s \in 1..m |-> cfg.bits[s]]
      BY <2>1
    <2>3. QED
      BY <1>8, <2>2
  <1>10. [s \in 1..b[2] |-> b[2 * s + 3]] = sizes
    BY <1>1, <1>2, <1>8
  <1>11. /\ Parse(b).rows = b[1]
         /\ DOMAIN Parse(b).views = 1..b[2]
         /\ \A s \in 1..b[2] :
               /\ Parse(b).shifts[s] = IF b[3] = "LSB_TO_MSB" THEN SumTo(cfg.bits, s - 1)
                                       ELSE Width - SumTo(cfg.bits, s)
               /\ Parse(b).views[s] =
                      SubSeq(b, HeaderCells(b[2]) + SumTo(sizes, s - 1) + 1,
                                HeaderCells(b[2]) + SumTo(sizes, s - 1) + sizes[s])
    BY <1>9, <1>10 DEF Parse
  <1>12. ASSUME NEW s \in 1..m
         PROVE  Parse(b).shifts[s] = SplitShift(s - 1)
    <2>1. (s - 1) + 1 = s
      OBVIOUS
    <2>2. QED
      BY <1>8, <1>11, <2>1 DEF SplitShift
  <1>13. ASSUME NEW s \in 1..m
         PROVE  Parse(b).views[s] = loads[s]
    <2>1. /\ \A i \in 0..m : SumTo(sizes, i) \in Nat
          /\ SumTo(sizes, s) = SumTo(sizes, s - 1) + sizes[s]
      BY <1>1, <1>2, SumToStep
    <2>2. PICK o \in Nat, l \in Nat : o = SumTo(sizes, s - 1) /\ l = sizes[s] /\ l = Len(loads[s])
      <3>1. s - 1 \in 0..m
        BY <1>1
      <3>2. QED
        BY <1>2, <2>1, <3>1
    <2>3. o + l <= w
      <3>1. s \in 0..m /\ m \in 0..m /\ s <= m
        BY <1>1
      <3>2. SumTo(sizes, s) <= SumTo(sizes, m)
        BY <1>1, <1>2, <3>1, SumToGrows
      <3>3. SumTo(sizes, m) = w
        BY ONLY <1>2, <1>4, <1>6 DEF LaidOut
      <3>4. SumTo(sizes, s) = o + l
        BY <2>1, <2>2
      <3>5. QED
        BY ONLY <3>2, <3>3, <3>4
    <2>4. Parse(b).views[s] = SubSeq(b, (u + o) + 1, (u + o) + l)
      <3>1. HeaderCells(b[2]) = u
        BY <1>3, <1>6, <1>8 DEF HeaderCells
      <3>2. Parse(b).views[s] = SubSeq(b, (u + SumTo(sizes, s - 1)) + 1,
                                          (u + SumTo(sizes, s - 1)) + sizes[s])
        BY ONLY <1>8, <1>11, <3>1, s \in 1..m
      <3>3. QED
        BY ONLY <2>2, <3>2
    <2>5. loads[s] \in Seq(Cells) /\ loads[s] = [x \in 1..l |-> loads[s][x]]
      BY <1>1, <1>2, <2>2, LenProperties
    <2>6. SubSeq(b, (u + o) + 1, (u + o) + l) = [x \in 1..l |-> b[(u + o) + x]]
      BY <1>7
    <2>7. ASSUME NEW x \in 1..l PROVE b[(u + o) + x] = loads[s][x]
      <3>1. PICK y \in 1..w : y = o + x
        BY <1>7, <2>3
      <3>2. b[u + y] = tail[y] /\ (u + o) + x = u + y
        BY <1>7, <3>1
      <3>3. tail[y] = loads[s][x]
        BY <1>2, <1>4, <2>2, <3>1 DEF LaidOut
      <3>4. QED
        BY <3>2, <3>3
    <2>8. QED
      BY <2>4, <2>5, <2>6, <2>7
  <1>14. QED
    BY <1>5, <1>8, <1>11, <1>12, <1>13 DEF Parses, b, head, m

\* What is decoded from what was written is what was encoded.
LEMMA WrittenDecodes ==
    ASSUME cfg \in Configs, NEW d \in Seq(Values)
    PROVE  DecodedRows(Written(d)) = d
  <1> DEFINE m == Splits
             n == Len(d)
             b == Written(d)
             h == Parse(b)
  <1>1. m \in Nat \ {0} /\ n \in Nat /\ DOMAIN d = 1..n /\ d = [i \in 1..n |-> d[i]]
    BY ConfigBits, WidthAssumption
  <1>2. \A s \in 1..m : s - 1 \in Sections
    BY <1>1 DEF Sections
  <1>3. CASE d = <<>>
    <2> DEFINE sizes == [s \in 1..m |-> 0]
    <2>1. b = Header(0, sizes)
      BY <1>3 DEF Written, Empty
    <2>2. b[1] = 0
      <3>1. \A s \in 1..Splits : sizes[s] \in Nat
        OBVIOUS
      <3> HIDE DEF sizes
      <3>2. HasHeader(Header(0, sizes), 0, sizes)
        BY <3>1, HeaderLayout
      <3>3. QED
        BY <2>1, <3>2 DEF HasHeader
    <2>3. h.rows = 0
      BY <2>2 DEF Parse
    <2>4. DecodedRows(b) = << >>
      BY <2>3 DEF DecodedRows
    <2>5. QED
      BY <1>3, <2>4
  <1>4. CASE d # <<>>
    <2> DEFINE loads == [s \in 1..m |-> Payload(SplitOf(d)[s - 1])]
               sizes == [s \in 1..m |-> Len(loads[s])]
    <2>1. n > 0
      BY <1>1, <1>4
    <2>2. ASSUME NEW s \in 1..m
          PROVE  /\ SplitOf(d)[s - 1] \in Seq(Values) /\ Len(SplitOf(d)[s - 1]) = n
                 /\ Payload(SplitOf(d)[s - 1]) \in Seq(Nat)
                 /\ \A i \in 1..n : SplitOf(d)[s - 1][i] = SectionValue(d[i], s - 1)
      <3>1. /\ SplitOf(d)[s - 1] \in Seq(Values)
            /\ DOMAIN SplitOf(d)[s - 1] = 1..n
            /\ \A i \in 1..n : SplitOf(d)[s - 1][i] = SectionValue(d[i], s - 1)
        BY <1>1, <1>2, SplitOfType
      <3>2. Len(SplitOf(d)[s - 1]) = n
        BY <1>1, <3>1
      <3>3. Payload(SplitOf(d)[s - 1]) \in Seq(Values)
        BY <2>1, <3>1, <3>2, PayloadType
      <3>4. ASSUME NEW q \in Seq(Values) PROVE q \in Seq(Nat)
        <4>1. Len(q) \in Nat /\ \A i \in 1..Len(q) : q[i] \in Nat
          <5>1. \A i \in 1..Len(q) : q[i] \in Values
            OBVIOUS
          <5>2. \A x \in Values : x \in Nat
            BY DEF Values
          <5>3. QED
            BY <5>1, <5>2
        <4>2. q = [i \in 1..Len(q) |-> q[i]]
          OBVIOUS
        <4>3. q \in [1..Len(q) -> Nat]
          BY <4>1, <4>2
        <4>4. QED
          BY <4>1, <4>3
      <3>5. QED
        BY <3>1, <3>2, <3>3, <3>4
    <2>3. loads \in [1..m -> Seq(Nat)]
      BY <2>2
    <2>4. b = Header(n, sizes) \o FlattenSeq(loads)
      <3>1. sizes = [s \in 1..m |-> Len(Payload(SplitOf(d)[s - 1]))]
        OBVIOUS
      <3>2. QED
        BY <1>4, <3>1 DEF Written
    <2>5. /\ h.rows = n
          /\ DOMAIN h.views = 1..m
          /\ \A s \in 1..m : h.shifts[s] = SplitShift(s - 1) /\ h.views[s] = loads[s]
      <3>1. sizes = [s \in 1..Splits |-> Len(loads[s])] /\ loads \in [1..Splits -> Seq(Nat)]
        BY <2>3
      <3> HIDE DEF sizes, loads, b
      <3>2. Parses(h, n, loads)
        BY <1>1, <2>4, <3>1, ParsedLayout
      <3>3. QED
        BY <3>2 DEF Parses
    <2>6. ASSUME NEW i \in 1..n
          PROVE  Total([s \in DOMAIN h.views |->
                           Unpacked(h.views[s], h.rows)[i] * PowerOfTwo[h.shifts[s]]]) = d[i]
      <3> DEFINE parts == [s \in DOMAIN h.views |->
                              Unpacked(h.views[s], h.rows)[i] * PowerOfTwo[h.shifts[s]]]
      <3>1. ASSUME NEW s \in 1..m
            PROVE  parts[s] = SectionValue(d[i], s - 1) * PowerOfTwo[SplitShift(s - 1)]
        <4>1. h.views[s] = Payload(SplitOf(d)[s - 1])
          BY <2>5
        <4>2. Unpacked(h.views[s], h.rows)[i] = SplitOf(d)[s - 1][i]
          BY <2>1, <2>2, <2>5, <4>1, PayloadUnpacks
        <4>3. QED
          BY <2>2, <2>5, <4>2
      <3>2. Len(parts) = m
        BY <1>1, <2>5
      <3>3. d[i] \in Values
        BY <1>1
      <3> HIDE DEF parts, h
      <3>4. SumTo(parts, m) = d[i]
        BY <3>1, <3>3, SectionsAddUp
      <3>5. Total(parts) = d[i]
        BY <3>2, <3>4 DEF Total
      <3>6. QED
        BY <3>5 DEF parts, h
    <2>7. DecodedRows(b) = [i \in 1..n |-> d[i]]
      BY <2>5, <2>6 DEF DecodedRows
    <2>8. QED
      BY <1>1, <2>7
  <1>5. QED
    BY <1>3, <1>4

-----------------------------------------------------------------------------
(* The theorems.                                                           *)

\* Every variable has its type, for every width, configuration and input.
THEOREM TypeCorrect == Spec => []TypeOK
  <1>1. IInv => TypeOK
    BY DEF IInv
  <1>2. QED
    BY <1>1, Invariance, PTL

\* For every width of values, every way to cut them and either order: what is
\* decoded from what encode wrote is what it was given, and no section codec was
\* ever handed a value too wide for its section.
THEOREM EncodeRoundTrips == Spec => []RoundTrip
  <1>1. ASSUME IInv PROVE RoundTrip
    <2>1. \A s \in Sections : task[s] # "overflow"
      BY <1>1 DEF IInv, TasksInv
    <2>2. pc = "idle" /\ outcome = "ok" => DecodedRows(out) = data
      BY <1>1, WrittenDecodes DEF IInv, TypeOK, OutInv
    <2>3. QED
      BY <2>1, <2>2 DEF RoundTrip
  <1>2. QED
    BY <1>1, Invariance, PTL

\* However many sections there are, and whichever of them fail: the arrays of a
\* call outlive its tasks.
THEOREM ArraysOutliveTasks == Spec => []TasksUseLiveArrays
  <1>1. ASSUME IInv PROVE TasksUseLiveArrays
    <2>1. SUFFICES ASSUME NEW s \in Sections, task[s] = "run"
                   PROVE  raw # None /\ enc # None /\ pc \notin {"idle", "layout"}
      BY DEF TasksUseLiveArrays, Running
    <2>2. pc \in {"spawn", "join", "unwind"} /\ ~(pc = "unwind" /\ NoArrays)
      BY <1>1, <2>1 DEF IInv, TasksInv, TypeOK
    <2>3. HasArrays /\ Len(data) > 0
      BY <1>1, <2>2 DEF IInv, ArraysInv
    <2>4. QED
      BY <1>1, <2>2, <2>3, NothingOverflows
  <1>2. QED
    BY <1>1, Invariance, PTL
=============================================================================

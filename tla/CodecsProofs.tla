---------------------------- MODULE CodecsProofs ----------------------------
(***************************************************************************)
(* Theorems of Codecs: the calls of one encoding, and that RunLength and   *)
(* MainlyConstant answer each of them with the rows they were given, for   *)
(* every column, range and gather.  Both proofs go from what the encoder   *)
(* makes (IsRuns, IsChain) to what each entry point reads of it.           *)
(***************************************************************************)
EXTENDS Codecs, Induction

-----------------------------------------------------------------------------
(* Numbers in ascending order.                                             *)

\* a lists the elements of S below n, from the least to the greatest.
Ascends(a, S, n) ==
    /\ a \in Seq(Nat)
    /\ \A i \in 1..Len(a) : a[i] \in S /\ a[i] < n
    /\ \A i, j \in 1..Len(a) : i < j => a[i] < a[j]
    /\ \A x \in Nat : x \in S /\ x < n => \E i \in 1..Len(a) : a[i] = x

\* One number more.
LEMMA AscendsStep ==
    ASSUME NEW S, NEW n \in Nat, NEW a, Ascends(a, S, n)
    PROVE  Ascends(IF n \in S THEN Append(a, n) ELSE a, S, n + 1)
  <1> USE DEF Ascends
  <1>1. CASE n \notin S
    <2>1. \A x \in Nat : x \in S /\ x < n + 1 => x < n
      BY <1>1
    <2>2. \A i \in 1..Len(a) : a[i] \in Nat
      OBVIOUS
    <2>3. QED
      BY <1>1, <2>1, <2>2
  <1>2. CASE n \in S
    <2> DEFINE b == Append(a, n)
    <2>1. b \in Seq(Nat) /\ Len(b) = Len(a) + 1 /\ Len(a) \in Nat
      OBVIOUS
    <2>2. \A i \in 1..Len(a) : b[i] = a[i] /\ a[i] \in Nat
      OBVIOUS
    <2>3. b[Len(a) + 1] = n
      OBVIOUS
    <2> HIDE DEF b
    <2>0. PICK m \in Nat : m = Len(a)
      BY <2>1
    <2>4. ASSUME NEW i \in 1..Len(b) PROVE b[i] \in S /\ b[i] < n + 1
      <3>1. i \in 1..m \/ i = m + 1
        BY <2>0, <2>1
      <3>2. QED
        BY <3>1, <1>2, <2>0, <2>2, <2>3
    <2>5. ASSUME NEW i \in 1..Len(b), NEW j \in 1..Len(b), i < j PROVE b[i] < b[j]
      <3>1. i \in 1..m /\ (j \in 1..m \/ j = m + 1)
        <4>1. Len(b) = m + 1
          BY <2>0, <2>1
        <4>2. i \in 1..(m + 1) /\ j \in 1..(m + 1) /\ m \in Nat
          BY <4>1
        <4>3. QED
          BY ONLY <2>5, <4>2
      <3>2. QED
        BY <3>1, <2>0, <2>2, <2>3, <2>5
    <2>6. ASSUME NEW x \in Nat, x \in S, x < n + 1 PROVE \E i \in 1..Len(b) : b[i] = x
      <3>1. CASE x = n
        BY <3>1, <2>1, <2>3
      <3>2. CASE x # n
        <4>1. PICK i \in 1..Len(a) : a[i] = x
          BY <3>2, <2>6
        <4>2. QED
          BY <4>1, <2>1, <2>2
      <3>3. QED
        BY <3>1, <3>2
    <2>7. Ascends(b, S, n + 1)
      <3>1. b \in Seq(Nat)
        BY <2>1
      <3>2. QED
        BY ONLY <2>4, <2>5, <2>6, <3>1 DEF Ascends
    <2>8. QED
      BY <2>7, <1>2 DEF b
  <1>3. QED
    BY <1>1, <1>2

\* The lists that Ascending makes on its way to n.
Listed(S, n) ==
    CHOOSE g : g = [k \in 0..n |->
        IF k = 0 THEN <<>> ELSE IF k - 1 \in S THEN Append(g[k - 1], k - 1) ELSE g[k - 1]]

\* They are what its definition says.
LEMMA ListedIs ==
    ASSUME NEW S, NEW n \in Nat
    PROVE  Listed(S, n) = [k \in 0..n |->
               IF k = 0 THEN <<>>
               ELSE IF k - 1 \in S THEN Append(Listed(S, n)[k - 1], k - 1) ELSE Listed(S, n)[k - 1]]
  <1> DEFINE F == [p \in Seq(Nat) \X (Nat \ {0}) |->
                      IF p[2] - 1 \in S THEN Append(p[1], p[2] - 1) ELSE p[1]]
             v0 == <<>>
             T == Seq(Nat)
  <1>1. F \in [T \X (Nat \ {0}) -> T] /\ v0 \in T
    <2>1. ASSUME NEW p \in T \X (Nat \ {0})
          PROVE  (IF p[2] - 1 \in S THEN Append(p[1], p[2] - 1) ELSE p[1]) \in T
      <3>1. p[1] \in Seq(Nat) /\ p[2] - 1 \in Nat
        BY <2>1
      <3>2. QED
        BY <3>1
    <2>2. QED
      BY <2>1
  <1>2. PICK h \in [0..n -> T] : Follows(h, v0, F, n)
    <2> HIDE DEF F, v0, T
    <2> QED
      BY <1>1, FiniteRecursion
  <1>3. h = [k \in 0..n |->
                IF k = 0 THEN <<>>
                ELSE IF k - 1 \in S THEN Append(h[k - 1], k - 1) ELSE h[k - 1]]
    <2>1. ASSUME NEW k \in 0..n, k # 0
          PROVE  h[k] = IF k - 1 \in S THEN Append(h[k - 1], k - 1) ELSE h[k - 1]
      <3>1. k \in 1..n /\ k - 1 \in 0..n /\ k \in Nat \ {0} /\ h[k - 1] \in T
        BY <1>2, <2>1
      <3>2. <<h[k - 1], k>> \in T \X (Nat \ {0})
        BY <3>1
      <3>3. h[k] = F[<<h[k - 1], k>>]
        BY <1>2, <3>1 DEF Follows
      <3>4. QED
        BY <3>2, <3>3
    <2>2. h[0] = <<>>
      BY <1>2 DEF Follows
    <2>3. QED
      BY <1>2, <2>1, <2>2
  <1>4. QED
    BY <1>3 DEF Listed

\* Ascending lists what it is to.
LEMMA AscendingAscends ==
    ASSUME NEW S, NEW n \in Nat
    PROVE  Ascends(Ascending(S, n), S, n)
  <1>3. PICK up : up = Listed(S, n)
    OBVIOUS
  <1>4. up = [k \in 0..n |->
                 IF k = 0 THEN <<>>
                 ELSE IF k - 1 \in S THEN Append(up[k - 1], k - 1) ELSE up[k - 1]]
    BY <1>3, ListedIs
  <1> DEFINE P == {k \in Nat : k <= n => Ascends(up[k], S, k)}
  <1>5. 0 \in P
    BY <1>4 DEF Ascends
  <1>6. ASSUME NEW k \in Nat, k \in P PROVE k + 1 \in P
    <2>1. SUFFICES ASSUME k + 1 <= n PROVE Ascends(up[k + 1], S, k + 1)
      OBVIOUS
    <2>2. up[k + 1] = IF k \in S THEN Append(up[k], k) ELSE up[k]
      <3>1. PICK j \in 0..n : j = k + 1 /\ j # 0 /\ j - 1 = k
        BY <2>1
      <3>2. QED
        BY <1>4, <3>1
    <2>3. QED
      BY <1>6, <2>1, <2>2, AscendsStep
  <1> HIDE DEF P
  <1>7. n \in P
    BY <1>5, <1>6, InductionOnNat
  <1>8. QED
    BY <1>3, <1>7 DEF P, Ascending, Listed

-----------------------------------------------------------------------------
(* The contract.                                                           *)

\* The ranges a caller asks for.
Ranges == {r \in [begin : Nat, end : Nat] : r.begin <= r.end}

\* The ranges of a gather: ascending, without overlap.
Gathering(rs) ==
    /\ rs \in Seq(Ranges)
    /\ \A i \in 1..(Len(rs) - 1) : rs[i].end <= rs[i + 1].begin

\* The calls it makes.
Asking(c) ==
    \/ c \in {DecodeAll, DecodeAllInto}
    \/ \E i \in Nat : c = DecodeAt(i)
    \/ \E r \in Ranges : c \in {DecodeRange(r), DecodeRangeInto(r)}
    \/ \E rs : Gathering(rs) /\ c = DecodeGatherInto(rs)

\* The rows of d among start .. end - 1.
Clipped(d, start, end) == Greater(0, Lesser(end, Len(d)) - start)

\* A slice has the rows that are there.
LEMMA SliceIs ==
    ASSUME NEW d \in Seq(Int), NEW start \in Nat, NEW end \in Nat
    PROVE  /\ Slice(d, start, end) \in Seq(Int)
           /\ Clipped(d, start, end) \in Nat
           /\ Len(Slice(d, start, end)) = Clipped(d, start, end)
           /\ \A k \in 1..Clipped(d, start, end) :
                 /\ start + k \in 1..Len(d) /\ start + k <= end
                 /\ Slice(d, start, end)[k] = d[start + k]
  <1>0. PICK n \in Nat : n = Len(d) /\ \A i \in 1..n : d[i] \in Int
    OBVIOUS
  <1>1. PICK stop \in Nat : stop = Lesser(end, n) /\ stop <= n /\ stop <= end
    BY DEF Lesser
  <1>2. \A i \in (start + 1)..stop : d[i] \in Int
    BY <1>0, <1>1
  <1>3. /\ SubSeq(d, start + 1, stop) \in Seq(Int)
        /\ Len(SubSeq(d, start + 1, stop)) = IF start + 1 <= stop THEN stop - (start + 1) + 1 ELSE 0
        /\ \A i \in 1..(stop - (start + 1) + 1) : SubSeq(d, start + 1, stop)[i] = d[(start + 1) + i - 1]
    <2> DEFINE m == start + 1
    <2>1. m \in Int /\ stop \in Int
      BY <1>1
    <2>2. \A i \in m..stop : d[i] \in Int
      BY <1>2
    <2> HIDE DEF m
    <2>3. /\ SubSeq(d, m, stop) \in Seq(Int)
          /\ Len(SubSeq(d, m, stop)) = IF m <= stop THEN stop - m + 1 ELSE 0
          /\ \A i \in 1..(stop - m + 1) : SubSeq(d, m, stop)[i] = d[m + i - 1]
      BY <2>1, <2>2, SubSeqProperties
    <2>4. QED
      BY <2>3 DEF m
  <1>4. PICK s : s = SubSeq(d, start + 1, stop)
    OBVIOUS
  <1>5. Slice(d, start, end) = s
    BY <1>0, <1>1, <1>4 DEF Slice
  <1>6. Clipped(d, start, end) = IF start <= stop THEN stop - start ELSE 0
    BY <1>0, <1>1 DEF Clipped, Greater
  <1>7. Clipped(d, start, end) \in Nat
    BY <1>1, <1>6
  <1>8. Len(s) = Clipped(d, start, end)
    BY <1>1, <1>3, <1>4, <1>6
  <1>9. ASSUME NEW k \in 1..Clipped(d, start, end)
        PROVE  start + k \in 1..Len(d) /\ start + k <= end /\ s[k] = d[start + k]
    <2>1. k \in 1..(stop - start) /\ k \in Nat
      BY <1>1, <1>6
    <2>2. (start + 1) + k - 1 = start + k /\ stop - (start + 1) + 1 = stop - start
      BY <1>1, <2>1
    <2>3. s[k] = d[start + k]
      BY <1>3, <1>4, <2>1, <2>2
    <2>4. QED
      BY <1>0, <1>1, <2>1, <2>3
  <1>10. QED
    BY <1>3, <1>4, <1>5, <1>7, <1>8, <1>9

\* A slice is what has its rows.
LEMMA SliceMade ==
    ASSUME NEW d \in Seq(Int), NEW start \in Nat, NEW end \in Nat, NEW s \in Seq(Int),
           Len(s) = Clipped(d, start, end),
           \A k \in 1..Clipped(d, start, end) : start + k \in 1..Len(d) => s[k] = d[start + k]
    PROVE  s = Slice(d, start, end)
  <1>1. PICK t : t = Slice(d, start, end)
    OBVIOUS
  <1>2. /\ t \in Seq(Int) /\ Len(t) = Len(s)
        /\ \A k \in 1..Len(s) : t[k] = s[k]
    <2>1. PICK c \in Nat : c = Clipped(d, start, end)
      BY SliceIs
    <2>2. t \in Seq(Int) /\ Len(t) = c /\ Len(s) = c
      BY <1>1, <2>1, SliceIs
    <2>3. \A k \in 1..c : start + k \in 1..Len(d) /\ t[k] = d[start + k]
      <3>1. \A k \in 1..Clipped(d, start, end) :
                start + k \in 1..Len(d) /\ Slice(d, start, end)[k] = d[start + k]
        BY SliceIs
      <3>2. QED
        BY ONLY <1>1, <2>1, <3>1
    <2>4. \A k \in 1..c : start + k \in 1..Len(d) => s[k] = d[start + k]
      BY <2>1
    <2>5. QED
      BY ONLY <2>2, <2>3, <2>4
  <1>3. s = t
    BY ONLY <1>2, s \in Seq(Int), SeqEqual
  <1>4. QED
    BY <1>1, <1>3

\* All rows are a slice.
LEMMA SliceOfAll ==
    ASSUME NEW d \in Seq(Int)
    PROVE  d = Slice(d, 0, Len(d)) /\ Clipped(d, 0, Len(d)) = Len(d)
  <1>1. Len(d) \in Nat /\ 0 \in Nat
    OBVIOUS
  <1>2. Clipped(d, 0, Len(d)) = Len(d)
    BY <1>1 DEF Clipped, Greater, Lesser
  <1>3. QED
    BY <1>1, <1>2, SliceMade

\* None of the first m summands of s is greater than that of t.
NoneGreater(s, t, m) == \A i \in 1..m : s[i] \in Nat /\ t[i] \in Nat /\ s[i] <= t[i]

\* Sums of such summands are equal only if the summands are.
LEMMA SumsCompare ==
    ASSUME NEW m \in Nat, NEW s, NEW t, NoneGreater(s, t, m)
    PROVE  SumTo(s, m) = SumTo(t, m) <=> \A i \in 1..m : s[i] = t[i]
  <1>1. /\ SumTo(s, 0) = 0 /\ SumTo(t, 0) = 0
        /\ \A i \in 0..m : SumTo(s, i) \in Nat /\ SumTo(t, i) \in Nat
        /\ \A i \in 1..m : SumTo(s, i) = SumTo(s, i - 1) + s[i]
        /\ \A i \in 1..m : SumTo(t, i) = SumTo(t, i - 1) + t[i]
    BY SumToStep DEF NoneGreater
  <1> DEFINE P == {k \in Nat : k <= m => /\ SumTo(s, k) <= SumTo(t, k)
                                         /\ SumTo(s, k) = SumTo(t, k) <=> \A i \in 1..k : s[i] = t[i]}
  <1>2. 0 \in P
    BY <1>1
  <1>3. ASSUME NEW k \in Nat, k \in P PROVE k + 1 \in P
    <2>1. SUFFICES ASSUME k + 1 <= m
                   PROVE  /\ SumTo(s, k + 1) <= SumTo(t, k + 1)
                          /\ SumTo(s, k + 1) = SumTo(t, k + 1) <=> \A i \in 1..(k + 1) : s[i] = t[i]
      OBVIOUS
    <2>2. PICK j \in 1..m : j = k + 1 /\ j - 1 = k
      BY <2>1
    <2>3. PICK a \in Nat, b \in Nat, x \in Nat, y \in Nat :
              a = SumTo(s, k) /\ b = SumTo(t, k) /\ x = s[j] /\ y = t[j]
      BY <1>1, <2>1, <2>2 DEF NoneGreater
    <2>4. SumTo(s, j) = a + x /\ SumTo(t, j) = b + y /\ x <= y
      BY <1>1, <2>2, <2>3 DEF NoneGreater
    <2>5. a <= b /\ (a = b <=> \A i \in 1..k : s[i] = t[i])
      BY <1>3, <2>1, <2>3
    <2>6. a + x <= b + y /\ (a + x = b + y <=> a = b /\ x = y)
      BY <2>4, <2>5
    <2>7. (\A i \in 1..(k + 1) : s[i] = t[i]) <=> (\A i \in 1..k : s[i] = t[i]) /\ s[j] = t[j]
      <3>1. \A i \in 1..(k + 1) : i \in 1..k \/ i = j
        BY <2>2
      <3>2. \A i \in 1..k : i \in 1..(k + 1)
        OBVIOUS
      <3>3. j \in 1..(k + 1)
        BY <2>2
      <3>4. QED
        BY ONLY <3>1, <3>2, <3>3
    <2>8. QED
      BY <2>2, <2>3, <2>4, <2>5, <2>6, <2>7
  <1> HIDE DEF P
  <1>4. m \in P
    BY <1>2, <1>3, InductionOnNat
  <1>5. QED
    BY <1>1, <1>4 DEF P

\* The rows of every range.
Parts(d, rs) == [k \in DOMAIN rs |-> Slice(d, rs[k].begin, rs[k].end)]

\* A range gives fewer rows than it has only if it passes the last row.
LEMMA PassesTheEnd ==
    ASSUME NEW d \in Seq(Int), NEW r \in Ranges
    PROVE  /\ RangeSize(r) \in Nat /\ Clipped(d, r.begin, r.end) \in Nat
           /\ r.begin \in Nat /\ r.end \in Nat
           /\ RangeSize(r) = r.end - r.begin
           /\ Clipped(d, r.begin, r.end) <= RangeSize(r)
           /\ Clipped(d, r.begin, r.end) # RangeSize(r) <=> RangeSize(r) > 0 /\ r.end > Len(d)
  <1>1. PICK b \in Nat, e \in Nat, n \in Nat : b = r.begin /\ e = r.end /\ n = Len(d) /\ b <= e
    BY DEF Ranges
  <1>2. RangeSize(r) = e - b
    BY <1>1 DEF RangeSize, Greater
  <1>3. Clipped(d, r.begin, r.end) = IF e <= n THEN e - b ELSE IF n <= b THEN 0 ELSE n - b
    BY <1>1 DEF Clipped, Greater, Lesser
  <1>4. PICK x \in Nat, y \in Nat : x = e - b /\ y = Clipped(d, r.begin, r.end) /\ y <= x
                                  /\ (y # x <=> x > 0 /\ e > n)
    <2>1. CASE e <= n
      BY <1>1, <1>3, <2>1
    <2>2. CASE ~(e <= n)
      BY <1>1, <1>3, <2>2
    <2>3. QED
      BY <2>1, <2>2
  <1>5. QED
    BY <1>1, <1>2, <1>4

\* Rows that need no padding.
LEMMA NothingToPad ==
    ASSUME NEW s \in Seq(Int), NEW n \in Nat, n = Len(s)
    PROVE  Padded(s, n) = s
  <1> DEFINE p == [k \in 1..(n - Len(s)) |-> Junk]
  <1>1. p = <<>>
    OBVIOUS
  <1>2. s \o <<>> = s
    BY ConcatEmptySeq
  <1>3. QED
    BY <1>1, <1>2 DEF Padded

\* FlattenSeq of the community modules.
LEMMA FlattenIsFlat == \A q : FlattenSeq(q) = Flat(q)
  BY DEF FlattenSeq, Flat

\* The parts of a gather, and how many rows each has.
LEMMA PartsAre ==
    ASSUME NEW d \in Seq(Int), NEW rs \in Seq(Ranges), NEW s,
           \A k \in 1..Len(rs) : s[k] = Clipped(d, rs[k].begin, rs[k].end)
    PROVE  /\ Parts(d, rs) \in Seq(Seq(Int)) /\ Len(Parts(d, rs)) = Len(rs)
           /\ \A k \in 1..Len(rs) : s[k] = Len(Parts(d, rs)[k])
           /\ Flat(Parts(d, rs)) \in Seq(Int)
           /\ Len(Flat(Parts(d, rs))) = SumTo(s, Len(rs))
  <1>1. PICK m \in Nat : m = Len(rs) /\ DOMAIN rs = 1..m /\ \A k \in 1..m : rs[k] \in Ranges
    OBVIOUS
  <1>2. ASSUME NEW k \in 1..m
        PROVE  /\ Slice(d, rs[k].begin, rs[k].end) \in Seq(Int)
               /\ s[k] = Len(Slice(d, rs[k].begin, rs[k].end))
    <2>1. rs[k].begin \in Nat /\ rs[k].end \in Nat
      BY <1>1 DEF Ranges
    <2>2. QED
      BY <1>1, <2>1, SliceIs
  <1>3. PICK ps : ps = Parts(d, rs)
    OBVIOUS
  <1>4. /\ ps \in Seq(Seq(Int)) /\ Len(ps) = m
        /\ \A k \in 1..m : s[k] = Len(ps[k])
    BY <1>1, <1>2, <1>3 DEF Parts
  <1>5. Flat(ps) \in Seq(Int) /\ LaidOut(Flat(ps), ps, s)
    BY ONLY <1>4, FlatAt
  <1>6. QED
    BY <1>1, <1>3, <1>4, <1>5 DEF LaidOut

\* A gather that has gathered the rows that are there answers as expected, if it
\* checks how many they are.
LEMMA GatherOfSlices ==
    ASSUME NEW d \in Seq(Int), NEW rs \in Seq(Ranges)
    PROVE  SizedInto(Rows(Flat(Parts(d, rs))), Asked(d, DecodeGatherInto(rs)))
               = Expected(d, DecodeGatherInto(rs), FALSE)
  <1> DEFINE c == DecodeGatherInto(rs)
             s == [k \in DOMAIN rs |-> Clipped(d, rs[k].begin, rs[k].end)]
             t == [k \in DOMAIN rs |-> RangeSize(rs[k])]
             flat == Flat(Parts(d, rs))
             Passing == \E r \in ToSet(rs) : RangeSize(r) > 0 /\ r.end > Len(d)
             padded == [k \in DOMAIN rs |->
                           Padded(Slice(d, rs[k].begin, rs[k].end), RangeSize(rs[k]))]
  <1>1. PICK m \in Nat : m = Len(rs) /\ DOMAIN rs = 1..m /\ \A k \in 1..m : rs[k] \in Ranges
    OBVIOUS
  <1>2. c.op = "gather" /\ c.ranges = rs
    BY DEF DecodeGatherInto, NoCall
  <1>3. Asked(d, c) = SumTo(t, m)
    <2>1. Asked(d, c) = Total(t)
      BY <1>2 DEF Asked
    <2>2. Len(t) = m
      BY <1>1
    <2>3. QED
      BY <2>1, <2>2 DEF Total
  <1>4. \A k \in 1..m : /\ s[k] \in Nat /\ t[k] \in Nat /\ s[k] <= t[k]
                        /\ s[k] # t[k] <=> RangeSize(rs[k]) > 0 /\ rs[k].end > Len(d)
    <2>1. ASSUME NEW k \in 1..m
          PROVE  /\ s[k] \in Nat /\ t[k] \in Nat /\ s[k] <= t[k]
                 /\ s[k] # t[k] <=> RangeSize(rs[k]) > 0 /\ rs[k].end > Len(d)
      <3>1. s[k] = Clipped(d, rs[k].begin, rs[k].end) /\ t[k] = RangeSize(rs[k]) /\ rs[k] \in Ranges
        BY <1>1
      <3>2. QED
        BY <3>1, PassesTheEnd
    <2>2. QED
      BY <2>1
  <1>5. Passing <=> \E k \in 1..m : s[k] # t[k]
    <2>1. ToSet(rs) = {rs[k] : k \in 1..m}
      BY <1>1 DEF ToSet
    <2>2. QED
      BY <2>1, <1>4
  <1>6. flat \in Seq(Int) /\ Len(flat) = SumTo(s, m)
    <2>1. \A k \in 1..Len(rs) : s[k] = Clipped(d, rs[k].begin, rs[k].end)
      BY <1>1
    <2> HIDE DEF s
    <2>2. Flat(Parts(d, rs)) \in Seq(Int) /\ Len(Flat(Parts(d, rs))) = SumTo(s, Len(rs))
      BY <2>1, PartsAre
    <2>3. QED
      BY <1>1, <2>2
  <1>7. SumTo(s, m) = SumTo(t, m) <=> \A k \in 1..m : s[k] = t[k]
    <2> HIDE DEF s, t
    <2>1. NoneGreater(s, t, m)
      BY <1>4 DEF NoneGreater
    <2>2. QED
      BY <2>1, SumsCompare
  <1>8. SizedInto(Rows(flat), Asked(d, c)) = IF Passing THEN Threw ELSE Rows(flat)
    <2> HIDE DEF flat, c, s, t, Passing
    <2> QED
      BY <1>3, <1>5, <1>6, <1>7 DEF SizedInto, Rows
  <1>9. Expected(d, c, FALSE) = IF Passing THEN Threw ELSE Rows(FlattenSeq(padded))
    BY <1>2 DEF Expected
  <1>10. ASSUME ~Passing PROVE padded = Parts(d, rs)
    <2>1. ASSUME NEW k \in 1..m
          PROVE  Padded(Slice(d, rs[k].begin, rs[k].end), RangeSize(rs[k]))
                     = Slice(d, rs[k].begin, rs[k].end)
      <3>1. s[k] = t[k] /\ t[k] = RangeSize(rs[k]) /\ t[k] \in Nat
        BY <1>1, <1>4, <1>5, <1>10
      <3>2. rs[k].begin \in Nat /\ rs[k].end \in Nat
        BY <1>1 DEF Ranges
      <3>3. /\ Slice(d, rs[k].begin, rs[k].end) \in Seq(Int)
            /\ Len(Slice(d, rs[k].begin, rs[k].end)) = s[k]
        BY <1>1, <3>2, SliceIs
      <3>4. QED
        BY <3>1, <3>3, NothingToPad
    <2>2. QED
      BY <1>1, <2>1 DEF Parts
  <1>11. QED
    <2> HIDE DEF padded, Passing
    <2> QED
      BY <1>8, <1>9, <1>10, FlattenIsFlat

\* The default gather adds up to one that has checked every range.
LEMMA GatherOfAnswers ==
    ASSUME NEW d \in Seq(Int), NEW rs \in Seq(Ranges), NEW answers,
           answers = [k \in DOMAIN rs |->
                         IF RangeSize(rs[k]) = 0 THEN Rows(<<>>)
                         ELSE SizedInto(Rows(Slice(d, rs[k].begin, rs[k].end)), RangeSize(rs[k]))]
    PROVE  GatherByRange(answers, Asked(d, DecodeGatherInto(rs)))
               = Expected(d, DecodeGatherInto(rs), FALSE)
  <1>1. PICK m \in Nat : m = Len(rs) /\ DOMAIN rs = 1..m /\ \A k \in 1..m : rs[k] \in Ranges
    OBVIOUS
  <1> DEFINE c == DecodeGatherInto(rs)
             Part(k) == Slice(d, rs[k].begin, rs[k].end)
             Short(k) == RangeSize(rs[k]) > 0 /\ rs[k].end > Len(d)
  <1>2. ASSUME NEW k \in 1..m
        PROVE  answers[k] = IF Short(k) THEN Threw ELSE Rows(Part(k))
    <2>1. rs[k] \in Ranges /\ rs[k].begin \in Nat /\ rs[k].end \in Nat
      BY <1>1, PassesTheEnd
    <2>2. PICK size \in Nat : size = RangeSize(rs[k])
      BY <2>1, PassesTheEnd
    <2>3. Part(k) \in Seq(Int) /\ Len(Part(k)) = Clipped(d, rs[k].begin, rs[k].end)
      BY <2>1, SliceIs
    <2>4. PICK q \in Nat : q = Clipped(d, rs[k].begin, rs[k].end) /\ q <= size /\ (q # size <=> Short(k))
      BY <2>1, <2>2, PassesTheEnd
    <2>5. PICK p : p = Part(k) /\ p \in Seq(Int) /\ Len(p) = q
      BY <2>3, <2>4
    <2>6. answers[k] = IF size = 0 THEN Rows(<<>>) ELSE SizedInto(Rows(p), size)
      BY <1>1, <2>2, <2>5
    <2>7. CASE size = 0
      <3>1. q = 0 /\ ~Short(k)
        BY <2>4, <2>7
      <3>2. p = <<>>
        BY <2>5, <3>1
      <3>3. QED
        BY <2>5, <2>6, <2>7, <3>1, <3>2
    <2>8. CASE size # 0
      <3>1. SizedInto(Rows(p), size) = IF q # size THEN Threw ELSE Rows(p)
        BY <2>5 DEF SizedInto, Rows
      <3>2. QED
        BY <2>4, <2>5, <2>6, <2>8, <3>1
    <2>9. QED
      BY <2>7, <2>8
  <1>3. DOMAIN answers = 1..m
    BY <1>1
  <1>4. Expected(d, c, FALSE) = SizedInto(Rows(Flat(Parts(d, rs))), Asked(d, c))
    BY GatherOfSlices
  <1>5. CASE \E k \in 1..m : Short(k)
    <2>1. \E k \in DOMAIN answers : answers[k].kind = "threw"
      <3>1. PICK k \in 1..m : Short(k)
        BY <1>5
      <3> HIDE DEF Short
      <3>2. answers[k] = Threw
        BY <1>2, <3>1
      <3>3. k \in DOMAIN answers
        BY <1>3
      <3>4. QED
        BY ONLY <3>2, <3>3 DEF Threw
    <2>2. c.op = "gather" /\ c.ranges = rs
      BY DEF DecodeGatherInto, NoCall
    <2>3. \E r \in ToSet(rs) : RangeSize(r) > 0 /\ r.end > Len(d)
      BY <1>1, <1>5 DEF ToSet
    <2>4. Expected(d, c, FALSE) = Threw
      BY <2>2, <2>3 DEF Expected
    <2>5. QED
      BY <2>1, <2>4 DEF GatherByRange
  <1>6. CASE ~ \E k \in 1..m : Short(k)
    <2>1. \A k \in 1..m : answers[k] = Rows(Part(k))
      BY <1>2, <1>6
    <2>2. ~ \E k \in DOMAIN answers : answers[k].kind = "threw"
      <3>1. \A k \in 1..m : answers[k].kind = "rows"
        <4>1. \A q : Rows(q).kind = "rows"
          BY DEF Rows
        <4> HIDE DEF Part
        <4>2. QED
          BY <2>1, <4>1
      <3>2. QED
        BY <1>3, <3>1
    <2>3. [k \in DOMAIN answers |-> answers[k].rows] = Parts(d, rs)
      BY <1>1, <1>3, <2>1 DEF Parts, Rows
    <2> HIDE DEF c
    <2>4. QED
      BY <1>4, <2>2, <2>3, FlattenIsFlat DEF GatherByRange, c
  <1>7. QED
    BY <1>5, <1>6

-----------------------------------------------------------------------------
(* The calls of an encoding.                                               *)

\* An encoding is one of the column, and an answer is the codec's to the call that
\* is under way.
CodecsInv ==
    /\ kind \in Kinds
    /\ encoded # NotEncoded =>
          \E d \in Columns[kind] : encoded \in Encodings(kind, d) /\ data = Held(kind, d, encoded)
    /\ call # NoCall =>
          /\ encoded # NotEncoded /\ call \in Calls[kind]
          /\ answer = Answer(kind, encoded, call, Asked(data, call))

\* The codec is asked only for what the column was encoded to, one call after another.
THEOREM CallsOfOneEncoding == Spec => []CodecsInv
  <1>1. Init => CodecsInv
    BY DEF Init, CodecsInv
  <1>2. CodecsInv /\ [Next]_vars => CodecsInv'
    <2> SUFFICES ASSUME CodecsInv, [Next]_vars PROVE CodecsInv'
      OBVIOUS
    <2>1. CASE UNCHANGED vars
      BY <2>1 DEF CodecsInv, vars
    <2>2. CASE encoded = NotEncoded /\ \E d \in Columns[kind] : Encode(d)
      <3>1. PICK d \in Columns[kind] : Encode(d)
        BY <2>2
      <3>2. call' = NoCall
        BY <2>2, <3>1 DEF CodecsInv, Encode
      <3>3. kind' \in Kinds /\ d \in Columns[kind'] /\ encoded' \in Encodings(kind', d)
               /\ data' = Held(kind', d, encoded')
        BY <3>1 DEF CodecsInv, Encode
      <3>4. QED
        BY <3>2, <3>3 DEF CodecsInv
    <2>3. CASE encoded # NotEncoded /\ call = NoCall /\ \E c \in Calls[kind] : Call(c)
      <3>1. PICK c \in Calls[kind] : Call(c)
        BY <2>3
      <3>2. /\ call' \in Calls[kind'] /\ encoded' # NotEncoded
            /\ answer' = Answer(kind', encoded', call', Asked(data', call'))
        BY <2>3, <3>1 DEF Call
      <3>3. /\ kind' \in Kinds
            /\ encoded' # NotEncoded =>
                  \E d \in Columns[kind'] : encoded' \in Encodings(kind', d) /\ data' = Held(kind', d, encoded')
        BY <3>1 DEF CodecsInv, Call
      <3>4. QED
        BY <3>2, <3>3 DEF CodecsInv
    <2>4. CASE call # NoCall /\ Return
      BY <2>4 DEF CodecsInv, Return
    <2>5. QED
      BY <2>1, <2>2, <2>3, <2>4 DEF Next
  <1>3. QED
    BY <1>1, <1>2, PTL DEF Spec

\* A short sequence is a sequence.
LEMMA SeqOfIsSeq ==
    ASSUME NEW S, NEW n \in Nat, NEW s \in SeqOf(S, n)
    PROVE  s \in Seq(S)
  <1>1. PICK m \in 0..n : s \in [1..m -> S]
    BY DEF SeqOf
  <1>2. QED
    BY <1>1

\* A column holds values.
LEMMA ColumnsAre ==
    ASSUME NEW k \in Kinds, NEW d \in Columns[k]
    PROVE  d \in Seq(Int) /\ d \in Seq(Values[k])
  <1>1. d \in SeqOf(Values[k], MaxRows[k])
    BY DEF Columns
  <1>2. MaxRows[k] \in Nat /\ Values[k] \subseteq Int
    BY BoundsAssumption
  <1>3. d \in Seq(Values[k])
    BY <1>1, <1>2, SeqOfIsSeq
  <1>4. QED
    BY <1>2, <1>3

\* The calls of every codec are calls of the interface.
LEMMA CallsAsk ==
    ASSUME NEW k \in Kinds, NEW c \in Calls[k]
    PROVE  Asking(c)
  <1>1. MaxRows[k] \in Nat /\ MaxRanges \in Nat
    BY BoundsAssumption
  <1>2. Positions[k] \subseteq Nat
    BY <1>1 DEF Positions
  <1>3. Spans[k] \subseteq Ranges
    BY <1>2 DEF Spans, Ranges
  <1>4. ASSUME NEW rs \in Gathers[k] PROVE Gathering(rs)
    <2>1. /\ rs \in SeqOf(Spans[k], IF k \in OwnGather THEN MaxRanges ELSE 1)
          /\ \A i \in 1..(Len(rs) - 1) : rs[i].end <= rs[i + 1].begin
      BY <1>4 DEF Gathers
    <2>2. (IF k \in OwnGather THEN MaxRanges ELSE 1) \in Nat
      BY <1>1
    <2>3. rs \in Seq(Spans[k])
      BY <2>1, <2>2, SeqOfIsSeq
    <2>4. rs \in Seq(Ranges)
      BY <1>3, <2>3
    <2>5. QED
      BY <2>1, <2>4 DEF Gathering
  <1>5. \/ c \in {DecodeAll, DecodeAllInto}
        \/ \E i \in Positions[k] : c = DecodeAt(i)
        \/ \E r \in Spans[k] : c = DecodeRange(r)
        \/ \E r \in Spans[k] : c = DecodeRangeInto(r)
        \/ \E rs \in Gathers[k] : c = DecodeGatherInto(rs)
    BY DEF Calls
  <1>6. QED
    BY <1>2, <1>3, <1>4, <1>5 DEF Asking

\* Part k of p has the rows of d from b[k - 1] on and before b[k].
Advances(p, b, m, d) ==
    /\ p \in Seq(Seq(Int)) /\ Len(p) = m
    /\ \A k \in 0..m : b[k] \in Nat /\ b[k] <= Len(d)
    /\ \A k \in 1..m : /\ b[k - 1] <= b[k] /\ Len(p[k]) = b[k] - b[k - 1]
                       /\ \A i \in 1..Len(p[k]) : p[k][i] = d[b[k - 1] + i]

\* q has the first k parts of p.
Begins(q, p, k) ==
    q \in Seq(Seq(Int)) /\ Len(q) = k /\ \A j \in 1..k : q[j] = p[j]

\* f has the rows of d from x on and before y.
Covers(f, d, x, y) ==
    /\ x \in Nat /\ y \in Nat /\ x <= y /\ f \in Seq(Int) /\ Len(f) = y - x
    /\ \A i \in 1..(y - x) : f[i] = d[x + i]

\* Rows that follow one another.
LEMMA CoversMore ==
    ASSUME NEW d, NEW x \in Nat, NEW y \in Nat, NEW z \in Nat, NEW f, NEW g,
           Covers(f, d, x, y), Covers(g, d, y, z)
    PROVE  Covers(f \o g, d, x, z)
  <1>1. PICK u \in Nat, w \in Nat : /\ u = y - x /\ w = z - y /\ z - x = u + w /\ x <= z
                                    /\ u = Len(f) /\ w = Len(g)
    <2>1. y - x \in Nat /\ z - y \in Nat /\ x <= z /\ z - x = (y - x) + (z - y)
      BY DEF Covers
    <2>2. Len(f) = y - x /\ Len(g) = z - y
      BY DEF Covers
    <2>3. QED
      BY <2>1, <2>2
  <1>2. f \in Seq(Int) /\ g \in Seq(Int)
    BY DEF Covers
  <1>3. /\ f \o g \in Seq(Int) /\ Len(f \o g) = u + w
        /\ \A i \in 1..u : (f \o g)[i] = f[i]
        /\ \A i \in 1..w : (f \o g)[u + i] = g[i]
    <2>1. u = Len(f) /\ w = Len(g)
      BY <1>1
    <2>2. QED
      BY ONLY <1>2, <2>1
  <1>4. ASSUME NEW i \in 1..(u + w) PROVE (f \o g)[i] = d[x + i]
    <2>1. CASE i <= u
      <3>1. i \in 1..u /\ i \in 1..(y - x)
        BY <1>1, <2>1
      <3>2. QED
        BY <1>3, <3>1 DEF Covers
    <2>2. CASE i > u
      <3>1. PICK l \in 1..w : i = u + l /\ y + l = x + i /\ l \in 1..(z - y)
        <4>1. i - u \in 1..w /\ i = u + (i - u) /\ y + (i - u) = x + i /\ i - u \in 1..(z - y)
          BY <1>1, <2>2
        <4>2. QED
          BY <4>1
      <3>2. g[l] = d[y + l]
        BY <3>1 DEF Covers
      <3>3. QED
        BY <1>3, <3>1, <3>2
    <2>3. i <= u \/ i > u
      OBVIOUS
    <2>4. QED
      BY <2>1, <2>2, <2>3
  <1>5. QED
    BY <1>1, <1>3, <1>4 DEF Covers

\* Rows that are there are a slice.
LEMMA CoversSlice ==
    ASSUME NEW d \in Seq(Int), NEW x, NEW y, NEW f, Covers(f, d, x, y), y <= Len(d)
    PROVE  f = Slice(d, x, y)
  <1>1. x \in Nat /\ y \in Nat /\ x <= y /\ f \in Seq(Int) /\ Len(f) = y - x
    BY DEF Covers
  <1>2. Clipped(d, x, y) = y - x
    BY <1>1 DEF Clipped, Greater, Lesser
  <1>3. \A k \in 1..Clipped(d, x, y) : f[k] = d[x + k]
    BY <1>2 DEF Covers
  <1>4. QED
    BY <1>1, <1>2, <1>3, SliceMade

\* The rows of each part follow those of the one before: flat, they are a slice.
LEMMA Consecutive ==
    ASSUME NEW d \in Seq(Int), NEW m \in Nat, NEW p, NEW b, Advances(p, b, m, d)
    PROVE  Flat(p) = Slice(d, b[0], b[m]) /\ Flat(p) \in Seq(Int) /\ Covers(Flat(p), d, b[0], b[m])
  <1> DEFINE P == {k \in Nat : k <= m => \E q : Begins(q, p, k) /\ Covers(Flat(q), d, b[0], b[k])}
  <1>1. 0 \in P
    <2>1. PICK q : q = <<>>
      OBVIOUS
    <2>2. q \in Seq(Seq(Int)) /\ Len(q) = 0 /\ Flat(q) = q /\ q \in Seq(Int)
      BY <2>1 DEF Flat
    <2>3. b[0] \in Nat
      BY DEF Advances
    <2>4. Begins(q, p, 0)
      BY <2>2 DEF Begins
    <2>5. Covers(q, d, b[0], b[0])
      BY <2>2, <2>3 DEF Covers
    <2>6. QED
      BY <2>2, <2>4, <2>5
  <1>2. ASSUME NEW k \in Nat, k \in P, k + 1 <= m
        PROVE  \E q : Begins(q, p, k + 1) /\ Covers(Flat(q), d, b[0], b[k + 1])
    <2>2. PICK q : Begins(q, p, k) /\ Covers(Flat(q), d, b[0], b[k])
      BY <1>2
    <2>3. PICK j \in 1..m : j = k + 1 /\ j - 1 = k
      BY <1>2
    <2>4. PICK x \in Nat, y \in Nat, z \in Nat : x = b[0] /\ y = b[k] /\ z = b[j]
      <3>1. 0 \in 0..m /\ k \in 0..m /\ j \in 0..m
        BY <2>3
      <3>2. b[0] \in Nat /\ b[k] \in Nat /\ b[j] \in Nat
        BY <3>1 DEF Advances
      <3>3. QED
        BY <3>2
    <2>5. PICK e : e = p[j]
      OBVIOUS
    <2>6. Covers(e, d, y, z)
      <3>1. e \in Seq(Int)
        BY <2>3, <2>5 DEF Advances
      <3>2. y <= z /\ Len(e) = z - y /\ \A i \in 1..Len(e) : e[i] = d[y + i]
        <4>1. /\ b[j - 1] <= b[j] /\ Len(p[j]) = b[j] - b[j - 1]
              /\ \A i \in 1..Len(p[j]) : p[j][i] = d[b[j - 1] + i]
          BY DEF Advances
        <4>2. QED
          BY ONLY <2>3, <2>4, <2>5, <4>1
      <3>3. QED
        BY <3>1, <3>2 DEF Covers
    <2>7. Covers(Flat(q) \o e, d, x, z)
      <3>1. Covers(Flat(q), d, x, y)
        BY <2>2, <2>4
      <3>2. QED
        BY <2>6, <3>1, CoversMore
    <2>8. Begins(Append(q, e), p, j)
      <3>1. e \in Seq(Int)
        BY <2>6 DEF Covers
      <3>2. q \in Seq(Seq(Int)) /\ Len(q) = k /\ \A l \in 1..k : q[l] = p[l]
        BY <2>2 DEF Begins
      <3>3. PICK more : more = Append(q, e)
        OBVIOUS
      <3>4. more \in Seq(Seq(Int)) /\ Len(more) = k + 1 /\ more[k + 1] = e
              /\ \A l \in 1..k : more[l] = q[l]
        BY ONLY <3>1, <3>2, <3>3
      <3>5. \A l \in 1..j : l \in 1..k \/ l = j
        BY <2>3
      <3>6. \A l \in 1..j : more[l] = p[l]
        BY <2>3, <2>5, <3>2, <3>4, <3>5
      <3>7. QED
        BY <2>3, <3>3, <3>4, <3>6 DEF Begins
    <2>9. Flat(Append(q, e)) = Flat(q) \o e
      <3>1. q \in Seq(Seq(Int)) /\ e \in Seq(Int)
        BY <2>2, <2>6 DEF Begins, Covers
      <3>2. QED
        BY <3>1, FlatAppend
    <2>10. QED
      BY <2>3, <2>4, <2>7, <2>8, <2>9
  <1>3. ASSUME NEW k \in Nat, k \in P PROVE k + 1 \in P
    BY <1>2, <1>3
  <1> HIDE DEF P
  <1>4. m \in P
    BY <1>1, <1>3, InductionOnNat
  <1>5. PICK q : Begins(q, p, m) /\ Covers(Flat(q), d, b[0], b[m])
    BY <1>4 DEF P
  <1>6. q = p
    <2>1. p \in Seq(Seq(Int)) /\ Len(p) = m
      BY DEF Advances
    <2>2. q \in Seq(Seq(Int)) /\ Len(q) = m /\ \A j \in 1..m : q[j] = p[j]
      BY <1>5 DEF Begins
    <2>3. Len(q) = Len(p) /\ \A j \in 1..Len(q) : q[j] = p[j]
      BY <2>1, <2>2
    <2>4. QED
      BY ONLY <2>1, <2>2, <2>3, SeqEqual
  <1>7. b[m] <= Len(d)
    BY DEF Advances
  <1>8. QED
    BY <1>5, <1>6, <1>7, CoversSlice DEF Covers

-----------------------------------------------------------------------------
(* RunLengthEncoder.                                                       *)

\* The contract is the same in the module of the codec.
LEMMA RunLengthContract ==
    /\ \A s : RL!Rows(s) = Rows(s)
    /\ RL!Nullopt = Nullopt /\ RL!Threw = Threw /\ RL!Junk = Junk
    /\ \A a, b : RL!Lesser(a, b) = Lesser(a, b) /\ RL!Greater(a, b) = Greater(a, b)
    /\ \A r : RL!RangeSize(r) = RangeSize(r)
    /\ \A q : RL!FlattenSeq(q) = Flat(q)
    /\ \A x, n : RL!SizedInto(x, n) = SizedInto(x, n)
    /\ \A S, n : RL!Ascending(S, n) = Ascending(S, n)
  BY DEF RL!Rows, Rows, RL!Nullopt, Nullopt, RL!Threw, Threw, RL!Junk, Junk, RL!Lesser, Lesser, RL!Greater, Greater,
     RL!RangeSize, RangeSize, RL!FlattenSeq, Flat, RL!SizedInto, SizedInto, RL!Ascending, Ascending

\* A call is answered by its method.
LEMMA RunLengthAnswers ==
    ASSUME NEW e, NEW n
    PROVE  /\ RL!Answer(e, DecodeAll, n) = RL!DecodeAll(e)
           /\ RL!Answer(e, DecodeAllInto, n) = RL!DecodeAllInto(e, n)
           /\ \A i : RL!Answer(e, DecodeAt(i), n) = RL!DecodeAt(e, i)
           /\ \A r : RL!Answer(e, DecodeRange(r), n) = RL!DecodeRange(e, r.begin, r.end)
           /\ \A r : RL!Answer(e, DecodeRangeInto(r), n) = RL!DecodeRangeInto(e, r.begin, r.end, n)
           /\ \A rs : RL!Answer(e, DecodeGatherInto(rs), n) = RL!DecodeGatherInto(e, rs, n)
  BY DEF RL!Answer, RL!Dispatch, DecodeAll, DecodeAllInto, DecodeAt, DecodeRange, DecodeRangeInto, DecodeGatherInto, NoCall

\* What each call is to return, and the size it comes with.
LEMMA ExpectedAre ==
    ASSUME NEW d
    PROVE  /\ Expected(d, DecodeAll, FALSE) = Rows(d) /\ Expected(d, DecodeAllInto, FALSE) = Rows(d)
           /\ \A i : Expected(d, DecodeAt(i), FALSE) = IF i < Len(d) THEN Rows(<<d[i + 1]>>) ELSE Nullopt
           /\ \A r : /\ Expected(d, DecodeRange(r), FALSE) = Rows(Slice(d, r.begin, r.end))
                     /\ Expected(d, DecodeRangeInto(r), FALSE) = Rows(Slice(d, r.begin, r.end))
           /\ Asked(d, DecodeAllInto) = Len(d)
           /\ \A r : Asked(d, DecodeRangeInto(r)) = Greater(Lesser(r.end, Len(d)) - r.begin, 0)
  BY DEF Expected, Asked, DecodeAll, DecodeAllInto, DecodeAt, DecodeRange, DecodeRangeInto, DecodeGatherInto, NoCall

-----------------------------------------------------------------------------

\* Row i is of run r.
InRun(e, r, i) ==
    r \in 0..(RL!NumRuns(e) - 1) /\ RL!RunStart(e, r) <= i /\ i < RL!RunEnd(e, r)

\* Runs of equal rows, one after another from the first row to the last.
IsRuns(e, d) ==
    /\ e.n = Len(d) /\ [e EXCEPT !.n = Len(d)] = e /\ RL!NumRuns(e) \in Nat
    /\ RL!NumRuns(e) = 0 <=> Len(d) = 0
    /\ RL!NumRuns(e) > 0 => RL!RunStart(e, 0) = 0 /\ RL!RunEnd(e, RL!NumRuns(e) - 1) = Len(d)
    /\ \A r \in 0..(RL!NumRuns(e) - 1) :
          /\ RL!RunStart(e, r) \in Nat /\ RL!RunEnd(e, r) \in Nat
          /\ RL!RunStart(e, r) < RL!RunEnd(e, r) /\ RL!RunEnd(e, r) <= Len(d)
    /\ \A r \in 0..(RL!NumRuns(e) - 2) : RL!RunEnd(e, r) = RL!RunStart(e, r + 1)
    /\ \A r, q \in 0..(RL!NumRuns(e) - 1) : r < q => RL!RunEnd(e, r) <= RL!RunStart(e, q)
    /\ \A r \in 0..(RL!NumRuns(e) - 1) : \A i \in Nat :
          InRun(e, r, i) => d[i + 1] = RL!RunValue(e, r)

\* The encoder makes such runs.
LEMMA RunsEncoded ==
    ASSUME NEW d \in Seq(Int), NEW composed
    PROVE  IsRuns(RL!Encode(d, composed), d)
  <1> DEFINE e == RL!Encode(d, composed)
             n == Len(d)
             S == {i \in 0..(n - 1) : i = 0 \/ d[i + 1] # d[i]}
  <1>1. PICK a : a = Ascending(S, n)
    OBVIOUS
  <1>2. e = [n |-> n, starts |-> a, composed |-> composed,
             values |-> [k \in DOMAIN a |-> d[a[k] + 1]]]
    BY <1>1, RunLengthContract DEF RL!Encode
  <1>3. n \in Nat
    OBVIOUS
  <1> HIDE DEF e
  <1>4. Ascends(a, S, n)
    <2> HIDE DEF S, n
    <2> QED
      BY <1>1, <1>3, AscendingAscends
  <1>5. PICK m \in Nat : m = Len(a) /\ \A i \in 1..m : a[i] \in Nat /\ a[i] < n /\ a[i] \in S
    BY <1>4 DEF Ascends
  <1>6. \A i, j \in 1..m : i < j => a[i] < a[j]
    BY <1>4, <1>5 DEF Ascends
  <1>7. \A x \in Nat : x \in S /\ x < n => \E i \in 1..m : a[i] = x
    BY <1>4, <1>5 DEF Ascends
  <1> HIDE DEF n
  <1>8. /\ e.n = n /\ RL!NumRuns(e) = m
        /\ \A r : RL!RunStart(e, r) = a[r + 1]
        /\ \A r : RL!RunEnd(e, r) = IF r + 1 < m THEN a[(r + 1) + 1] ELSE n
        /\ \A r \in 0..(m - 1) : RL!RunValue(e, r) = d[a[r + 1] + 1]
    <2>1. DOMAIN a = 1..m
      BY <1>4, <1>5 DEF Ascends
    <2>2. \A r \in 0..(m - 1) : r + 1 \in 1..m
      OBVIOUS
    <2>3. QED
      BY <1>2, <1>5, <2>1, <2>2 DEF RL!NumRuns, RL!RunStart, RL!RunEnd, RL!RunValue
  <1>9. m = 0 <=> n = 0
    <2>1. n > 0 => 0 \in S
      BY <1>3
    <2>2. n > 0 => m > 0
      <3>1. ASSUME n > 0 PROVE \E i \in 1..m : a[i] = 0
        BY <1>7, <2>1, <3>1
      <3>2. (\E i \in 1..m : a[i] = 0) => m > 0
        OBVIOUS
      <3>3. QED
        BY <3>1, <3>2
    <2>3. m > 0 => n > 0
      BY <1>3, <1>5
    <2>4. QED
      BY <1>3, <2>2, <2>3
  <1>10. m > 0 => a[1] = 0
    <2>1. ASSUME m > 0 PROVE a[1] = 0
      <3>1. 0 \in S /\ 0 < n
        BY <1>3, <1>9, <2>1
      <3>2. PICK i \in 1..m : a[i] = 0
        BY <1>7, <3>1
      <3>3. QED
        BY <1>5, <1>6, <2>1, <3>2
    <2>2. QED
      BY <2>1
  <1>11. ASSUME NEW r \in 0..(m - 1)
         PROVE  /\ RL!RunStart(e, r) \in Nat /\ RL!RunEnd(e, r) \in Nat
                /\ RL!RunStart(e, r) < RL!RunEnd(e, r) /\ RL!RunEnd(e, r) <= n
    <2>1. r + 1 \in 1..m /\ (r + 1 < m => (r + 1) + 1 \in 1..m /\ r + 1 < (r + 1) + 1)
      OBVIOUS
    <2>2. a[r + 1] \in Nat /\ a[r + 1] < n
      BY <1>5, <2>1
    <2>3. r + 1 < m => a[(r + 1) + 1] \in Nat /\ a[(r + 1) + 1] < n /\ a[r + 1] < a[(r + 1) + 1]
      BY <1>5, <1>6, <2>1
    <2>4. QED
      BY <1>3, <1>8, <2>2, <2>3
  <1>12. ASSUME NEW r \in 0..(m - 1), NEW q \in 0..(m - 1), r < q
         PROVE  RL!RunEnd(e, r) <= RL!RunStart(e, q)
    <2>1. r + 1 < m /\ (r + 1) + 1 \in 1..m /\ q + 1 \in 1..m /\ (r + 1) + 1 <= q + 1
      BY <1>12
    <2>2. RL!RunEnd(e, r) = a[(r + 1) + 1] /\ RL!RunStart(e, q) = a[q + 1]
      BY <1>8, <2>1
    <2>3. a[(r + 1) + 1] <= a[q + 1]
      <3>1. a[(r + 1) + 1] \in Nat /\ a[q + 1] \in Nat
        BY <1>5, <2>1
      <3>2. CASE (r + 1) + 1 = q + 1
        <4>1. a[(r + 1) + 1] = a[q + 1]
          BY <3>2
        <4>2. QED
          BY <3>1, <4>1
      <3>3. CASE (r + 1) + 1 < q + 1
        <4>1. a[(r + 1) + 1] < a[q + 1]
          BY <1>6, <2>1, <3>3
        <4>2. QED
          BY ONLY <3>1, <4>1
      <3>4. QED
        BY <2>1, <3>2, <3>3
    <2>4. QED
      BY <2>2, <2>3
  <1>13. ASSUME NEW r \in 0..(m - 1), NEW i \in Nat, InRun(e, r, i)
         PROVE  d[i + 1] = RL!RunValue(e, r)
    <2>1. PICK x \in Nat : x = a[r + 1] /\ r + 1 \in 1..m
      BY <1>5
    <2>2. PICK y \in Nat : y = RL!RunEnd(e, r)
      BY <1>11
    <2> DEFINE P == {k \in Nat : x + k < y => d[(x + k) + 1] = d[x + 1]}
    <2>3. 0 \in P
      OBVIOUS
    <2>4. ASSUME NEW k \in Nat, k \in P PROVE k + 1 \in P
      <3>1. SUFFICES ASSUME x + (k + 1) < y PROVE d[(x + (k + 1)) + 1] = d[x + 1]
        OBVIOUS
      <3>2. PICK z \in Nat : z = x + (k + 1) /\ z > x /\ z < y /\ (x + k) + 1 = z
        BY <3>1
      <3>3. y <= n
        BY <1>11, <2>2
      <3>4. z \notin S
        <4>1. SUFFICES ASSUME z \in S PROVE FALSE
          OBVIOUS
        <4>2. PICK j \in 1..m : a[j] = z
          BY <1>3, <1>7, <3>2, <3>3, <4>1
        <4>3. j > r + 1
          <5>1. PICK l \in 1..m : l = r + 1 /\ a[l] = x
            BY <2>1
          <5>2. a[l] < a[j]
            BY <3>2, <4>2, <5>1
          <5>3. ~ j < l /\ j # l
            BY <1>5, <1>6, <5>2
          <5>4. QED
            BY <5>1, <5>3
        <4>4. r + 1 < m /\ (r + 1) + 1 \in 1..m
          BY <4>3
        <4>5. y = a[(r + 1) + 1]
          BY <1>8, <2>2, <4>4
        <4>6. (r + 1) + 1 = j \/ (r + 1) + 1 < j
          BY <4>3
        <4>7. a[(r + 1) + 1] <= z
          BY <1>5, <1>6, <4>2, <4>4, <4>6
        <4>8. QED
          BY <3>2, <4>5, <4>7
      <3>5. z \in 0..(n - 1) /\ z # 0
        BY <1>3, <3>2, <3>3
      <3>6. d[z + 1] = d[z]
        BY <3>4, <3>5 DEF S
      <3>7. d[(x + k) + 1] = d[x + 1]
        <4>1. x + k < y
          BY <3>2
        <4>2. QED
          BY <2>4, <4>1
      <3>8. QED
        BY <3>2, <3>6, <3>7
    <2> HIDE DEF P
    <2>5. \A k \in Nat : k \in P
      BY <2>3, <2>4, InductionOnNat
    <2>6. PICK k \in Nat : i = x + k /\ x + k < y
      <3>1. x <= i /\ i < y
        BY <1>8, <2>1, <2>2, <1>13 DEF InRun
      <3>2. i - x \in Nat /\ i = x + (i - x)
        BY <3>1
      <3>3. QED
        BY <3>1, <3>2
    <2>7. d[(x + k) + 1] = d[x + 1]
      BY <2>5, <2>6 DEF P
    <2>8. QED
      BY <1>8, <2>1, <2>6, <2>7
  <1>14. m > 0 => RL!RunEnd(e, m - 1) = n
    BY <1>8
  <1>15. \A r \in 0..(m - 2) : RL!RunEnd(e, r) = RL!RunStart(e, r + 1)
    BY <1>8
  <1>16. m > 0 => RL!RunStart(e, 0) = 0
    BY <1>8, <1>10
  <1> HIDE DEF S
  <1>0. [e EXCEPT !.n = n] = e
    BY <1>2
  <1>17. IsRuns(e, d)
    BY <1>0, <1>8, <1>9, <1>11, <1>12, <1>13, <1>14, <1>15, <1>16 DEF IsRuns, n
  <1>18. QED
    BY <1>17 DEF e

\* The first of the runs that starts too late.
LEMMA UpperBoundIs ==
    ASSUME NEW e, NEW lo \in Nat, NEW hi \in Nat, lo <= hi, NEW i, NEW u, u = RL!UpperBound(e, lo, hi, i)
    PROVE  /\ u \in lo..hi /\ (u < hi => RL!RunStart(e, u) > i)
           /\ \A r \in lo..(u - 1) : ~(RL!RunStart(e, r) > i)
  <1> DEFINE T == {r \in lo..(hi - 1) : RL!RunStart(e, r) > i} \cup {hi}
  <1>1. T \subseteq Nat /\ T # {} /\ T \subseteq lo..hi
    OBVIOUS
  <1>2. \A r \in T : r < hi => RL!RunStart(e, r) > i
    OBVIOUS
  <1>3. \A r \in lo..(hi - 1) : RL!RunStart(e, r) > i => r \in T
    OBVIOUS
  <1>4. u = CHOOSE x \in T : \A y \in T : x <= y
    BY DEF RL!UpperBound, RL!Min
  <1> HIDE DEF T
  <1>5. u \in T /\ \A y \in T : u <= y
    <2>1. \E x \in T : \A y \in T : x <= y
      BY <1>1, LeastNatural
    <2>2. QED
      BY <1>4, <2>1
  <1>6. u \in lo..hi
    BY <1>1, <1>5
  <1>7. ASSUME NEW r \in lo..(u - 1) PROVE ~(RL!RunStart(e, r) > i)
    <2>1. r \in lo..(hi - 1) /\ ~(u <= r)
      BY <1>6
    <2>2. QED
      BY <1>3, <1>5, <2>1
  <1>8. QED
    BY <1>2, <1>5, <1>6, <1>7

\* The run before it has the row, if no run before them starts too late.
LEMMA LastBefore ==
    ASSUME NEW d \in Seq(Int), NEW e, IsRuns(e, d), NEW i \in Nat, i < Len(d),
           NEW lo \in Nat, NEW hi \in Nat, lo <= hi, hi <= RL!NumRuns(e),
           lo > 0 => RL!RunStart(e, lo - 1) <= i,
           hi < RL!NumRuns(e) => RL!RunStart(e, hi) > i,
           NEW u, u = RL!UpperBound(e, lo, hi, i)
    PROVE  u - 1 \in Nat /\ lo - 1 <= u - 1 /\ u - 1 < hi /\ InRun(e, u - 1, i)
  <1>1. PICK m \in Nat : m = RL!NumRuns(e) /\ m > 0
    <2>1. RL!NumRuns(e) \in Nat /\ RL!NumRuns(e) # 0
      BY DEF IsRuns
    <2>2. QED
      BY <2>1
  <1>2. /\ u \in lo..hi /\ (u < hi => RL!RunStart(e, u) > i)
        /\ \A r \in lo..(u - 1) : ~(RL!RunStart(e, r) > i)
    BY UpperBoundIs
  <1>3. \A r \in 0..(m - 1) : RL!RunStart(e, r) \in Nat /\ RL!RunEnd(e, r) \in Nat
    BY <1>1 DEF IsRuns
  <1>4. u < m => RL!RunStart(e, u) > i
    BY <1>1, <1>2
  <1>5. u # 0
    <2>1. RL!RunStart(e, 0) = 0
      BY <1>1 DEF IsRuns
    <2>2. u = 0 => 0 > i
      BY <1>1, <1>4, <2>1
    <2>3. QED
      BY <2>2
  <1>6. PICK r \in Nat : r = u - 1 /\ r \in 0..(m - 1) /\ r + 1 = u
    BY <1>1, <1>2, <1>5
  <1>7. RL!RunStart(e, r) <= i
    <2>1. CASE r >= lo
      <3>1. r \in lo..(u - 1)
        BY <1>6, <2>1
      <3>2. QED
        BY <1>2, <1>3, <1>6, <3>1
    <2>2. CASE r < lo
      <3>1. r = lo - 1 /\ lo > 0
        BY <1>2, <1>6, <2>2
      <3>2. QED
        BY <3>1
    <2>3. QED
      BY <2>1, <2>2
  <1>8. i < RL!RunEnd(e, r)
    <2>1. CASE u < m
      <3>1. r \in 0..(m - 2)
        BY <1>6, <2>1
      <3>2. RL!RunEnd(e, r) = RL!RunStart(e, r + 1)
        BY <1>1, <3>1 DEF IsRuns
      <3>3. RL!RunStart(e, u) > i /\ RL!RunEnd(e, r) \in Nat
        BY <1>3, <1>4, <1>6, <2>1
      <3>4. QED
        BY <1>6, <3>2, <3>3
    <2>2. CASE ~(u < m)
      <3>1. r = m - 1
        BY <1>1, <1>2, <1>6, <2>2
      <3>2. QED
        BY <1>1, <3>1 DEF IsRuns
    <2>3. QED
      BY <2>1, <2>2
  <1>9. InRun(e, r, i)
    BY <1>1, <1>6, <1>7, <1>8 DEF InRun
  <1>10. QED
    BY <1>2, <1>6, <1>9

\* Every row is of one run.
LEMMA RunOfRow ==
    ASSUME NEW d \in Seq(Int), NEW e, IsRuns(e, d), NEW i \in Nat, i < Len(d)
    PROVE  /\ \E r : InRun(e, r, i)
           /\ \A r, q : InRun(e, r, i) /\ InRun(e, q, i) => r = q
  <1>1. PICK m \in Nat : m = RL!NumRuns(e)
    BY DEF IsRuns
  <1>2. \E r : InRun(e, r, i)
    <2>1. PICK u : u = RL!UpperBound(e, 0, m, i)
      OBVIOUS
    <2>2. InRun(e, u - 1, i)
      <3>1. 0 <= m /\ m <= RL!NumRuns(e) /\ ~(0 > 0) /\ ~(m < RL!NumRuns(e)) /\ 0 \in Nat
        BY <1>1
      <3>2. QED
        BY <2>1, <3>1, LastBefore
    <2>3. QED
      BY <2>2
  <1>3. ASSUME NEW r, NEW q, InRun(e, r, i), InRun(e, q, i), r < q PROVE FALSE
    <2>1. r \in 0..(m - 1) /\ q \in 0..(m - 1)
      BY <1>1, <1>3 DEF InRun
    <2>2. PICK x \in Nat, y \in Nat : x = RL!RunEnd(e, r) /\ y = RL!RunStart(e, q) /\ x <= y
      BY <1>1, <1>3, <2>1 DEF IsRuns
    <2>3. i < x /\ y <= i
      BY <1>3, <2>2 DEF InRun
    <2>4. QED
      BY <2>2, <2>3
  <1>4. ASSUME NEW r, NEW q, InRun(e, r, i), InRun(e, q, i) PROVE r = q
    <2>1. r \in 0..(m - 1) /\ q \in 0..(m - 1)
      BY <1>1, <1>4 DEF InRun
    <2>2. ~(r < q) /\ ~(q < r)
      BY <1>3, <1>4
    <2>3. QED
      BY <2>1, <2>2
  <1>5. QED
    BY <1>2, <1>4

\* A part of a product.
LEMMA QuotientWithin ==
    ASSUME NEW i \in Nat, NEW k \in Nat, NEW c \in Nat \ {0}, i <= c
    PROVE  (i * k) \div c \in 0..k
  <1>1. PICK p \in Nat : p = i * k
    OBVIOUS
  <1>0. PICK q : q = p \div c
    OBVIOUS
  <1>2. q \in Nat /\ q * c <= p
    BY <1>0
  <1>3. p <= c * k
    BY <1>1
  <1>4. q <= k
    <2>1. SUFFICES ASSUME q >= k + 1 PROVE FALSE
      BY <1>2
    <2>2. q * c >= (k + 1) * c
      BY <1>2, <2>1
    <2>3. (k + 1) * c = c * k + c
      OBVIOUS
    <2>4. QED
      BY <1>1, <1>2, <1>3, <2>2, <2>3
  <1>5. QED
    BY <1>0, <1>1, <1>2, <1>4

\* Interpolation finds the run of a row.
LEMMA RawFinds ==
    ASSUME NEW d \in Seq(Int), NEW e, IsRuns(e, d), NEW i \in Nat, i < Len(d)
    PROVE  InRun(e, RL!FindRunRaw(e, i), i)
  <1>1. PICK m \in Nat, n \in Nat : m = RL!NumRuns(e) /\ n = Len(d) /\ e.n = n /\ m > 0
    <2>1. RL!NumRuns(e) \in Nat /\ RL!NumRuns(e) # 0 /\ e.n = Len(d)
      BY DEF IsRuns
    <2>2. QED
      BY <2>1
  <1>2. \A r \in 0..(m - 1) : RL!RunStart(e, r) \in Nat /\ RL!RunEnd(e, r) \in Nat
                                /\ RL!RunStart(e, r) < RL!RunEnd(e, r) /\ RL!RunEnd(e, r) <= n
    BY <1>1 DEF IsRuns
  <1>3. RL!RunStart(e, 0) = 0 /\ RL!RunEnd(e, m - 1) = n
    BY <1>1 DEF IsRuns
  <1>4. CASE m = 1
    <2>1. RL!FindRunRaw(e, i) = 0
      BY <1>1, <1>4 DEF RL!FindRunRaw
    <2>2. QED
      BY <1>1, <1>3, <1>4, <2>1 DEF InRun
  <1>5. CASE m # 1
    <2>1. n - 1 \in Nat \ {0} /\ i <= n - 1 /\ m - 1 \in Nat
      <3>1. RL!RunEnd(e, 0) <= RL!RunStart(e, 1) /\ 0 \in 0..(m - 1) /\ 1 \in 0..(m - 1)
        <4>1. 0 \in 0..(m - 1) /\ 1 \in 0..(m - 1) /\ 0 < 1
          BY <1>1, <1>5
        <4>2. \A r, q \in 0..(m - 1) : r < q => RL!RunEnd(e, r) <= RL!RunStart(e, q)
          BY <1>1 DEF IsRuns
        <4>3. QED
          BY ONLY <4>1, <4>2
      <3>2. RL!RunStart(e, 1) < n /\ RL!RunStart(e, 1) > 0
        BY <1>2, <1>3, <3>1
      <3>3. QED
        <4>1. RL!RunStart(e, 1) \in Nat /\ RL!RunStart(e, 1) # 0
          BY <1>2, <1>3, <3>1, <3>2
        <4>2. n > 1
          BY <3>2, <4>1
        <4>3. m - 1 \in Nat /\ n - 1 \in Nat \ {0} /\ n \in Nat /\ i \in Nat
          BY <1>1, <4>2
        <4>4. i < n
          BY <1>1
        <4>5. QED
          BY ONLY <4>3, <4>4
    <2>2. PICK guess : guess = RL!Guess(e, i)
      OBVIOUS
    <2>3. guess \in 0..(m - 1)
      <3>1. guess = (i * (m - 1)) \div (n - 1)
        BY <1>1, <2>2 DEF RL!Guess
      <3>2. QED
        BY <2>1, <3>1, QuotientWithin
    <2>4. guess \in Nat /\ guess + 1 \in Nat /\ guess + 1 <= m
      BY <2>3
    <2>5. CASE RL!RunStart(e, guess) > i
      <3>1. PICK u : u = RL!UpperBound(e, 0, guess, i)
        OBVIOUS
      <3>2. RL!FindRunRaw(e, i) = u - 1
        BY <1>1, <1>5, <2>2, <2>5, <3>1 DEF RL!FindRunRaw
      <3>3. InRun(e, u - 1, i)
        <4>1. 0 <= guess /\ guess <= RL!NumRuns(e) /\ ~(0 > 0) /\ 0 \in Nat
          BY <1>1, <2>3
        <4>2. QED
          BY <2>4, <2>5, <3>1, <4>1, LastBefore
      <3>4. QED
        BY <3>2, <3>3
    <2>6. CASE ~(RL!RunStart(e, guess) > i) /\ (guess + 1 = m \/ RL!RunStart(e, guess + 1) > i)
      <3>1. RL!FindRunRaw(e, i) = guess
        BY <1>1, <1>5, <2>2, <2>6 DEF RL!FindRunRaw
      <3>2. RL!RunStart(e, guess) <= i
        BY <1>2, <2>3, <2>6
      <3>3. i < RL!RunEnd(e, guess)
        <4>1. CASE guess + 1 = m
          BY <1>1, <1>3, <4>1, <2>3
        <4>2. CASE guess + 1 # m
          <5>1. guess \in 0..(m - 2)
            BY <2>3, <4>2
          <5>2. RL!RunEnd(e, guess) = RL!RunStart(e, guess + 1) /\ RL!RunEnd(e, guess) \in Nat
            BY <1>1, <1>2, <2>3, <5>1 DEF IsRuns
          <5>3. QED
            BY <2>6, <4>2, <5>2
        <4>3. QED
          BY <4>1, <4>2
      <3>4. QED
        BY <1>1, <2>3, <3>1, <3>2, <3>3 DEF InRun
    <2>7. CASE ~(RL!RunStart(e, guess) > i) /\ ~(guess + 1 = m \/ RL!RunStart(e, guess + 1) > i)
      <3>0. PICK lo \in Nat : lo = guess + 1
        BY <2>4
      <3>1. PICK u : u = RL!UpperBound(e, lo, m, i)
        OBVIOUS
      <3>2. RL!FindRunRaw(e, i) = u - 1
        BY <1>1, <1>5, <2>2, <2>7, <3>0, <3>1 DEF RL!FindRunRaw
      <3>3. InRun(e, u - 1, i)
        <4>1. lo <= m /\ m <= RL!NumRuns(e) /\ ~(m < RL!NumRuns(e)) /\ lo - 1 = guess
          BY <1>1, <2>3, <3>0
        <4>2. RL!RunStart(e, lo - 1) <= i
          BY <1>2, <2>3, <2>7, <4>1
        <4>3. QED
          BY <3>1, <4>1, <4>2, LastBefore
      <3>4. QED
        BY <3>2, <3>3
    <2>8. QED
      BY <2>5, <2>6, <2>7
  <1>6. QED
    BY <1>4, <1>5

\* Bisection does too.
LEMMA ComposedFinds ==
    ASSUME NEW d \in Seq(Int), NEW e, IsRuns(e, d), NEW i \in Nat, i < Len(d)
    PROVE  InRun(e, RL!FindRunComposed(e, i), i)
  <1>1. PICK m \in Nat, n \in Nat : m = RL!NumRuns(e) /\ n = Len(d) /\ m > 0
    <2>1. RL!NumRuns(e) \in Nat /\ RL!NumRuns(e) # 0
      BY DEF IsRuns
    <2>2. QED
      BY <2>1
  <1>2. \A r \in 0..(m - 1) : RL!RunStart(e, r) \in Nat /\ RL!RunEnd(e, r) \in Nat
    BY <1>1 DEF IsRuns
  <1> DEFINE D == (0..m) \X (0..m)
             Mid(p) == p[1] + (p[2] - p[1]) \div 2
             Half(g, p) == IF p[1] + 1 >= p[2] THEN p[1]
                           ELSE IF RL!RunStart(e, Mid(p)) <= i THEN g[<<Mid(p), p[2]>>]
                           ELSE g[<<p[1], Mid(p)>>]
             F == [g \in [D -> Nat] |-> [p \in D |-> Half(g, p)]]
             rank == [p \in D |-> IF p[1] <= p[2] THEN p[2] - p[1] ELSE 0]
             bisect == CHOOSE g : g = [p \in D |-> Half(g, p)]
  <1>3. ASSUME NEW p \in D, ~(p[1] + 1 >= p[2])
        PROVE  /\ Mid(p) \in Nat /\ p[1] < Mid(p) /\ Mid(p) < p[2] /\ p[1] \in Nat /\ p[2] \in Nat /\ p[2] <= m
               /\ <<Mid(p), p[2]>> \in D /\ <<p[1], Mid(p)>> \in D
               /\ rank[<<Mid(p), p[2]>>] < rank[p] /\ rank[<<p[1], Mid(p)>>] < rank[p]
    <2>1. PICK lo \in 0..m, hi \in 0..m : p = <<lo, hi>>
      OBVIOUS
    <2>2. lo + 2 <= hi
      BY <1>3, <2>1
    <2>3. PICK mid \in Nat : mid = Mid(p) /\ lo < mid /\ mid < hi
      <3>1. lo + (hi - lo) \div 2 > lo /\ lo + (hi - lo) \div 2 < hi /\ lo + (hi - lo) \div 2 \in Nat
        BY <2>2
      <3>2. QED
        BY <2>1, <3>1
    <2>4. mid \in 0..m
      BY <2>3
    <2>5. rank[<<mid, hi>>] = hi - mid /\ rank[<<lo, mid>>] = mid - lo /\ rank[<<lo, hi>>] = hi - lo
      <3>1. \A x, y \in 0..m : x <= y => rank[<<x, y>>] = y - x
        <4>1. ASSUME NEW x \in 0..m, NEW y \in 0..m, x <= y PROVE rank[<<x, y>>] = y - x
          <5>1. <<x, y>> \in D /\ <<x, y>>[1] = x /\ <<x, y>>[2] = y
            OBVIOUS
          <5> HIDE DEF D
          <5>2. QED
            BY <4>1, <5>1
        <4> HIDE DEF rank
        <4>2. QED
          BY <4>1
      <3>2. lo <= hi /\ mid <= hi /\ lo <= mid
        <4>1. lo \in Nat /\ hi \in Nat /\ mid \in Nat
          BY <2>3
        <4>2. QED
          BY ONLY <2>2, <2>3, <4>1
      <3> HIDE DEF rank
      <3>3. QED
        BY <2>4, <3>1, <3>2
    <2> HIDE DEF Mid, rank
    <2>6. <<mid, hi>> \in D /\ <<lo, mid>> \in D
      BY <2>4
    <2>7. rank[<<mid, hi>>] < rank[<<lo, hi>>] /\ rank[<<lo, mid>>] < rank[<<lo, hi>>]
      <3>1. lo \in Nat /\ hi \in Nat /\ mid \in Nat
        BY <2>3
      <3>2. hi - mid < hi - lo /\ mid - lo < hi - lo
        BY ONLY <2>3, <3>1
      <3>3. QED
        BY ONLY <2>5, <3>2
    <2>8. p[1] = lo /\ p[2] = hi
      BY <2>1
    <2> HIDE DEF D
    <2>9. QED
      BY ONLY <2>1, <2>3, <2>6, <2>7, <2>8
  <1>4. Ranked(D, Nat, F, rank, m + 1)
    <2>1. ASSUME NEW g \in [D -> Nat], NEW p \in D PROVE Half(g, p) \in Nat
      <3>1. p[1] \in Nat
        OBVIOUS
      <3> HIDE DEF Mid, D
      <3>2. QED
        BY <1>3, <3>1
    <2>2. F \in [[D -> Nat] -> [D -> Nat]]
      <3> HIDE DEF D, Half
      <3> QED
        BY <2>1
    <2>3. rank \in [D -> Nat] /\ m + 1 \in Nat /\ \A p \in D : rank[p] < m + 1
      OBVIOUS
    <2>4. ASSUME NEW g \in [D -> Nat], NEW h \in [D -> Nat], NEW p \in D,
                 \A q \in D : rank[q] < rank[p] => g[q] = h[q]
          PROVE  F[g][p] = F[h][p]
      <3>1. Half(g, p) = Half(h, p)
        <4> HIDE DEF Mid, D, rank
        <4> QED
          BY <1>3, <2>4
      <3>2. F[g][p] = Half(g, p) /\ F[h][p] = Half(h, p)
        <4> HIDE DEF D, Half
        <4> QED
          OBVIOUS
      <3>3. QED
        BY <3>1, <3>2
    <2> HIDE DEF F, rank, D
    <2>5. QED
      BY <2>2, <2>3, <2>4 DEF Ranked
  <1>5. bisect = [p \in D |-> Half(bisect, p)]
    <2>1. PICK g \in [D -> Nat] : F[g] = g
      <3> HIDE DEF D, F, rank
      <3>1. 0 \in Nat
        OBVIOUS
      <3>2. QED
        BY ONLY <1>4, <3>1, CourseOfValues, SMTT(30)
    <2>2. g = [p \in D |-> Half(g, p)]
      <3> HIDE DEF D, Half
      <3> QED
        BY <2>1
    <2> HIDE DEF D, Half
    <2>3. QED
      BY <2>2
  <1> HIDE DEF bisect
  <1> DEFINE Encloses(lo, hi) == /\ lo \in Nat /\ hi \in Nat /\ lo < hi /\ hi <= m
                                 /\ RL!RunStart(e, lo) <= i
                                 /\ hi < m => RL!RunStart(e, hi) > i
             P == {k \in Nat : \A lo, hi \in Nat :
                      Encloses(lo, hi) /\ hi - lo = k => InRun(e, bisect[<<lo, hi>>], i)}
  <1>6. ASSUME NEW k \in Nat, \A j \in Nat : j < k => j \in P PROVE k \in P
    <2>1. SUFFICES ASSUME NEW lo \in Nat, NEW hi \in Nat, Encloses(lo, hi), hi - lo = k
                   PROVE  InRun(e, bisect[<<lo, hi>>], i)
      OBVIOUS
    <2>2. PICK p : p = <<lo, hi>> /\ p \in D /\ p[1] = lo /\ p[2] = hi
      <3>1. lo \in 0..m /\ hi \in 0..m
        BY <2>1
      <3>2. <<lo, hi>> \in D /\ <<lo, hi>>[1] = lo /\ <<lo, hi>>[2] = hi
        BY <3>1
      <3> HIDE DEF D
      <3>3. QED
        BY <3>2
    <2>3. bisect[p] = Half(bisect, p)
      <3> HIDE DEF D, Half
      <3> QED
        BY <1>5, <2>2
    <2>4. CASE lo + 1 >= hi
      <3>1. bisect[p] = lo /\ lo + 1 = hi
        BY <2>1, <2>2, <2>3, <2>4
      <3>2. i < RL!RunEnd(e, lo)
        <4>1. CASE hi < m
          <5>1. lo \in 0..(m - 2) /\ lo \in 0..(m - 1) /\ hi \in 0..(m - 1)
            BY <3>1, <4>1
          <5>2. RL!RunEnd(e, lo) = RL!RunStart(e, hi)
            BY <1>1, <3>1, <5>1 DEF IsRuns
          <5>3. QED
            BY <1>2, <2>1, <4>1, <5>1, <5>2
        <4>2. CASE ~(hi < m)
          <5>1. lo = m - 1
            BY <2>1, <3>1, <4>2
          <5>2. QED
            BY <1>1, <5>1 DEF IsRuns
        <4>3. QED
          BY <4>1, <4>2
      <3>3. lo \in 0..(RL!NumRuns(e) - 1)
        BY <1>1, <2>1
      <3>4. QED
        BY <2>1, <2>2, <3>1, <3>2, <3>3 DEF InRun
    <2>5. CASE ~(lo + 1 >= hi)
      <3>1. PICK mid \in Nat : mid = Mid(p) /\ lo < mid /\ mid < hi
        <4> HIDE DEF D, Mid, rank
        <4> QED
          BY <1>3, <2>2, <2>5
      <3>2. mid \in 0..(m - 1)
        BY <2>1, <3>1
      <3>3. CASE RL!RunStart(e, mid) <= i
        <4>1. bisect[p] = bisect[<<mid, hi>>]
          <5> HIDE DEF D, Mid
          <5> QED
            BY <2>2, <2>3, <2>5, <3>1, <3>3
        <4>2. Encloses(mid, hi) /\ hi - mid \in Nat /\ hi - mid < k
          BY <2>1, <3>1, <3>3
        <4>3. hi - mid \in P
          BY <1>6, <4>2
        <4>4. InRun(e, bisect[<<mid, hi>>], i)
          BY <4>2, <4>3
        <4>5. QED
          BY <2>2, <4>1, <4>4
      <3>4. CASE ~(RL!RunStart(e, mid) <= i)
        <4>1. bisect[p] = bisect[<<lo, mid>>]
          <5> HIDE DEF D, Mid
          <5> QED
            BY <2>2, <2>3, <2>5, <3>1, <3>4
        <4>2. RL!RunStart(e, mid) > i
          BY <1>2, <3>2, <3>4
        <4>3. Encloses(lo, mid) /\ mid - lo \in Nat /\ mid - lo < k
          BY <2>1, <3>1, <3>2, <4>2
        <4>4. mid - lo \in P
          BY <1>6, <4>3
        <4>5. InRun(e, bisect[<<lo, mid>>], i)
          BY <4>3, <4>4
        <4>6. QED
          BY <2>2, <4>1, <4>5
      <3>5. QED
        BY <3>3, <3>4
    <2>6. QED
      BY <2>4, <2>5
  <1>7. \A k \in Nat : k \in P
    <2> HIDE DEF P
    <2> QED
      BY <1>6, StrongInduction
  <1>8. InRun(e, bisect[<<0, m>>], i)
    <2>1. Encloses(0, m)
      <3>1. RL!RunStart(e, 0) = 0
        BY <1>1 DEF IsRuns
      <3>2. QED
        BY <1>1, <3>1
    <2>2. m \in P
      <3> HIDE DEF P
      <3> QED
        BY <1>7
    <2>3. m - 0 = m
      OBVIOUS
    <2>4. QED
      BY <2>1, <2>2, <2>3
  <1>9. RL!FindRunComposed(e, i) = bisect[<<0, m>>]
    BY <1>1 DEF RL!FindRunComposed, bisect
  <1>10. QED
    BY <1>8, <1>9

\* The run of a row is found.
LEMMA FindRunFinds ==
    ASSUME NEW d \in Seq(Int), NEW e, IsRuns(e, d), NEW i \in Nat, i < Len(d)
    PROVE  InRun(e, RL!FindRun(e, i), i)
  BY RawFinds, ComposedFinds DEF RL!FindRun

\* The greatest of a few numbers.
LEMMA GreatestIs ==
    ASSUME NEW k \in Nat, NEW T, T \subseteq 0..k, T # {}
    PROVE  RL!Max(T) \in T /\ \A y \in T : y <= RL!Max(T)
  <1> DEFINE U == {j \in Nat : k - j \in T}
  <1>1. U \subseteq Nat
    OBVIOUS
  <1>2. PICK x0 \in T : x0 \in 0..k
    OBVIOUS
  <1>3. k - x0 \in Nat /\ k - (k - x0) = x0
    BY <1>2
  <1>4. U # {}
    BY <1>2, <1>3
  <1>5. PICK j \in U : \A l \in U : j <= l
    <2> HIDE DEF U
    <2> QED
      BY <1>1, <1>4, LeastNatural
  <1>6. k - j \in T /\ k - j \in Int
    BY <1>5
  <1>7. ASSUME NEW y \in T PROVE y <= k - j
    <2>1. y \in 0..k /\ k - y \in Nat /\ k - (k - y) = y
      OBVIOUS
    <2>2. k - y \in U
      BY <2>1
    <2>3. j <= k - y
      BY <1>5, <2>2
    <2>4. QED
      BY <2>1, <2>3, <1>5
  <1>8. \E x \in T : \A y \in T : x >= y
    <2>1. \A y \in T : k - j >= y
      <3>1. \A y \in T : y \in Int
        OBVIOUS
      <3>2. QED
        BY <1>6, <1>7, <3>1
    <2>2. QED
      BY <1>6, <2>1
  <1>9. RL!Max(T) \in T /\ \A y \in T : RL!Max(T) >= y
    BY <1>8 DEF RL!Max
  <1>10. \A y \in T : y \in Int
    OBVIOUS
  <1>11. QED
    BY <1>9, <1>10

\* Filling gives the rows asked for, and a run that starts before their end.
LEMMA FilledIs ==
    ASSUME NEW d \in Seq(Int), NEW e, IsRuns(e, d), NEW start \in Nat, NEW end \in Nat,
           start < end, end <= Len(d), NEW seed \in 0..(RL!NumRuns(e) - 1),
           RL!RunStart(e, seed) <= start
    PROVE  /\ RL!Filled(e, start, end, seed).rows = Slice(d, start, end)
           /\ RL!Filled(e, start, end, seed).run \in 0..(RL!NumRuns(e) - 1)
           /\ RL!RunStart(e, RL!Filled(e, start, end, seed).run) < end
  <1>1. PICK m \in Nat : m = RL!NumRuns(e)
    BY DEF IsRuns
  <1>2. \A r \in 0..(m - 1) : RL!RunStart(e, r) \in Nat /\ RL!RunEnd(e, r) \in Nat
    BY <1>1 DEF IsRuns
  <1>3. PICK from : from = RL!Skipped(e, seed, start)
    OBVIOUS
  <1>4. from \in Nat /\ InRun(e, from, start)
    <2>1. PICK lo \in Nat : lo = seed + 1
      BY <1>1
    <2>2. PICK u : u = RL!UpperBound(e, lo, m, start)
      OBVIOUS
    <2>3. lo <= m /\ m <= RL!NumRuns(e) /\ ~(m < RL!NumRuns(e)) /\ lo - 1 = seed
      BY <1>1, <2>1
    <2>4. start < Len(d)
      OBVIOUS
    <2>5. u - 1 \in Nat /\ InRun(e, u - 1, start)
      BY <2>2, <2>3, <2>4, LastBefore
    <2>6. from = u - 1
      BY <1>1, <1>3, <2>1, <2>2 DEF RL!Skipped
    <2>7. QED
      BY <2>5, <2>6
  <1> DEFINE used == {r \in from..(m - 1) : RL!RunStart(e, r) < end}
             Has(r, row) == RL!RunStart(e, r) <= row /\ row < RL!RunEnd(e, r)
             rows == [k \in 1..(end - start) |->
                         IF \E r \in used : Has(r, start + k - 1)
                         THEN RL!RunValue(e, CHOOSE r \in used : Has(r, start + k - 1))
                         ELSE RL!Junk]
  <1>5. RL!Filled(e, start, end, seed) = [rows |-> rows, run |-> RL!Max(used \cup {from})]
    BY <1>1, <1>3 DEF RL!Filled
  <1>6. from \in 0..(m - 1) /\ RL!RunStart(e, from) <= start
    BY <1>1, <1>4 DEF InRun
  <1>7. ASSUME NEW k \in 1..(end - start) PROVE rows[k] = d[start + k]
    <2>1. PICK row \in Nat : row = start + k - 1 /\ row + 1 = start + k /\ start <= row /\ row < end
      <3>1. start + k - 1 \in Nat /\ start + k - 1 + 1 = start + k
              /\ start <= start + k - 1 /\ start + k - 1 < end
        OBVIOUS
      <3>2. QED
        BY <3>1
    <2>2. row < Len(d)
      BY <2>1
    <2>3. PICK q : InRun(e, q, row)
      BY <2>2, RunOfRow
    <2>4. q \in 0..(m - 1) /\ RL!RunStart(e, q) <= row /\ row < RL!RunEnd(e, q)
      BY <1>1, <2>3 DEF InRun
    <2>5. ~(q < from)
      <3>1. SUFFICES ASSUME q < from PROVE FALSE
        OBVIOUS
      <3>2. RL!RunEnd(e, q) <= RL!RunStart(e, from)
        BY <1>1, <1>6, <2>4, <3>1 DEF IsRuns
      <3>3. QED
        BY <1>2, <1>6, <2>1, <2>4, <3>2
    <2>6. q \in used /\ Has(q, row)
      <3>1. RL!RunStart(e, q) < end /\ q \in from..(m - 1)
        BY <1>2, <1>6, <2>1, <2>4, <2>5
      <3>2. QED
        BY <2>4, <3>1
    <2>7. PICK r : r = CHOOSE x \in used : Has(x, row)
      OBVIOUS
    <2>8. r \in used /\ Has(r, row)
      <3> HIDE DEF used, Has
      <3> QED
        BY <2>6, <2>7
    <2>9. InRun(e, r, row) /\ r \in 0..(m - 1)
      BY <1>1, <1>6, <2>8 DEF InRun
    <2>10. d[row + 1] = RL!RunValue(e, r)
      BY <1>1, <2>9 DEF IsRuns
    <2>11. rows[k] = RL!RunValue(e, r)
      <3> HIDE DEF used, Has
      <3>1. \E x \in used : Has(x, row)
        BY <2>6
      <3>2. QED
        BY <2>1, <2>7, <3>1
    <2>12. QED
      BY <2>1, <2>10, <2>11
  <1>8. rows = Slice(d, start, end)
    <2>1. Clipped(d, start, end) = end - start /\ end - start \in Nat
      BY DEF Clipped, Greater, Lesser
    <2>2. \A k \in 1..(end - start) : d[start + k] \in Int
      <3>1. \A k \in 1..(end - start) : start + k \in 1..Len(d)
        OBVIOUS
      <3>2. QED
        BY <3>1
    <2>3. DOMAIN rows = 1..(end - start)
      OBVIOUS
    <2> HIDE DEF rows
    <2>4. PICK s : s = rows
      OBVIOUS
    <2>5. s = [k \in 1..(end - start) |-> d[start + k]]
      <3>1. rows = [k \in 1..(end - start) |-> rows[k]]
        BY DEF rows
      <3>2. QED
        BY <1>7, <2>4, <3>1
    <2>6. s \in Seq(Int) /\ Len(s) = Clipped(d, start, end)
      BY <2>1, <2>2, <2>5
    <2>7. \A k \in 1..Clipped(d, start, end) : s[k] = d[start + k]
      BY <2>1, <2>5
    <2>8. QED
      BY <2>4, <2>6, <2>7, SliceMade
  <1>9. PICK run : run = RL!Max(used \cup {from})
    OBVIOUS
  <1>10. run \in 0..(m - 1) /\ RL!RunStart(e, run) < end
    <2>1. PICK T : T = used \cup {from}
      OBVIOUS
    <2>2. T \subseteq 0..(m - 1) /\ T # {} /\ m - 1 \in Nat
      BY <1>6, <2>1
    <2>3. run \in T
      BY <1>9, <2>1, <2>2, GreatestIs
    <2>4. run \in used \/ run = from
      BY <2>1, <2>3
    <2>5. QED
      BY <1>2, <1>6, <2>2, <2>3, <2>4
  <1>11. QED
    <2> HIDE DEF rows, used
    <2> QED
      BY <1>1, <1>5, <1>8, <1>9, <1>10

-----------------------------------------------------------------------------
(* The entry points of RunLengthEncoder.                                   *)

\* All rows.
LEMMA RunsDecodeAll ==
    ASSUME NEW d \in Seq(Int), NEW e, IsRuns(e, d)
    PROVE  RL!DecodeAll(e) = Rows(d)
  <1>1. PICK m \in Nat : m = RL!NumRuns(e)
    BY DEF IsRuns
  <1>2. \A r \in 0..(m - 1) : /\ RL!RunStart(e, r) \in Nat /\ RL!RunEnd(e, r) \in Nat
                              /\ RL!RunStart(e, r) < RL!RunEnd(e, r) /\ RL!RunEnd(e, r) <= Len(d)
    BY <1>1 DEF IsRuns
  <1> DEFINE p == [k \in 1..m |-> [i \in 1..(RL!RunEnd(e, k - 1) - RL!RunStart(e, k - 1)) |->
                                      RL!RunValue(e, k - 1)]]
             b == [k \in 0..m |-> IF k = 0 THEN 0 ELSE RL!RunEnd(e, k - 1)]
  <1>3. ASSUME NEW k \in 1..m
        PROVE  /\ b[k - 1] = RL!RunStart(e, k - 1) /\ b[k] = RL!RunEnd(e, k - 1)
               /\ k - 1 \in 0..(m - 1)
    <2>1. k - 1 \in 0..(m - 1) /\ k - 1 \in 0..m /\ k \in 0..m /\ k # 0
      OBVIOUS
    <2>2. CASE k = 1
      BY <1>1, <2>1, <2>2 DEF IsRuns
    <2>3. CASE k # 1
      <3>1. PICK r \in 0..(m - 2) : r + 1 = k - 1 /\ r = (k - 1) - 1
        BY <2>3
      <3>2. RL!RunEnd(e, r) = RL!RunStart(e, r + 1)
        BY <1>1 DEF IsRuns
      <3>3. QED
        BY <2>1, <2>3, <3>1, <3>2
    <2>4. QED
      BY <2>2, <2>3
  <1>4. ASSUME NEW k \in 1..m
        PROVE  /\ b[k - 1] \in Nat /\ b[k] \in Nat /\ b[k] <= Len(d)
               /\ b[k - 1] <= b[k] /\ p[k] \in Seq(Int) /\ Len(p[k]) = b[k] - b[k - 1]
               /\ \A i \in 1..Len(p[k]) : p[k][i] = d[b[k - 1] + i]
    <2>1. PICK r \in 0..(m - 1) : r = k - 1
      BY <1>3
    <2>2. PICK x \in Nat, y \in Nat : x = RL!RunStart(e, r) /\ y = RL!RunEnd(e, r) /\ x < y /\ y <= Len(d)
      BY <1>2
    <2>3. b[k - 1] = x /\ b[k] = y
      BY <1>3, <2>1, <2>2
    <2>4. p[k] = [i \in 1..(y - x) |-> RL!RunValue(e, r)]
      BY <2>1, <2>2
    <2>5. ASSUME NEW i \in 1..(y - x) PROVE d[x + i] = RL!RunValue(e, r) /\ d[x + i] \in Int
      <3>1. PICK row \in Nat : row = x + i - 1 /\ row + 1 = x + i /\ x <= row /\ row < y
        <4>1. x + i - 1 \in Nat /\ x + i - 1 + 1 = x + i /\ x <= x + i - 1 /\ x + i - 1 < y
          OBVIOUS
        <4>2. QED
          BY <4>1
      <3>2. InRun(e, r, row)
        BY <1>1, <2>2, <3>1 DEF InRun
      <3>3. d[row + 1] = RL!RunValue(e, r)
        BY <1>1, <3>2 DEF IsRuns
      <3>4. row + 1 \in 1..Len(d)
        <4>1. PICK n \in Nat : n = Len(d)
          OBVIOUS
        <4>2. y <= n /\ row < y
          BY <2>2, <3>1, <4>1
        <4>3. row + 1 \in 1..n
          BY <4>2
        <4>4. QED
          BY <4>1, <4>3
      <3>5. QED
        BY <3>1, <3>3, <3>4
    <2>6. y - x \in Nat /\ 1 \in 1..(y - x)
      BY <2>2
    <2>7. RL!RunValue(e, r) \in Int
      BY <2>5, <2>6
    <2>8. p[k] \in Seq(Int) /\ Len(p[k]) = y - x
      <3>1. PICK v \in Int, w \in Nat : v = RL!RunValue(e, r) /\ w = y - x
        BY <2>6, <2>7
      <3>2. [i \in 1..w |-> v] \in Seq(Int) /\ Len([i \in 1..w |-> v]) = w
        OBVIOUS
      <3> HIDE DEF p
      <3>3. QED
        BY <2>4, <3>1, <3>2
    <2>9. \A i \in 1..(y - x) : p[k][i] = d[x + i]
      BY <2>4, <2>5
    <2> HIDE DEF p, b
    <2>10. QED
      BY <2>2, <2>3, <2>8, <2>9
  <1>5. Advances(p, b, m, d)
    <2>1. p \in Seq(Seq(Int)) /\ Len(p) = m
      <3>1. p = [k \in 1..m |-> p[k]] /\ m \in Nat
        OBVIOUS
      <3> HIDE DEF p, b
      <3>2. p \in [1..m -> Seq(Int)]
        BY <1>4, <3>1
      <3>3. QED
        BY ONLY <3>1, <3>2
    <2>2. \A k \in 0..m : b[k] \in Nat /\ b[k] <= Len(d)
      <3>1. b[0] = 0
        OBVIOUS
      <3>2. \A k \in 0..m : k = 0 \/ k \in 1..m
        OBVIOUS
      <3> HIDE DEF p, b
      <3>3. QED
        BY <1>4, <3>1, <3>2
    <2> HIDE DEF p, b
    <2>3. QED
      BY <1>4, <2>1, <2>2 DEF Advances
  <1>6. b[0] = 0 /\ b[m] = Len(d)
    BY <1>1 DEF IsRuns
  <1>7. Flat(p) = d
    <2> HIDE DEF p, b
    <2>1. Flat(p) = Slice(d, b[0], b[m])
      BY <1>5, Consecutive
    <2>2. QED
      BY <1>6, <2>1, SliceOfAll
  <1>8. RL!DecodeAll(e) = RL!Rows(RL!FlattenSeq(p))
    BY <1>1 DEF RL!DecodeAll
  <1>9. QED
    <2> HIDE DEF p
    <2> QED
      BY <1>7, <1>8, RunLengthContract

\* All rows into memory.
LEMMA RunsDecodeAllInto ==
    ASSUME NEW d \in Seq(Int), NEW e, IsRuns(e, d)
    PROVE  RL!DecodeAllInto(e, Len(d)) = Rows(d)
  <1>1. CASE RL!NumRuns(e) = 0
    <2>1. Len(d) = 0
      BY <1>1 DEF IsRuns
    <2>2. d = <<>>
      BY <2>1
    <2>3. RL!DecodeAllInto(e, Len(d)) = RL!Rows(<<>>)
      BY <1>1, <2>1 DEF RL!DecodeAllInto
    <2>4. QED
      BY <2>2, <2>3, RunLengthContract
  <1>2. CASE RL!NumRuns(e) # 0
    <2>1. [e EXCEPT !.n = Len(d)] = e
      BY DEF IsRuns
    <2>2. RL!DecodeAllInto(e, Len(d)) = RL!DecodeAll(e)
      BY <1>2, <2>1 DEF RL!DecodeAllInto
    <2>3. QED
      BY <2>2, RunsDecodeAll
  <1>3. QED
    BY <1>1, <1>2

\* One row.
LEMMA RunsDecodeAt ==
    ASSUME NEW d \in Seq(Int), NEW e, IsRuns(e, d), NEW i \in Nat
    PROVE  RL!DecodeAt(e, i) = IF i < Len(d) THEN Rows(<<d[i + 1]>>) ELSE Nullopt
  <1>1. e.n = Len(d) /\ Len(d) \in Nat /\ (RL!NumRuns(e) = 0 <=> Len(d) = 0)
    BY DEF IsRuns
  <1>2. CASE i < Len(d)
    <2>1. PICK r : r = RL!FindRun(e, i)
      OBVIOUS
    <2>2. InRun(e, r, i)
      BY <1>2, <2>1, FindRunFinds
    <2>3. d[i + 1] = RL!RunValue(e, r)
      BY <2>2 DEF IsRuns, InRun
    <2>4. ~(RL!NumRuns(e) = 0 \/ i >= e.n)
      BY <1>1, <1>2
    <2>5. RL!DecodeAt(e, i) = RL!Rows(<<RL!RunValue(e, r)>>)
      BY <2>1, <2>4 DEF RL!DecodeAt
    <2>6. QED
      BY <1>2, <2>3, <2>5, RunLengthContract
  <1>3. CASE ~(i < Len(d))
    <2>1. i >= e.n
      BY <1>1, <1>3
    <2>2. RL!DecodeAt(e, i) = RL!Nullopt
      BY <2>1 DEF RL!DecodeAt
    <2>3. QED
      BY <1>3, <2>2, RunLengthContract
  <1>4. QED
    BY <1>2, <1>3

\* A range that starts behind the last row.
LEMMA SliceBehind ==
    ASSUME NEW d \in Seq(Int), NEW start \in Nat, NEW end \in Nat, start >= Len(d) \/ end <= start
    PROVE  Slice(d, start, end) = <<>>
  <1>1. Len(d) \in Nat
    OBVIOUS
  <1>2. Clipped(d, start, end) = 0
    BY <1>1 DEF Clipped, Greater, Lesser
  <1>3. Slice(d, start, end) \in Seq(Int) /\ Len(Slice(d, start, end)) = 0
    BY <1>2, SliceIs
  <1>4. QED
    BY <1>3

\* A range that ends behind the last row ends there.
LEMMA SliceStops ==
    ASSUME NEW d \in Seq(Int), NEW start \in Nat, NEW end \in Nat
    PROVE  Slice(d, start, Lesser(end, Len(d))) = Slice(d, start, end)
  <1>1. Lesser(Lesser(end, Len(d)), Len(d)) = Lesser(end, Len(d))
    BY DEF Lesser
  <1>2. QED
    BY <1>1 DEF Slice

\* The rows of a range.
LEMMA RunsDecodeRange ==
    ASSUME NEW d \in Seq(Int), NEW e, IsRuns(e, d), NEW start \in Nat, NEW end \in Nat, start <= end
    PROVE  RL!DecodeRange(e, start, end) = Rows(Slice(d, start, end))
  <1>1. PICK m \in Nat, n \in Nat : m = RL!NumRuns(e) /\ n = Len(d) /\ e.n = n
    BY DEF IsRuns
  <1>2. CASE start >= n
    <2>1. RL!DecodeRange(e, start, end) = RL!Rows(<<>>)
      BY <1>1, <1>2 DEF RL!DecodeRange
    <2>2. QED
      BY <1>1, <1>2, <2>1, SliceBehind, RunLengthContract
  <1>3. CASE start < n
    <2>1. PICK first : first = RL!FindRun(e, start)
      OBVIOUS
    <2>2. InRun(e, first, start)
      BY <1>1, <1>3, <2>1, FindRunFinds
    <2>3. first \in 0..(m - 1) /\ RL!RunStart(e, first) <= start /\ start < RL!RunEnd(e, first)
      BY <1>1, <2>2 DEF InRun
    <2>4. PICK stop \in Nat : stop = Lesser(end, n) /\ start <= stop /\ stop <= n
      BY <1>3 DEF Lesser
    <2>5. \A r \in 0..(m - 1) : /\ RL!RunStart(e, r) \in Nat /\ RL!RunEnd(e, r) \in Nat
                                /\ RL!RunStart(e, r) < RL!RunEnd(e, r) /\ RL!RunEnd(e, r) <= n
      BY <1>1 DEF IsRuns
    <2>6. PICK count \in Nat : count = m - first /\ count > 0
      BY <2>3
    <2> DEFINE Size(r) == Greater(0, Lesser(RL!RunEnd(e, r), stop) - Greater(RL!RunStart(e, r), start))
               Part(r) == [i \in 1..Size(r) |-> RL!RunValue(e, r)]
               p == [k \in 1..count |-> Part(first + k - 1)]
               b == [k \in 0..count |-> IF k = 0 THEN start
                                        ELSE Lesser(RL!RunEnd(e, first + k - 1), stop)]
    <2>7. ASSUME NEW k \in 1..count
          PROVE  /\ b[k - 1] \in Nat /\ b[k] \in Nat /\ b[k] <= n
                 /\ b[k - 1] <= b[k] /\ p[k] \in Seq(Int) /\ Len(p[k]) = b[k] - b[k - 1]
                 /\ \A i \in 1..Len(p[k]) : p[k][i] = d[b[k - 1] + i]
      <3>1. PICK r \in 0..(m - 1) : r = first + k - 1 /\ first <= r
        <4>1. first + k - 1 \in 0..(m - 1) /\ first <= first + k - 1
          BY <2>3, <2>6
        <4>2. QED
          BY <4>1
      <3>2. PICK x \in Nat, y \in Nat : x = RL!RunStart(e, r) /\ y = RL!RunEnd(e, r) /\ x < y /\ y <= n
        BY <2>5
      <3>3. start < y
        <4>1. CASE r = first
          BY <2>3, <3>2, <4>1
        <4>2. CASE r # first
          <5>1. first < r
            BY <2>3, <3>1, <4>2
          <5>2. RL!RunEnd(e, first) <= x
            BY <1>1, <2>3, <3>2, <5>1 DEF IsRuns
          <5>3. QED
            BY <2>3, <2>5, <3>2, <5>2
        <4>3. QED
          BY <4>1, <4>2
      <3>4. b[k] = Lesser(y, stop)
        <4>1. k \in 0..count /\ k # 0
          OBVIOUS
        <4>2. QED
          BY <3>1, <3>2, <4>1
      <3>5. b[k - 1] = IF x <= start THEN start ELSE Lesser(x, stop)
        <4>1. CASE k = 1
          <5>1. r = first /\ k - 1 = 0 /\ x <= start
            BY <2>3, <3>1, <3>2, <4>1
          <5>2. QED
            BY <5>1
        <4>2. CASE k # 1
          <5>1. PICK q \in 0..(m - 2) : q = first + (k - 1) - 1 /\ q + 1 = r /\ k - 1 \in 0..count /\ k - 1 # 0
                                          /\ first <= q
            <6>1. first + (k - 1) - 1 \in 0..(m - 2) /\ first + (k - 1) - 1 + 1 = r
                    /\ k - 1 \in 0..count /\ k - 1 # 0 /\ first <= first + (k - 1) - 1
              BY <2>3, <2>6, <3>1, <4>2
            <6>2. QED
              BY <6>1
          <5>2. RL!RunEnd(e, q) = x
            BY <1>1, <3>2, <5>1 DEF IsRuns
          <5>3. b[k - 1] = Lesser(x, stop)
            BY <5>1, <5>2
          <5>4. start < x
            <6>1. CASE q = first
              BY <2>3, <5>2, <6>1
            <6>2. CASE q # first
              <7>1. first < q /\ q \in 0..(m - 1)
                BY <2>3, <5>1, <6>2
              <7>2. RL!RunEnd(e, first) <= RL!RunStart(e, q) /\ RL!RunStart(e, q) < x
                BY <1>1, <2>3, <2>5, <5>2, <7>1 DEF IsRuns
              <7>3. RL!RunEnd(e, first) \in Nat /\ RL!RunStart(e, q) \in Nat
                BY <2>3, <2>5, <7>1
              <7>4. QED
                BY <2>3, <7>2, <7>3
            <6>3. QED
              BY <6>1, <6>2
          <5>5. QED
            BY <5>3, <5>4
        <4>3. QED
          BY <4>1, <4>2
      <3>6. PICK u \in Nat, v \in Nat : /\ u = b[k - 1] /\ v = b[k] /\ u <= v /\ v <= n
                                        /\ Size(r) = v - u /\ (u < v => x <= u /\ v <= y)
        <4>1. b[k - 1] \in Nat /\ b[k] \in Nat
          BY <3>4, <3>5 DEF Lesser
        <4>2. PICK u \in Nat, v \in Nat : u = b[k - 1] /\ v = b[k]
          BY <4>1
        <4>3. u = (IF x <= start THEN start ELSE IF x < stop THEN x ELSE stop)
                /\ v = (IF y < stop THEN y ELSE stop)
          BY <3>4, <3>5, <4>2 DEF Lesser
        <4>4. Size(r) = Greater(0, v - (IF x > start THEN x ELSE start))
          BY <3>2, <3>4, <4>2 DEF Greater
        <4>5. Size(r) = IF v - (IF x > start THEN x ELSE start) > 0
                        THEN v - (IF x > start THEN x ELSE start) ELSE 0
          <5> HIDE DEF Size
          <5> QED
            BY <4>4 DEF Greater
        <4> HIDE DEF Size, b
        <4>6. /\ start \in Nat /\ stop \in Nat /\ x \in Nat /\ y \in Nat /\ n \in Nat
              /\ u \in Nat /\ v \in Nat
          OBVIOUS
        <4>7. u <= v /\ v <= n /\ (u < v => x <= u /\ v <= y)
          BY ONLY <2>4, <3>2, <3>3, <4>3, <4>6
        <4>9. v - (IF x > start THEN x ELSE start) > 0 => u = IF x > start THEN x ELSE start
          BY ONLY <2>4, <3>2, <3>3, <4>3, <4>6
        <4>10. ~(v - (IF x > start THEN x ELSE start) > 0) => v - u = 0
          BY ONLY <2>4, <3>2, <3>3, <4>3, <4>6
        <4>11. Size(r) = v - u
          BY ONLY <4>5, <4>9, <4>10
        <4>12. QED
          BY <4>2, <4>7, <4>11
      <3>7. p[k] = [i \in 1..(v - u) |-> RL!RunValue(e, r)]
        <4>1. p[k] = Part(r)
          <5> HIDE DEF Part
          <5> QED
            BY <3>1
        <4>2. Size(r) = v - u
          BY <3>6
        <4> HIDE DEF Size, p
        <4>3. QED
          BY <4>1, <4>2
      <3>8. ASSUME NEW i \in 1..(v - u) PROVE d[u + i] = RL!RunValue(e, r) /\ d[u + i] \in Int
        <4>1. PICK row \in Nat : row = u + i - 1 /\ row + 1 = u + i /\ u <= row /\ row < v
          <5>1. u + i - 1 \in Nat /\ u + i - 1 + 1 = u + i /\ u <= u + i - 1 /\ u + i - 1 < v
            OBVIOUS
          <5>2. QED
            BY <5>1
        <4>2. u \in Nat /\ v \in Nat /\ x \in Nat /\ y \in Nat /\ row \in Nat
          BY <2>3
        <4>3. x <= row /\ row < y
          <5>1. u < v
            BY ONLY <4>1, <4>2
          <5>2. x <= u /\ v <= y
            BY ONLY <3>6, <5>1
          <5>3. QED
            BY ONLY <4>1, <4>2, <5>2
        <4>4. InRun(e, r, row)
          BY <1>1, <3>2, <4>3 DEF InRun
        <4>5. d[row + 1] = RL!RunValue(e, r)
          BY <1>1, <4>4 DEF IsRuns
        <4>6. row + 1 \in 1..n
          <5>1. v <= n
            BY <3>6
          <5>2. QED
            BY <4>1, <5>1
        <4>7. QED
          BY <1>1, <4>1, <4>5, <4>6
      <3>9. v - u \in Nat
        <4>1. u \in Nat /\ v \in Nat /\ u <= v
          BY <3>6
        <4>2. QED
          BY ONLY <4>1
      <3>10. p[k] \in Seq(Int) /\ Len(p[k]) = v - u
        <4>1. CASE v - u = 0
          <5>1. p[k] = <<>>
            BY <3>7, <4>1
          <5>2. <<>> \in Seq(Int) /\ Len(<<>>) = 0
            OBVIOUS
          <5> HIDE DEF p
          <5>3. QED
            BY <4>1, <5>1, <5>2
        <4>2. CASE v - u # 0
          <5>1. RL!RunValue(e, r) \in Int
            <6>1. 1 \in 1..(v - u)
              BY <3>9, <4>2
            <6>2. QED
              BY <3>8, <6>1
          <5>2. PICK z \in Int, w \in Nat : z = RL!RunValue(e, r) /\ w = v - u
            BY <3>9, <5>1
          <5>3. [i \in 1..w |-> z] \in Seq(Int) /\ Len([i \in 1..w |-> z]) = w
            OBVIOUS
          <5> HIDE DEF p
          <5>4. QED
            BY <3>7, <5>2, <5>3
        <4>3. QED
          BY <4>1, <4>2
      <3>11. \A i \in 1..(v - u) : p[k][i] = d[u + i]
        <4> HIDE DEF p
        <4> QED
          BY <3>7, <3>8
      <3> HIDE DEF p, b
      <3>12. QED
        BY <3>6, <3>10, <3>11
    <2>8. b[0] = start /\ b[count] = stop
      <3>1. first + count - 1 = m - 1 /\ count \in 0..count /\ count # 0
        BY <2>3, <2>6
      <3>2. RL!RunEnd(e, m - 1) = n
        BY <1>1, <2>3 DEF IsRuns
      <3>3. Lesser(n, stop) = stop
        BY <2>4 DEF Lesser
      <3>4. QED
        BY <3>1, <3>2, <3>3
    <2>9. Advances(p, b, count, d)
      <3>1. p \in Seq(Seq(Int)) /\ Len(p) = count
        <4>1. p = [k \in 1..count |-> p[k]] /\ count \in Nat
          OBVIOUS
        <4> HIDE DEF p, b
        <4>2. \A k \in 1..count : p[k] \in Seq(Int)
          BY <2>7
        <4>3. p \in [1..count -> Seq(Int)]
          BY ONLY <4>1, <4>2
        <4>4. QED
          BY ONLY <4>1, <4>3
      <3>2. \A k \in 0..count : b[k] \in Nat /\ b[k] <= Len(d)
        <4>1. \A k \in 0..count : k = 0 \/ k \in 1..count
          OBVIOUS
        <4> HIDE DEF p, b
        <4>2. QED
          BY <1>1, <1>3, <2>7, <2>8, <4>1
      <3> HIDE DEF p, b
      <3>3. QED
        BY <2>7, <3>1, <3>2 DEF Advances
    <2>10. Flat(p) = Slice(d, start, end)
      <3> HIDE DEF p, b
      <3>1. Flat(p) = Slice(d, start, stop)
        BY <2>8, <2>9, Consecutive
      <3>2. QED
        BY <1>1, <2>4, <3>1, SliceStops
    <2>11. RL!DecodeRange(e, start, end) = RL!Rows(RL!FlattenSeq(p))
      <3>1. ~(start >= e.n)
        BY <1>1, <1>3
      <3>2. \A x, y : RL!Lesser(x, y) = Lesser(x, y) /\ RL!Greater(x, y) = Greater(x, y)
        BY RunLengthContract
      <3>3. QED
        BY <1>1, <2>1, <2>4, <2>6, <3>1, <3>2 DEF RL!DecodeRange
    <2>12. QED
      <3> HIDE DEF p
      <3> QED
        BY <2>10, <2>11, RunLengthContract
  <1>4. QED
    BY <1>2, <1>3

\* The rows of a range, into memory of that size.
LEMMA RunsDecodeRangeInto ==
    ASSUME NEW d \in Seq(Int), NEW e, IsRuns(e, d), NEW start \in Nat, NEW end \in Nat
    PROVE  RL!DecodeRangeInto(e, start, end, Greater(Lesser(end, Len(d)) - start, 0)) = Rows(Slice(d, start, end))
  <1>1. PICK m \in Nat, n \in Nat : m = RL!NumRuns(e) /\ n = Len(d) /\ e.n = n
    BY DEF IsRuns
  <1>2. PICK stop \in Nat : stop = Lesser(end, n) /\ stop <= n /\ stop <= end
    BY DEF Lesser
  <1>3. PICK size : size = Greater(stop - start, 0)
    OBVIOUS
  <1>4. RL!Lesser(end, e.n) = stop
    BY <1>1, <1>2, RunLengthContract
  <1>5. CASE start >= stop
    <2>1. size = 0
      BY <1>3, <1>5 DEF Greater
    <2>2. RL!DecodeRangeInto(e, start, end, size) = RL!Rows(<<>>)
      BY <1>4, <1>5, <2>1 DEF RL!DecodeRangeInto
    <2>3. Slice(d, start, stop) = <<>>
      BY <1>5, SliceBehind
    <2>4. QED
      BY <1>1, <1>2, <1>3, <2>2, <2>3, SliceStops, RunLengthContract
  <1>6. CASE start < stop
    <2>1. size = stop - start
      BY <1>3, <1>6 DEF Greater
    <2>2. PICK seed : seed = RL!FindRun(e, start)
      OBVIOUS
    <2>3. InRun(e, seed, start)
      BY <1>1, <1>2, <1>6, <2>2, FindRunFinds
    <2>4. RL!DecodeRangeInto(e, start, end, size) = RL!Rows(RL!Filled(e, start, stop, seed).rows)
      BY <1>4, <1>6, <2>1, <2>2 DEF RL!DecodeRangeInto
    <2>5. RL!Filled(e, start, stop, seed).rows = Slice(d, start, stop)
      <3>1. seed \in 0..(RL!NumRuns(e) - 1) /\ RL!RunStart(e, seed) <= start /\ stop <= Len(d)
        BY <1>1, <1>2, <2>3 DEF InRun
      <3>2. QED
        BY <1>6, <3>1, FilledIs
    <2>6. QED
      BY <1>1, <1>2, <1>3, <2>4, <2>5, SliceStops, RunLengthContract
  <1>7. QED
    BY <1>5, <1>6

-----------------------------------------------------------------------------
(* Gathering.                                                              *)

\* The rows of the first k ranges.
Gathered(d, rs, k) == Flat([j \in 1..k |-> Slice(d, rs[j].begin, rs[j].end)])

\* Range by range.
LEMMA GatheredStep ==
    ASSUME NEW d \in Seq(Int), NEW rs \in Seq(Ranges)
    PROVE  /\ Gathered(d, rs, 0) = <<>>
           /\ \A k \in 0..Len(rs) : Gathered(d, rs, k) \in Seq(Int)
           /\ \A k \in 1..Len(rs) : Gathered(d, rs, k)
                                      = Gathered(d, rs, k - 1) \o Slice(d, rs[k].begin, rs[k].end)
           /\ Gathered(d, rs, Len(rs)) = Flat(Parts(d, rs))
  <1>1. PICK m \in Nat : m = Len(rs) /\ DOMAIN rs = 1..m /\ \A k \in 1..m : rs[k] \in Ranges
    OBVIOUS
  <1> DEFINE p(k) == [j \in 1..k |-> Slice(d, rs[j].begin, rs[j].end)]
  <1>2. \A j \in 1..m : Slice(d, rs[j].begin, rs[j].end) \in Seq(Int)
    <2>1. ASSUME NEW j \in 1..m PROVE Slice(d, rs[j].begin, rs[j].end) \in Seq(Int)
      <3>1. rs[j].begin \in Nat /\ rs[j].end \in Nat
        BY <1>1 DEF Ranges
      <3>2. QED
        BY <3>1, SliceIs
    <2>2. QED
      BY <2>1
  <1>3. \A k \in 0..m : p(k) \in Seq(Seq(Int)) /\ Len(p(k)) = k
    BY <1>2
  <1>4. p(0) = <<>>
    OBVIOUS
  <1>5. Flat(<<>>) = <<>>
    BY DEF Flat
  <1>6. ASSUME NEW k \in 1..m
        PROVE  Flat(p(k)) = Flat(p(k - 1)) \o Slice(d, rs[k].begin, rs[k].end)
    <2>1. PICK l \in 0..m : l = k - 1 /\ l + 1 = k
      BY <1>1
    <2>2. PICK s \in Seq(Int) : s = Slice(d, rs[k].begin, rs[k].end)
      BY <1>2
    <2>3. PICK q \in Seq(Seq(Int)) : q = p(l) /\ Len(q) = l
      BY <1>3
    <2>4. \A j \in 1..l : q[j] = Slice(d, rs[j].begin, rs[j].end)
      BY <2>3
    <2>5. p(k) = Append(q, s)
      <3>1. DOMAIN Append(q, s) = 1..k /\ \A j \in 1..k : Append(q, s)[j] = IF j = k THEN s ELSE q[j]
        BY <2>1, <2>3
      <3>2. \A j \in 1..k : j # k => j \in 1..l
        BY <2>1
      <3>3. \A j \in 1..k : p(k)[j] = Append(q, s)[j]
        BY <2>2, <2>4, <3>1, <3>2
      <3>4. PICK more : more = Append(q, s)
        OBVIOUS
      <3>5. p(k) = [j \in 1..k |-> more[j]]
        BY <3>3, <3>4
      <3>6. more = [j \in 1..k |-> more[j]]
        <4>1. more \in Seq(Seq(Int)) /\ DOMAIN more = 1..k
          BY <3>1, <3>4
        <4>2. more = [j \in DOMAIN more |-> more[j]]
          BY <4>1
        <4>3. QED
          BY <4>1, <4>2
      <3> HIDE DEF p
      <3>7. QED
        BY <3>4, <3>5, <3>6
    <2>6. Flat(Append(q, s)) = Flat(q) \o s
      BY FlatAppend
    <2> HIDE DEF p
    <2>7. QED
      BY <2>1, <2>2, <2>3, <2>5, <2>6
  <1>7. \A k \in 0..m : Flat(p(k)) \in Seq(Int)
    <2>1. ASSUME NEW k \in 0..m PROVE Flat(p(k)) \in Seq(Int)
      <3>1. p(k) \in Seq(Seq(Int))
        BY <1>3
      <3>2. <<>> \in Seq(Int)
        OBVIOUS
      <3> HIDE DEF p
      <3>3. QED
        BY <3>1, <3>2, FlatAppend
    <2> HIDE DEF p
    <2>2. QED
      BY <2>1
  <1>8. p(m) = Parts(d, rs)
    BY <1>1 DEF Parts
  <1>9. \A k : Gathered(d, rs, k) = Flat(p(k))
    BY DEF Gathered
  <1> HIDE DEF p
  <1>10. QED
    BY <1>1, <1>4, <1>5, <1>6, <1>7, <1>8, <1>9

\* No range begins before an earlier one ends.
LEMMA RangesRise ==
    ASSUME NEW rs, Gathering(rs), NEW i \in 1..Len(rs), NEW j \in 1..Len(rs), i < j
    PROVE  rs[i].end <= rs[j].begin /\ rs[i].begin <= rs[j].begin
  <1>1. PICK m \in Nat : m = Len(rs) /\ \A k \in 1..m : rs[k] \in Ranges
    BY DEF Gathering
  <1>2. \A k \in 1..m : rs[k].begin \in Nat /\ rs[k].end \in Nat /\ rs[k].begin <= rs[k].end
    BY <1>1 DEF Ranges
  <1>3. \A k \in 1..(m - 1) : rs[k].end <= rs[k + 1].begin
    BY <1>1 DEF Gathering
  <1> DEFINE P == {k \in Nat : i + 1 + k <= m => rs[i].end <= rs[i + 1 + k].begin}
  <1>4. 0 \in P
    BY <1>1, <1>3
  <1>5. ASSUME NEW k \in Nat, k \in P PROVE k + 1 \in P
    <2>1. SUFFICES ASSUME i + 1 + (k + 1) <= m PROVE rs[i].end <= rs[i + 1 + (k + 1)].begin
      OBVIOUS
    <2>2. PICK l \in 1..(m - 1) : l = i + 1 + k /\ l + 1 = i + 1 + (k + 1) /\ l \in 1..m /\ l + 1 \in 1..m
      <3>1. i \in 1..m
        BY <1>1
      <3>2. i + 1 + k \in 1..(m - 1) /\ i + 1 + k + 1 = i + 1 + (k + 1) /\ i + 1 + k \in 1..m
              /\ i + 1 + k + 1 \in 1..m
        BY <2>1, <3>1
      <3>3. QED
        BY <3>2
    <2>3. rs[i].end <= rs[l].begin
      BY <1>5, <2>2
    <2>4. rs[l].begin <= rs[l].end /\ rs[l].end <= rs[l + 1].begin
      BY <1>2, <1>3, <2>2
    <2>5. rs[i].end \in Nat /\ rs[l].begin \in Nat /\ rs[l].end \in Nat /\ rs[l + 1].begin \in Nat
      BY <1>1, <1>2, <2>2
    <2>6. QED
      BY <2>2, <2>3, <2>4, <2>5
  <1> HIDE DEF P
  <1>6. j - (i + 1) \in P
    <2>1. \A k \in Nat : k \in P
      BY <1>4, <1>5, InductionOnNat
    <2>2. j - (i + 1) \in Nat
      BY <1>1
    <2>3. QED
      BY <2>1, <2>2
  <1>7. rs[i].end <= rs[j].begin
    <2>1. i + 1 + (j - (i + 1)) = j /\ j <= m
      BY <1>1
    <2>2. QED
      BY <1>6, <2>1 DEF P
  <1>8. QED
    BY <1>1, <1>2, <1>7

\* Nothing is asked of no range.
LEMMA NoRange ==
    ASSUME NEW d \in Seq(Int)
    PROVE  /\ Asked(d, DecodeGatherInto(<<>>)) = 0
           /\ Expected(d, DecodeGatherInto(<<>>), FALSE) = Rows(<<>>)
  <1>1. PICK c : c = DecodeGatherInto(<<>>)
    OBVIOUS
  <1>2. c.op = "gather" /\ c.ranges = <<>>
    BY <1>1 DEF DecodeGatherInto, NoCall
  <1>3. Asked(d, c) = 0
    <2>1. PICK t : t = [k \in DOMAIN c.ranges |-> RangeSize(c.ranges[k])]
      OBVIOUS
    <2>2. Len(t) = 0
      BY <1>2, <2>1
    <2>3. SumTo(t, 0) = 0
      <3>1. \A i \in 1..0 : t[i] \in Nat
        OBVIOUS
      <3>2. 0 \in Nat
        OBVIOUS
      <3>3. QED
        BY ONLY <3>1, <3>2, SumToStep
    <2>4. Asked(d, c) = SumTo(t, Len(t))
      BY <1>2, <2>1 DEF Asked, Total
    <2>5. QED
      BY <2>2, <2>3, <2>4
  <1>4. SizedInto(Rows(Flat(Parts(d, <<>>))), Asked(d, c)) = Expected(d, c, FALSE)
    <2>1. <<>> \in Seq(Ranges)
      OBVIOUS
    <2>2. QED
      BY <1>1, <2>1, GatherOfSlices
  <1>5. Flat(Parts(d, <<>>)) = <<>>
    <2>1. Parts(d, <<>>) = <<>>
      BY DEF Parts
    <2>2. QED
      BY <2>1 DEF Flat
  <1>6. SizedInto(Rows(<<>>), 0) = Rows(<<>>)
    BY DEF SizedInto, Rows
  <1>7. QED
    BY <1>1, <1>3, <1>4, <1>5, <1>6

\* One range of a gather: what its loop does to the rows and to the run it is at.
GatherStep(e, acc, r) ==
    LET stop == Lesser(r.end, e.n) IN
    IF RangeSize(r) = 0 \/ r.begin >= stop THEN acc
    ELSE LET f == RL!Filled(e, r.begin, stop, acc.run) IN
         [rows |-> acc.rows \o f.rows, run |-> f.run]

\* After k ranges: their rows, and a run that starts before any range to come.
Resumes(d, e, rs, k, acc) ==
    /\ acc \in [rows : Seq(Int), run : Nat]
    /\ acc.rows = Gathered(d, rs, k)
    /\ RL!NumRuns(e) > 0 =>
          /\ acc.run \in 0..(RL!NumRuns(e) - 1)
          /\ \A j \in (k + 1)..Len(rs) : rs[j].begin < Len(d) => RL!RunStart(e, acc.run) <= rs[j].begin

\* A range keeps that.
LEMMA GatherStepResumes ==
    ASSUME NEW d \in Seq(Int), NEW e, IsRuns(e, d), NEW rs, Gathering(rs),
           NEW k \in 1..Len(rs), NEW acc, Resumes(d, e, rs, k - 1, acc)
    PROVE  Resumes(d, e, rs, k, GatherStep(e, acc, rs[k]))
  <1>1. PICK m \in Nat, n \in Nat : m = Len(rs) /\ n = Len(d) /\ e.n = n
    <2>1. Len(rs) \in Nat
      BY DEF Gathering
    <2>2. Len(d) \in Nat /\ e.n = Len(d)
      BY DEF IsRuns
    <2>3. QED
      BY <2>1, <2>2
  <1>2. PICK x \in Nat, y \in Nat : x = rs[k].begin /\ y = rs[k].end /\ x <= y /\ rs[k] \in Ranges
    <2>1. rs[k] \in Ranges
      BY DEF Gathering
    <2>2. QED
      BY <2>1 DEF Ranges
  <1>3. Gathered(d, rs, k) = Gathered(d, rs, k - 1) \o Slice(d, x, y)
    BY <1>2, GatheredStep DEF Gathering
  <1>4. PICK stop \in Nat : stop = Lesser(y, n) /\ stop <= n /\ stop <= y
    BY DEF Lesser
  <1>5. RangeSize(rs[k]) = y - x
    BY <1>2, PassesTheEnd
  <1>6. PICK s \in Seq(Int) : s = Gathered(d, rs, k - 1) /\ acc.rows = s
    BY DEF Resumes
  <1>7. \A j \in (k + 1)..m : j \in (k - 1 + 1)..m
    BY <1>1
  <1>8. CASE y - x = 0 \/ x >= stop
    <2>1. GatherStep(e, acc, rs[k]) = acc
      BY <1>1, <1>2, <1>4, <1>5, <1>8 DEF GatherStep
    <2>2. x >= n \/ y <= x
      BY <1>2, <1>4, <1>8 DEF Lesser
    <2>3. Slice(d, x, y) = <<>>
      BY <1>1, <2>2, SliceBehind
    <2>4. Gathered(d, rs, k) = s
      BY <1>3, <1>6, <2>3
    <2>5. QED
      BY <1>1, <1>6, <1>7, <2>1, <2>4 DEF Resumes
  <1>9. CASE ~(y - x = 0 \/ x >= stop)
    <2>1. PICK f : f = RL!Filled(e, x, stop, acc.run)
      OBVIOUS
    <2>2. GatherStep(e, acc, rs[k]) = [rows |-> acc.rows \o f.rows, run |-> f.run]
      BY <1>1, <1>2, <1>4, <1>5, <1>9, <2>1 DEF GatherStep
    <2>3. x < stop /\ n > 0
      BY <1>4, <1>9
    <2>4. RL!NumRuns(e) > 0
      BY <1>1, <2>3 DEF IsRuns
    <2>5. acc.run \in 0..(RL!NumRuns(e) - 1) /\ RL!RunStart(e, acc.run) <= x
      <3>1. k \in (k - 1 + 1)..Len(rs) /\ x < Len(d)
        BY <1>1, <1>4, <2>3
      <3>2. QED
        BY <1>2, <2>4, <3>1 DEF Resumes
    <2>6. /\ f.rows = Slice(d, x, stop) /\ f.run \in 0..(RL!NumRuns(e) - 1)
          /\ RL!RunStart(e, f.run) < stop
      BY <1>1, <1>4, <2>1, <2>3, <2>5, FilledIs
    <2>7. f.rows = Slice(d, x, y)
      BY <1>1, <1>4, <2>6, SliceStops
    <2>8. s \o f.rows = Gathered(d, rs, k)
      BY <1>3, <1>6, <2>7
    <2>9. s \o f.rows \in Seq(Int)
      <3>1. f.rows \in Seq(Int)
        BY <2>7, SliceIs
      <3>2. QED
        BY <3>1
    <2>10. ASSUME NEW j \in (k + 1)..Len(rs) PROVE RL!RunStart(e, f.run) <= rs[j].begin
      <3>1. j \in 1..Len(rs) /\ k < j
        BY <1>1
      <3>2. y <= rs[j].begin
        BY <1>2, <3>1, RangesRise
      <3>3. rs[j].begin \in Nat
        <4>1. rs[j] \in Ranges
          BY <3>1 DEF Gathering
        <4>2. QED
          BY ONLY <4>1 DEF Ranges
      <3>4. RL!RunStart(e, f.run) \in Nat
        BY <2>6 DEF IsRuns
      <3>5. QED
        BY <1>4, <2>6, <3>2, <3>3, <3>4
    <2>11. [rows |-> s \o f.rows, run |-> f.run] \in [rows : Seq(Int), run : Nat]
      <3>1. f.run \in Nat
        BY <2>6 DEF IsRuns
      <3>2. QED
        BY <2>9, <3>1
    <2>12. PICK g : g = GatherStep(e, acc, rs[k])
      OBVIOUS
    <2>13. g.rows = s \o f.rows /\ g.run = f.run /\ g \in [rows : Seq(Int), run : Nat]
      <3>1. g = [rows |-> s \o f.rows, run |-> f.run]
        BY <1>6, <2>2, <2>12
      <3>2. PICK x1, x2 : x1 = s \o f.rows /\ x2 = f.run
        OBVIOUS
      <3>3. g.rows = x1 /\ g.run = x2
        BY <3>1, <3>2
      <3>4. QED
        BY <2>11, <3>1, <3>2, <3>3
    <2>14. Resumes(d, e, rs, k, g)
      BY <2>6, <2>8, <2>10, <2>13 DEF Resumes
    <2>15. QED
      BY <2>12, <2>14
  <1>10. QED
    BY <1>8, <1>9

\* The loop over the ranges.
LEMMA GatherLoop ==
    ASSUME NEW d \in Seq(Int), NEW e, IsRuns(e, d), NEW rs, Gathering(rs),
           NEW first, Resumes(d, e, rs, 0, first), NEW after,
           after = CHOOSE g : g = [k \in 0..Len(rs) |->
                       IF k = 0 THEN first ELSE GatherStep(e, g[k - 1], rs[k])]
    PROVE  after[Len(rs)].rows = Gathered(d, rs, Len(rs))
  <1> DEFINE T == [rows : Seq(Int), run : Nat]
             F == [p \in T \X (Nat \ {0}) |->
                      IF GatherStep(e, p[1], rs[p[2]]) \in T THEN GatherStep(e, p[1], rs[p[2]]) ELSE p[1]]
  <1>1. PICK m \in Nat : m = Len(rs)
    BY DEF Gathering
  <1>2. F \in [T \X (Nat \ {0}) -> T] /\ first \in T
    BY DEF Resumes
  <1>3. PICK h \in [0..m -> T] : Follows(h, first, F, m)
    <2> HIDE DEF F, T
    <2> QED
      BY <1>2, FiniteRecursion
  <1>4. h[0] = first
    BY <1>3 DEF Follows
  <1>5. \A k \in 1..m : h[k] = IF GatherStep(e, h[k - 1], rs[k]) \in T THEN GatherStep(e, h[k - 1], rs[k])
                               ELSE h[k - 1]
    <2>1. ASSUME NEW k \in 1..m
          PROVE  h[k] = IF GatherStep(e, h[k - 1], rs[k]) \in T THEN GatherStep(e, h[k - 1], rs[k])
                        ELSE h[k - 1]
      <3>1. k - 1 \in 0..m /\ k \in Nat \ {0}
        OBVIOUS
      <3>2. h[k - 1] \in T
        BY <1>3, <3>1
      <3>3. <<h[k - 1], k>> \in T \X (Nat \ {0})
        BY <3>1, <3>2
      <3>4. h[k] = F[<<h[k - 1], k>>]
        BY <1>3 DEF Follows
      <3> HIDE DEF T
      <3>5. QED
        BY <3>3, <3>4
    <2>2. QED
      BY <2>1
  <1> HIDE DEF F
  <1> DEFINE P == {k \in Nat : k <= m => Resumes(d, e, rs, k, h[k])}
  <1>6. 0 \in P
    BY <1>4
  <1>7. ASSUME NEW k \in Nat, k \in P PROVE k + 1 \in P
    <2>1. SUFFICES ASSUME k + 1 <= m PROVE Resumes(d, e, rs, k + 1, h[k + 1])
      OBVIOUS
    <2>2. PICK l \in 1..m : l = k + 1 /\ l - 1 = k
      BY <2>1
    <2>3. Resumes(d, e, rs, l - 1, h[l - 1])
      BY <1>7, <2>1, <2>2
    <2>4. Resumes(d, e, rs, l, GatherStep(e, h[l - 1], rs[l]))
      BY <1>1, <2>3, GatherStepResumes
    <2>5. GatherStep(e, h[l - 1], rs[l]) \in T
      BY <2>4 DEF Resumes
    <2> HIDE DEF T
    <2>6. QED
      BY <1>5, <2>2, <2>4, <2>5
  <1>8. \A k \in 0..m : Resumes(d, e, rs, k, h[k])
    <2> HIDE DEF P
    <2>1. \A k \in Nat : k \in P
      BY <1>6, <1>7, InductionOnNat
    <2>2. QED
      BY <2>1 DEF P
  <1>9. \A k \in 1..m : h[k] = GatherStep(e, h[k - 1], rs[k])
    <2>1. ASSUME NEW k \in 1..m PROVE h[k] = GatherStep(e, h[k - 1], rs[k])
      <3>1. k - 1 \in 0..m
        OBVIOUS
      <3>2. Resumes(d, e, rs, k - 1, h[k - 1])
        BY <1>8, <3>1
      <3>3. Resumes(d, e, rs, k, GatherStep(e, h[k - 1], rs[k]))
        BY <1>1, <3>2, GatherStepResumes
      <3>4. GatherStep(e, h[k - 1], rs[k]) \in T
        BY <3>3 DEF Resumes
      <3> HIDE DEF T
      <3>5. QED
        BY <1>5, <3>4
    <2>2. QED
      BY <2>1
  <1>10. h = [k \in 0..m |-> IF k = 0 THEN first ELSE GatherStep(e, h[k - 1], rs[k])]
    <2>1. h = [k \in 0..m |-> h[k]]
      BY <1>3
    <2>2. \A k \in 0..m : h[k] = IF k = 0 THEN first ELSE GatherStep(e, h[k - 1], rs[k])
      <3>1. \A k \in 0..m : k # 0 => k \in 1..m
        OBVIOUS
      <3>2. QED
        BY <1>4, <1>9, <3>1
    <2>3. QED
      BY <2>1, <2>2
  <1>11. after = [k \in 0..m |-> IF k = 0 THEN first ELSE GatherStep(e, after[k - 1], rs[k])]
    BY <1>1, <1>10
  <1> HIDE DEF P
  <1> DEFINE Q == {k \in Nat : k <= m => Resumes(d, e, rs, k, after[k])}
  <1>17. after[0] = first /\ \A k \in 1..m : after[k] = GatherStep(e, after[k - 1], rs[k])
    <2>1. \A k \in 1..m : k \in 0..m /\ k # 0
      OBVIOUS
    <2>2. 0 \in 0..m
      OBVIOUS
    <2>3. QED
      BY ONLY <1>11, <2>1, <2>2
  <1>12. 0 \in Q
    BY <1>17
  <1>13. ASSUME NEW k \in Nat, k \in Q PROVE k + 1 \in Q
    <2>1. SUFFICES ASSUME k + 1 <= m PROVE Resumes(d, e, rs, k + 1, after[k + 1])
      OBVIOUS
    <2>2. PICK l \in 1..m : l = k + 1 /\ l - 1 = k
      BY <2>1
    <2>3. Resumes(d, e, rs, l - 1, after[l - 1])
      BY <1>13, <2>1, <2>2
    <2>4. Resumes(d, e, rs, l, GatherStep(e, after[l - 1], rs[l]))
      BY <1>1, <2>3, GatherStepResumes
    <2>5. after[l] = GatherStep(e, after[l - 1], rs[l])
      BY <1>17
    <2>6. QED
      BY <2>2, <2>4, <2>5
  <1>14. m \in Q
    <2> HIDE DEF Q
    <2> QED
      BY <1>12, <1>13, InductionOnNat
  <1>15. Resumes(d, e, rs, m, after[m])
    BY <1>14
  <1>16. QED
    BY <1>1, <1>15 DEF Resumes

\* decodeGatherInto.
LEMMA RunsDecodeGather ==
    ASSUME NEW d \in Seq(Int), NEW e, IsRuns(e, d), NEW rs, Gathering(rs)
    PROVE  RL!DecodeGatherInto(e, rs, Asked(d, DecodeGatherInto(rs))) = Expected(d, DecodeGatherInto(rs), FALSE)
  <1>1. PICK n \in Nat : n = Len(d) /\ e.n = n
    BY DEF IsRuns
  <1>2. rs \in Seq(Ranges)
    BY DEF Gathering
  <1>3. PICK a : a = Asked(d, DecodeGatherInto(rs))
    OBVIOUS
  <1>4. CASE rs = <<>>
    BY <1>4, NoRange DEF RL!DecodeGatherInto, RL!Rows, Rows
  <1>5. CASE rs # <<>>
    <2> DEFINE seed == IF RL!NumRuns(e) = 0 THEN 0
                       ELSE RL!FindRun(e, Lesser(rs[1].begin, Greater(e.n - 1, 0)))
               first == [rows |-> <<>>, run |-> seed]
               after == CHOOSE g : g = [k \in 0..Len(rs) |->
                            IF k = 0 THEN first ELSE GatherStep(e, g[k - 1], rs[k])]
    <2>1. RL!DecodeGatherInto(e, rs, a) = SizedInto(Rows(after[Len(rs)].rows), a)
      BY <1>5, RunLengthContract DEF RL!DecodeGatherInto, GatherStep, RL!Lesser, Lesser,
         RL!Greater, Greater, RL!RangeSize, RangeSize
    <2>2. PICK m \in Nat : m = Len(rs) /\ 1 \in 1..m
      BY <1>2, <1>5
    <2>3. PICK x \in Nat : x = rs[1].begin
      BY <1>2, <2>2 DEF Ranges
    <2>4. RL!NumRuns(e) \in Nat /\ (RL!NumRuns(e) = 0 <=> n = 0)
      BY <1>1 DEF IsRuns
    <2>5. ASSUME RL!NumRuns(e) > 0
          PROVE  seed \in 0..(RL!NumRuns(e) - 1) /\ (x < n => RL!RunStart(e, seed) <= x)
      <3>1. PICK i \in Nat : i = Lesser(x, Greater(n - 1, 0)) /\ i < n /\ i <= x
        <4>1. n > 0
          BY <2>4, <2>5
        <4>2. Lesser(x, Greater(n - 1, 0)) \in Nat /\ Lesser(x, Greater(n - 1, 0)) < n
                /\ Lesser(x, Greater(n - 1, 0)) <= x
          BY <4>1 DEF Lesser, Greater
        <4>3. QED
          BY <4>2
      <3>2. seed = RL!FindRun(e, i)
        <4>1. seed = RL!FindRun(e, Lesser(rs[1].begin, Greater(e.n - 1, 0)))
          BY <2>4, <2>5
        <4> HIDE DEF seed
        <4>2. QED
          BY ONLY <1>1, <2>3, <3>1, <4>1
      <3>3. InRun(e, RL!FindRun(e, i), i)
        BY <1>1, <3>1, FindRunFinds
      <3> HIDE DEF seed
      <3>4. seed \in 0..(RL!NumRuns(e) - 1) /\ RL!RunStart(e, seed) <= i
        BY <3>2, <3>3 DEF InRun
      <3>5. RL!RunStart(e, seed) \in Nat
        BY <3>4 DEF IsRuns
      <3>6. QED
        BY <3>1, <3>4, <3>5
    <2>6. seed \in Nat
      <3>1. CASE RL!NumRuns(e) = 0
        BY <3>1
      <3>2. CASE RL!NumRuns(e) > 0
        <4> HIDE DEF seed
        <4> QED
          BY <2>4, <2>5, <3>2
      <3>3. QED
        BY <2>4, <3>1, <3>2
    <2> HIDE DEF seed
    <2>7. Resumes(d, e, rs, 0, first)
      <3>1. first \in [rows : Seq(Int), run : Nat] /\ first.rows = <<>> /\ first.run = seed
        BY <2>6
      <3>2. Gathered(d, rs, 0) = <<>>
        BY <1>2, GatheredStep
      <3>3. ASSUME RL!NumRuns(e) > 0, NEW j \in 1..Len(rs), rs[j].begin < Len(d)
            PROVE  RL!RunStart(e, seed) <= rs[j].begin
        <4>1. rs[j].begin \in Nat
          BY <1>2 DEF Ranges
        <4>2. rs[1].begin <= rs[j].begin
          <5>1. j = 1 \/ 1 < j
            BY <2>2
          <5>2. 1 < j => rs[1].begin <= rs[j].begin
            BY <2>2, RangesRise
          <5>3. QED
            BY <2>3, <5>1, <5>2
        <4>3. x < n /\ RL!RunStart(e, seed) <= x
          BY <1>1, <2>3, <2>5, <3>3, <4>1, <4>2
        <4>4. RL!RunStart(e, seed) \in Nat
          BY <2>5, <3>3 DEF IsRuns
        <4>5. QED
          BY <2>3, <4>1, <4>2, <4>3, <4>4
      <3> HIDE DEF first
      <3>4. \A j \in (0 + 1)..Len(rs) : j \in 1..Len(rs)
        OBVIOUS
      <3>5. QED
        BY <2>5, <3>1, <3>2, <3>3, <3>4 DEF Resumes
    <2> HIDE DEF first
    <2>8. after[Len(rs)].rows = Gathered(d, rs, Len(rs))
      <3>1. PICK g : g = after
        OBVIOUS
      <3>2. g[Len(rs)].rows = Gathered(d, rs, Len(rs))
        BY <2>7, <3>1, GatherLoop
      <3>3. QED
        BY <3>1, <3>2
    <2> HIDE DEF after
    <2>9. Gathered(d, rs, Len(rs)) = Flat(Parts(d, rs))
      BY <1>2, GatheredStep
    <2>10. QED
      BY <1>2, <1>3, <2>1, <2>8, <2>9, GatherOfSlices
  <1>6. QED
    BY <1>4, <1>5

\* RunLengthEncoder keeps the contract.
LEMMA RunsAnswer ==
    ASSUME NEW d \in Seq(Int), NEW e, IsRuns(e, d), NEW c, Asking(c)
    PROVE  RL!Answer(e, c, Asked(d, c)) = Expected(d, c, FALSE)
  <1>1. PICK n : n = Asked(d, c)
    OBVIOUS
  <1>2. CASE c = DecodeAll
    <2>1. RL!Answer(e, DecodeAll, n) = RL!DecodeAll(e)
      BY RunLengthAnswers
    <2>2. Expected(d, DecodeAll, FALSE) = Rows(d)
      BY ExpectedAre
    <2>3. RL!DecodeAll(e) = Rows(d)
      BY RunsDecodeAll
    <2>4. QED
      BY ONLY <1>1, <1>2, <2>1, <2>2, <2>3
  <1>3. CASE c = DecodeAllInto
    <2>1. RL!Answer(e, DecodeAllInto, n) = RL!DecodeAllInto(e, n)
      BY RunLengthAnswers
    <2>2. Expected(d, DecodeAllInto, FALSE) = Rows(d) /\ Asked(d, DecodeAllInto) = Len(d)
      BY ExpectedAre
    <2>3. RL!DecodeAllInto(e, Len(d)) = Rows(d)
      BY RunsDecodeAllInto
    <2>4. QED
      BY ONLY <1>1, <1>3, <2>1, <2>2, <2>3
  <1>4. ASSUME NEW i \in Nat, c = DecodeAt(i) PROVE RL!Answer(e, c, n) = Expected(d, c, FALSE)
    <2>1. RL!Answer(e, DecodeAt(i), n) = RL!DecodeAt(e, i)
      BY RunLengthAnswers
    <2>2. Expected(d, DecodeAt(i), FALSE) = IF i < Len(d) THEN Rows(<<d[i + 1]>>) ELSE Nullopt
      BY ExpectedAre
    <2>3. RL!DecodeAt(e, i) = IF i < Len(d) THEN Rows(<<d[i + 1]>>) ELSE Nullopt
      BY RunsDecodeAt
    <2>4. QED
      BY ONLY <1>4, <2>1, <2>2, <2>3
  <1>5. ASSUME NEW r \in Ranges, c = DecodeRange(r) PROVE RL!Answer(e, c, n) = Expected(d, c, FALSE)
    <2>1. RL!Answer(e, DecodeRange(r), n) = RL!DecodeRange(e, r.begin, r.end)
      BY RunLengthAnswers
    <2>2. Expected(d, DecodeRange(r), FALSE) = Rows(Slice(d, r.begin, r.end))
      BY ExpectedAre
    <2>3. r.begin \in Nat /\ r.end \in Nat /\ r.begin <= r.end
      BY DEF Ranges
    <2>4. RL!DecodeRange(e, r.begin, r.end) = Rows(Slice(d, r.begin, r.end))
      BY <2>3, RunsDecodeRange
    <2>5. QED
      BY ONLY <1>5, <2>1, <2>2, <2>4
  <1>6. ASSUME NEW r \in Ranges, c = DecodeRangeInto(r) PROVE RL!Answer(e, c, n) = Expected(d, c, FALSE)
    <2>1. RL!Answer(e, DecodeRangeInto(r), n) = RL!DecodeRangeInto(e, r.begin, r.end, n)
      BY RunLengthAnswers
    <2>2. /\ Expected(d, DecodeRangeInto(r), FALSE) = Rows(Slice(d, r.begin, r.end))
          /\ Asked(d, DecodeRangeInto(r)) = Greater(Lesser(r.end, Len(d)) - r.begin, 0)
      BY ExpectedAre
    <2>3. r.begin \in Nat /\ r.end \in Nat
      BY DEF Ranges
    <2>4. RL!DecodeRangeInto(e, r.begin, r.end, Greater(Lesser(r.end, Len(d)) - r.begin, 0))
            = Rows(Slice(d, r.begin, r.end))
      BY <2>3, RunsDecodeRangeInto
    <2>5. QED
      BY ONLY <1>1, <1>6, <2>1, <2>2, <2>4
  <1>7. ASSUME NEW rs, Gathering(rs), c = DecodeGatherInto(rs)
        PROVE  RL!Answer(e, c, n) = Expected(d, c, FALSE)
    <2>1. RL!Answer(e, DecodeGatherInto(rs), n) = RL!DecodeGatherInto(e, rs, n)
      BY RunLengthAnswers
    <2>2. RL!DecodeGatherInto(e, rs, Asked(d, DecodeGatherInto(rs))) = Expected(d, DecodeGatherInto(rs), FALSE)
      BY <1>7, RunsDecodeGather
    <2>3. QED
      BY ONLY <1>1, <1>7, <2>1, <2>2
  <1>8. RL!Answer(e, c, n) = Expected(d, c, FALSE)
    <2>1. CASE \E i \in Nat : c = DecodeAt(i)
      BY <1>4, <2>1
    <2>2. CASE \E r \in Ranges : c \in {DecodeRange(r), DecodeRangeInto(r)}
      <3>1. PICK r \in Ranges : c = DecodeRange(r) \/ c = DecodeRangeInto(r)
        BY <2>2
      <3>2. QED
        BY <1>5, <1>6, <3>1
    <2>3. CASE \E rs : Gathering(rs) /\ c = DecodeGatherInto(rs)
      BY <1>7, <2>3
    <2>4. CASE c \in {DecodeAll, DecodeAllInto}
      <3>1. c = DecodeAll \/ c = DecodeAllInto
        BY <2>4
      <3>2. RL!Answer(e, c, Asked(d, c)) = Expected(d, c, FALSE)
        BY ONLY <1>2, <1>3, <3>1
      <3>3. QED
        BY ONLY <1>1, <3>2
    <2>5. QED
      BY <2>1, <2>2, <2>3, <2>4 DEF Asking
  <1>9. QED
    BY <1>1, <1>8

\* RunLengthEncoder, with raw or with composed runs, answers every call with the rows it
\* was given, for every column and every range and gather a caller may ask for
\* (RunLengthEncoder.hpp): the interpolated guess, the bisection and the gather's resumed
\* scan find the same runs.
THEOREM RunLengthKeepsTheContract == Spec => []RunLengthAgrees
  <1>1. CodecsInv => RunLengthAgrees
    <2>1. SUFFICES ASSUME CodecsInv, kind \in RunLengthKinds, call # NoCall
                   PROVE  answer = IF Refused THEN Threw ELSE Expected(data, call, kind \in Silent)
      BY DEF RunLengthAgrees, AsExpected
    <2>2. /\ kind \in Kinds /\ encoded # NotEncoded /\ call \in Calls[kind]
          /\ answer = Answer(kind, encoded, call, Asked(data, call))
      BY <2>1 DEF CodecsInv
    <2>3. PICK d \in Columns[kind] : encoded \in Encodings(kind, d) /\ data = Held(kind, d, encoded)
      BY <2>1, <2>2 DEF CodecsInv
    <2>4. kind = "RunLength" \/ kind = "ComposedRunLength"
      BY <2>1 DEF RunLengthKinds
    <2>5. d \in Seq(Int) /\ Asking(call)
      BY <2>2, <2>3, ColumnsAre, CallsAsk
    <2>6. data = d
      BY <2>1, <2>3 DEF Held, OwnKinds
    <2>7. PICK composed : encoded = RL!Encode(d, composed)
      <3>1. Encodings("RunLength", d) = {RL!Encode(d, FALSE)}
        BY DEF Encodings
      <3>2. Encodings("ComposedRunLength", d) = {RL!Encode(d, TRUE)}
        BY DEF Encodings
      <3>3. encoded = RL!Encode(d, FALSE) \/ encoded = RL!Encode(d, TRUE)
        BY <2>3, <2>4, <3>1, <3>2
      <3>4. QED
        BY <3>3
    <2>8. IsRuns(encoded, d)
      BY <2>5, <2>7, RunsEncoded
    <2>9. RL!Answer(encoded, call, Asked(d, call)) = Expected(d, call, FALSE)
      BY <2>5, <2>8, RunsAnswer
    <2>10. Answer(kind, encoded, call, Asked(d, call)) = RL!Answer(encoded, call, Asked(d, call))
      <3>1. kind \in RunLengthKinds /\ kind # "MainlyConstant" /\ kind # "Delta" /\ kind # "FOR"
               /\ kind # "RangePack" /\ kind # "CascadingFOR"
        BY <2>1 DEF RunLengthKinds
      <3>2. QED
        BY <3>1 DEF Answer
    <2>11. ~Refused /\ ~(kind \in Silent)
      BY <2>4 DEF Refused, Strict, PartitionKinds, Silent, BlockPartitionKinds
    <2>12. (kind \in Silent) = FALSE
      BY <2>11
    <2>13. QED
      BY <2>2, <2>6, <2>9, <2>10, <2>11, <2>12
  <1>2. QED
    BY <1>1, CallsOfOneEncoding, PTL

-----------------------------------------------------------------------------
(* Ranks.                                                                  *)

\* How many numbers of S are below x.
Rank(S, x) == Len(Ascending(S, x))

\* Number by number.
LEMMA AscendingGrows ==
    ASSUME NEW S
    PROVE  /\ Ascending(S, 0) = <<>>
           /\ \A n \in Nat : Ascending(S, n) \in Seq(Nat)
           /\ \A n \in Nat : Ascending(S, n + 1) = IF n \in S THEN Append(Ascending(S, n), n)
                                                   ELSE Ascending(S, n)
  <1>1. \A n : Ascending(S, n) = Listed(S, n)[n]
    BY DEF Ascending, Listed
  <1>2. Ascending(S, 0) = <<>>
    BY <1>1, ListedIs
  <1>3. \A n \in Nat : Ascending(S, n) \in Seq(Nat)
    <2>1. ASSUME NEW n \in Nat PROVE Ascending(S, n) \in Seq(Nat)
      BY AscendingAscends DEF Ascends
    <2>2. QED
      BY <2>1
  <1>4. ASSUME NEW n \in Nat
        PROVE  Ascending(S, n + 1) = IF n \in S THEN Append(Ascending(S, n), n) ELSE Ascending(S, n)
    <2>1. PICK g, h : g = Listed(S, n) /\ h = Listed(S, n + 1)
      OBVIOUS
    <2>2. g = [k \in 0..n |-> IF k = 0 THEN <<>> ELSE IF k - 1 \in S THEN Append(g[k - 1], k - 1) ELSE g[k - 1]]
      BY <2>1, ListedIs
    <2>3. h = [k \in 0..(n + 1) |->
                  IF k = 0 THEN <<>> ELSE IF k - 1 \in S THEN Append(h[k - 1], k - 1) ELSE h[k - 1]]
      <3>1. PICK m \in Nat : m = n + 1
        OBVIOUS
      <3>2. h = [k \in 0..m |->
                    IF k = 0 THEN <<>> ELSE IF k - 1 \in S THEN Append(h[k - 1], k - 1) ELSE h[k - 1]]
        <4>1. h = Listed(S, m)
          BY <2>1, <3>1
        <4>2. Listed(S, m) = [k \in 0..m |->
                  IF k = 0 THEN <<>>
                  ELSE IF k - 1 \in S THEN Append(Listed(S, m)[k - 1], k - 1) ELSE Listed(S, m)[k - 1]]
          BY ListedIs
        <4>3. QED
          BY ONLY <4>1, <4>2
      <3>3. QED
        BY <3>1, <3>2
    <2> DEFINE P == {k \in Nat : k <= n => g[k] = h[k]}
    <2>4. 0 \in P
      BY <2>2, <2>3
    <2>5. ASSUME NEW k \in Nat, k \in P PROVE k + 1 \in P
      <3>1. SUFFICES ASSUME k + 1 <= n PROVE g[k + 1] = h[k + 1]
        OBVIOUS
      <3>2. PICK l \in 0..n : l = k + 1 /\ l # 0 /\ l - 1 = k /\ l \in 0..(n + 1)
        BY <3>1
      <3>3. g[l] = IF k \in S THEN Append(g[k], k) ELSE g[k]
        BY <2>2, <3>2
      <3>4. h[l] = IF k \in S THEN Append(h[k], k) ELSE h[k]
        BY <2>3, <3>2
      <3>5. g[k] = h[k]
        BY <2>5, <3>1
      <3>6. QED
        BY <3>2, <3>3, <3>4, <3>5
    <2> HIDE DEF P
    <2>6. n \in P
      BY <2>4, <2>5, InductionOnNat
    <2>7. g[n] = h[n]
      BY <2>6 DEF P
    <2>8. PICK l \in 0..(n + 1) : l = n + 1 /\ l # 0 /\ l - 1 = n
      OBVIOUS
    <2>9. h[l] = IF n \in S THEN Append(h[n], n) ELSE h[n]
      BY <2>3, <2>8
    <2>10. Ascending(S, n + 1) = h[l] /\ Ascending(S, n) = g[n]
      BY <1>1, <2>1, <2>8
    <2>11. QED
      BY <2>7, <2>9, <2>10
  <1>5. QED
    BY <1>2, <1>3, <1>4

\* So do ranks.
LEMMA RankGrows ==
    ASSUME NEW S
    PROVE  /\ Rank(S, 0) = 0
           /\ \A n \in Nat : Rank(S, n) \in Nat
           /\ \A n \in Nat : Rank(S, n + 1) = Rank(S, n) + IF n \in S THEN 1 ELSE 0
  <1>1. Rank(S, 0) = 0
    BY AscendingGrows DEF Rank
  <1>2. ASSUME NEW n \in Nat PROVE Rank(S, n) \in Nat /\ Rank(S, n + 1) = Rank(S, n) + IF n \in S THEN 1 ELSE 0
    <2>1. PICK a \in Seq(Nat) : a = Ascending(S, n)
      BY AscendingGrows
    <2>2. Ascending(S, n + 1) = IF n \in S THEN Append(a, n) ELSE a
      BY <2>1, AscendingGrows
    <2>3. Len(Append(a, n)) = Len(a) + 1 /\ Len(a) \in Nat
      BY <2>1
    <2>4. Rank(S, n + 1) = Len(IF n \in S THEN Append(a, n) ELSE a) /\ Rank(S, n) = Len(a)
      BY <2>1, <2>2 DEF Rank
    <2>5. CASE n \in S
      BY <2>3, <2>4, <2>5
    <2>6. CASE n \notin S
      BY <2>3, <2>4, <2>6
    <2>7. QED
      BY <2>5, <2>6
  <1>3. QED
    BY <1>1, <1>2

\* By one number at a time at most.
LEMMA RankRises ==
    ASSUME NEW S, NEW x \in Nat, NEW y \in Nat, x <= y
    PROVE  Rank(S, x) <= Rank(S, y) /\ Rank(S, y) - Rank(S, x) <= y - x
  <1> DEFINE P == {k \in Nat : Rank(S, x) <= Rank(S, x + k) /\ Rank(S, x + k) - Rank(S, x) <= k}
  <1>1. 0 \in P
    BY RankGrows
  <1>2. ASSUME NEW k \in Nat, k \in P PROVE k + 1 \in P
    <2>1. PICK z \in Nat : z = x + k /\ x + (k + 1) = z + 1
      OBVIOUS
    <2>2. PICK a \in Nat, b \in Nat, c \in Nat : a = Rank(S, x) /\ b = Rank(S, z) /\ c = Rank(S, z + 1)
      <3>1. z + 1 \in Nat
        OBVIOUS
      <3>2. Rank(S, x) \in Nat /\ Rank(S, z) \in Nat /\ Rank(S, z + 1) \in Nat
        BY <3>1, RankGrows
      <3>3. QED
        BY <3>2
    <2>3. c = b \/ c = b + 1
      <3>1. Rank(S, z + 1) = Rank(S, z) + IF z \in S THEN 1 ELSE 0
        BY RankGrows
      <3>2. QED
        BY <2>2, <3>1
    <2>4. a <= b /\ b - a <= k
      BY <1>2, <2>1, <2>2
    <2>5. a <= c /\ c - a <= k + 1
      BY <2>3, <2>4
    <2>6. QED
      BY <2>1, <2>2, <2>5
  <1> HIDE DEF P
  <1>3. y - x \in P
    <2>1. y - x \in Nat /\ \A k \in Nat : k \in P
      BY <1>1, <1>2, InductionOnNat
    <2>2. QED
      BY <2>1
  <1>4. x + (y - x) = y
    OBVIOUS
  <1>5. QED
    BY <1>3, <1>4 DEF P

\* A number of S is listed at its rank.
LEMMA ListedAtRank ==
    ASSUME NEW S, NEW n \in Nat, NEW i \in Nat, i \in S, i < n
    PROVE  Rank(S, i) + 1 \in 1..Len(Ascending(S, n)) /\ Ascending(S, n)[Rank(S, i) + 1] = i
  <1>1. PICK r \in Nat : r = Rank(S, i)
    BY RankGrows
  <1> DEFINE P == {k \in Nat : r + 1 \in 1..Len(Ascending(S, i + 1 + k)) /\ Ascending(S, i + 1 + k)[r + 1] = i}
  <1>2. 0 \in P
    <2>1. PICK a \in Seq(Nat) : a = Ascending(S, i) /\ Len(a) = r
      BY <1>1, AscendingGrows DEF Rank
    <2>2. Ascending(S, i + 1) = Append(a, i)
      BY <2>1, AscendingGrows
    <2>3. Len(Append(a, i)) = r + 1 /\ Append(a, i)[r + 1] = i
      BY <2>1
    <2>4. QED
      BY <2>2, <2>3
  <1>3. ASSUME NEW k \in Nat, k \in P PROVE k + 1 \in P
    <2>1. PICK z \in Nat : z = i + 1 + k /\ i + 1 + (k + 1) = z + 1
      OBVIOUS
    <2>2. PICK a \in Seq(Nat) : a = Ascending(S, z)
      BY AscendingGrows
    <2>3. r + 1 \in 1..Len(a) /\ a[r + 1] = i
      BY <1>3, <2>1, <2>2
    <2>4. Ascending(S, z + 1) = Append(a, z) \/ Ascending(S, z + 1) = a
      BY <2>2, AscendingGrows
    <2>5. r + 1 \in 1..Len(Append(a, z)) /\ Append(a, z)[r + 1] = i
      BY <2>3
    <2>6. PICK more : more = Ascending(S, z + 1) /\ (more = Append(a, z) \/ more = a)
      BY <2>4
    <2>7. r + 1 \in 1..Len(more) /\ more[r + 1] = i
      BY <2>3, <2>5, <2>6
    <2>8. QED
      BY <2>1, <2>6, <2>7
  <1> HIDE DEF P
  <1>4. n - (i + 1) \in P
    <2>1. n - (i + 1) \in Nat /\ \A k \in Nat : k \in P
      BY <1>2, <1>3, InductionOnNat
    <2>2. QED
      BY <2>1
  <1>5. i + 1 + (n - (i + 1)) = n
    OBVIOUS
  <1>6. QED
    BY <1>1, <1>4, <1>5 DEF P

\* T has the numbers of S that are in s .. t - 1.
Within(T, S, s, t) == \A x \in Nat : x \in T <=> x \in S /\ s <= x /\ x < t

\* The rank of y among those.
RankedWithin(T, S, s, t, y) ==
    Rank(T, y) = IF y <= s THEN 0
                 ELSE IF y <= t THEN Rank(S, y) - Rank(S, s) ELSE Rank(S, t) - Rank(S, s)

\* Every number has that rank.
LEMMA RankWithin ==
    ASSUME NEW S, NEW T, NEW s \in Nat, NEW t \in Nat, s <= t, Within(T, S, s, t), NEW y \in Nat
    PROVE  RankedWithin(T, S, s, t, y)
  <1> DEFINE P == {k \in Nat : Rank(T, k) = IF k <= s THEN 0
                                  ELSE IF k <= t THEN Rank(S, k) - Rank(S, s) ELSE Rank(S, t) - Rank(S, s)}
  <1>1. 0 \in P
    BY RankGrows
  <1>2. ASSUME NEW k \in Nat, k \in P PROVE k + 1 \in P
    <2>1. PICK a \in Nat, b \in Nat, c \in Nat, x \in Nat, z \in Nat :
              a = Rank(S, k) /\ b = Rank(S, s) /\ c = Rank(S, t) /\ x = Rank(T, k) /\ z = Rank(S, k + 1)
      <3>1. k + 1 \in Nat
        OBVIOUS
      <3>2. /\ Rank(S, k) \in Nat /\ Rank(S, s) \in Nat /\ Rank(S, t) \in Nat
            /\ Rank(T, k) \in Nat /\ Rank(S, k + 1) \in Nat
        BY <3>1, RankGrows
      <3>3. QED
        BY <3>2
    <2>2. z = a + IF k \in S THEN 1 ELSE 0
      BY <2>1, RankGrows
    <2>3. Rank(T, k + 1) = x + IF k \in T THEN 1 ELSE 0
      BY <2>1, RankGrows
    <2>4. x = IF k <= s THEN 0 ELSE IF k <= t THEN a - b ELSE c - b
      BY <1>2, <2>1
    <2>5. k = s => a = b
      BY <2>1
    <2>6. k = t => a = c
      BY <2>1
    <2>7. k \in T <=> k \in S /\ s <= k /\ k < t
      BY DEF Within
    <2>8. Rank(T, k + 1) = IF k + 1 <= s THEN 0 ELSE IF k + 1 <= t THEN z - b ELSE c - b
      <3>1. CASE k < s
        BY <2>2, <2>3, <2>4, <2>7, <3>1
      <3>2. CASE s <= k /\ k < t
        <4>1. x = a - b
          BY <2>4, <2>5, <3>2
        <4>2. QED
          BY <2>2, <2>3, <2>7, <3>2, <4>1
      <3>3. CASE s <= k /\ t <= k
        <4>1. x = c - b
          BY <2>4, <2>5, <2>6, <3>3
        <4>2. QED
          BY <2>3, <2>7, <3>3, <4>1
      <3>4. QED
        BY <3>1, <3>2, <3>3
    <2>9. QED
      BY <2>1, <2>8
  <1> HIDE DEF P
  <1>3. y \in P
    BY <1>1, <1>2, InductionOnNat
  <1>4. QED
    BY <1>3 DEF P, RankedWithin

\* Among them, the rank is that from the first of them on.
LEMMA RankInside ==
    ASSUME NEW S, NEW T, NEW s \in Nat, NEW t \in Nat, s <= t, Within(T, S, s, t),
           NEW y \in Nat, s <= y, y <= t
    PROVE  Rank(T, y) = Rank(S, y) - Rank(S, s)
  <1>1. PICK a \in Nat, b \in Nat : a = Rank(S, y) /\ b = Rank(S, s)
    <2>1. Rank(S, y) \in Nat /\ Rank(S, s) \in Nat
      BY RankGrows
    <2>2. QED
      BY <2>1
  <1>2. RankedWithin(T, S, s, t, y)
    BY RankWithin
  <1>3. y = s => a = b
    BY <1>1
  <1>4. QED
    BY <1>1, <1>2, <1>3 DEF RankedWithin

\* Behind them, it is how many they are.
LEMMA RankBehind ==
    ASSUME NEW S, NEW T, NEW s \in Nat, NEW t \in Nat, s <= t, Within(T, S, s, t),
           NEW y \in Nat, t <= y
    PROVE  Rank(T, y) = Rank(S, t) - Rank(S, s)
  <1>1. PICK a \in Nat, b \in Nat, c \in Nat : a = Rank(S, y) /\ b = Rank(S, s) /\ c = Rank(S, t)
    <2>1. Rank(S, y) \in Nat /\ Rank(S, s) \in Nat /\ Rank(S, t) \in Nat
      BY RankGrows
    <2>2. QED
      BY <2>1
  <1>2. RankedWithin(T, S, s, t, y)
    BY RankWithin
  <1>3. (y = s => a = b) /\ (y = t => a = c) /\ (s = t => b = c)
    BY <1>1
  <1>4. QED
    BY <1>1, <1>2, <1>3 DEF RankedWithin

\* T has the places from .. to - 1 after base that S has.
HasPlaces(T, from, to, base, S) == T = {b \in from..(to - 1) : base + b \in S}

\* Counting them.
LEMMA CountsRanks ==
    ASSUME NEW S, NEW base \in Nat, NEW from \in Nat, NEW to \in Nat, from <= to, NEW T,
           HasPlaces(T, from, to, base, S)
    PROVE  Cardinality(T) = Rank(S, base + to) - Rank(S, base + from)
  <1> DEFINE C(k) == {b \in from..(from + k - 1) : base + b \in S}
             P == {k \in Nat : IsFiniteSet(C(k)) /\ Cardinality(C(k)) = Rank(S, base + (from + k)) - Rank(S, base + from)}
  <1>1. 0 \in P
    <2>1. C(0) = {}
      OBVIOUS
    <2>2. IsFiniteSet({}) /\ Cardinality({}) = 0
      BY FS_EmptySet
    <2>3. Rank(S, base + from) \in Nat /\ from + 0 = from
      <3>1. PICK y \in Nat : y = base + from
        OBVIOUS
      <3>2. Rank(S, y) \in Nat
        BY RankGrows
      <3>3. QED
        BY <3>1, <3>2
    <2> HIDE DEF C
    <2>4. QED
      BY <2>1, <2>2, <2>3
  <1>2. ASSUME NEW k \in Nat, k \in P PROVE k + 1 \in P
    <2>1. PICK z \in Nat : z = from + k /\ from + (k + 1) = z + 1 /\ base + (z + 1) = (base + z) + 1
      OBVIOUS
    <2>2. PICK a \in Nat, b \in Nat : a = Rank(S, base + from) /\ b = Rank(S, base + z)
      <3>1. base + from \in Nat /\ base + z \in Nat
        OBVIOUS
      <3>2. QED
        BY <3>1, RankGrows
    <2>3. Rank(S, base + (z + 1)) = b + IF base + z \in S THEN 1 ELSE 0
      <3>1. PICK y \in Nat : y = base + z /\ base + (z + 1) = y + 1
        OBVIOUS
      <3>2. Rank(S, y + 1) = Rank(S, y) + IF y \in S THEN 1 ELSE 0
        BY RankGrows
      <3>3. QED
        BY <2>2, <3>1, <3>2
    <2>4. IsFiniteSet(C(k)) /\ Cardinality(C(k)) = b - a
      BY <1>2, <2>1, <2>2
    <2>5. CASE base + z \in S
      <3>1. C(k + 1) = C(k) \cup {z}
        BY <2>1, <2>5
      <3>2. z \notin C(k)
        BY <2>1
      <3> HIDE DEF C
      <3>3. IsFiniteSet(C(k) \cup {z}) /\ Cardinality(C(k) \cup {z}) = Cardinality(C(k)) + 1
        BY <2>4, <3>2, FS_AddElement
      <3>4. Cardinality(C(k + 1)) = (b + 1) - a /\ IsFiniteSet(C(k + 1))
        BY <2>2, <2>4, <3>1, <3>3
      <3>5. Rank(S, base + (from + (k + 1))) = b + 1
        BY <2>1, <2>3, <2>5
      <3>6. QED
        BY <2>2, <3>4, <3>5
    <2>6. CASE base + z \notin S
      <3>1. C(k + 1) = C(k)
        BY <2>1, <2>6
      <3> HIDE DEF C
      <3>2. QED
        BY <2>1, <2>2, <2>3, <2>4, <2>6, <3>1
    <2>7. QED
      BY <2>5, <2>6
  <1>3. to - from \in P
    <2> HIDE DEF P
    <2>1. to - from \in Nat /\ \A k \in Nat : k \in P
      BY <1>1, <1>2, InductionOnNat
    <2>2. QED
      BY <2>1
  <1>4. from + (to - from) = to
    OBVIOUS
  <1>5. C(to - from) = T
    BY <1>4 DEF HasPlaces
  <1> HIDE DEF C
  <1>6. QED
    BY <1>3, <1>4, <1>5

-----------------------------------------------------------------------------
(* MainlyConstantEncoder: counting.                                        *)

\* The contract's operators, as MainlyConstant names them.
LEMMA MainlyConstantContract ==
    /\ \A s : MC!Rows(s) = Rows(s)
    /\ MC!Nullopt = Nullopt /\ MC!Threw = Threw /\ MC!Junk = Junk
    /\ \A a, b : MC!Lesser(a, b) = Lesser(a, b) /\ MC!Greater(a, b) = Greater(a, b)
    /\ \A S, n : MC!Ascending(S, n) = Ascending(S, n)
    /\ \A s : MC!Total(s) = Total(s)
    /\ \A s : MC!Cardinality(s) = Cardinality(s)
  BY DEF MC!Rows, Rows, MC!Nullopt, Nullopt, MC!Threw, Threw, MC!Junk, Junk, MC!Lesser, Lesser, MC!Greater, Greater,
     MC!Ascending, Ascending, MC!Total, Total, MC!SumTo, SumTo,
     MC!Cardinality, Cardinality, MC!IsFiniteSet, IsFiniteSet

\* The rows of d that are not v.
OtherRows(d, v) == {i \in 0..(Len(d) - 1) : d[i + 1] # v}

\* A level has q words that hold d, all ones past it.
IsLevel(l, d, v, q) ==
    /\ l.n = Len(d) /\ l.common = v
    /\ q \in Nat /\ Len(d) <= q * WordBits
    /\ \A b \in 0..(q * WordBits - 1) : ~l.bits[b] <=> b \in OtherRows(d, v)

\* Division with a rest.
LEMMA DivisionWithRest ==
    ASSUME NEW v \in Nat, NEW d \in Nat \ {0}
    PROVE  \E p \in Nat : \E t \in 0..(d - 1) : p = v \div d /\ t = v % d /\ v = p * d + t
  <1> DEFINE p == v \div d
             t == v % d
  <1>1. v \in Int /\ p \in Int /\ t \in 0..(d - 1) /\ v = p * d + t
    OBVIOUS
  <1>2. p \in Nat
    OBVIOUS
  <1>3. p = v \div d /\ t = v % d
    OBVIOUS
  <1> HIDE DEF p, t
  <1>4. QED
    BY <1>1, <1>2, <1>3

\* The bits of whole words.
LEMMA WordsCompare ==
    ASSUME NEW w \in Nat, NEW u \in Nat
    PROVE  /\ w * WordBits \in Nat
           /\ w <= u <=> w * WordBits <= u * WordBits
           /\ (w + 1) * WordBits = w * WordBits + WordBits
  <1>1. PICK p \in Nat \ {0} : p = WordBits
    BY BoundsAssumption
  <1>2. w * p \in Nat /\ u * p \in Nat /\ (w + 1) * p = w * p + p /\ (u + 1) * p = u * p + p
    OBVIOUS
  <1>3. w <= u => w * p <= u * p
    OBVIOUS
  <1>4. w >= u + 1 => w * p >= (u + 1) * p
    OBVIOUS
  <1>5. QED
    BY <1>1, <1>2, <1>3, <1>4

\* x is bit b of word w, whose first bit is c.
AtBit(x, w, b, c) ==
    /\ w \in Nat /\ b \in Nat /\ c \in Nat
    /\ w = x \div WordBits /\ b = x % WordBits /\ b < WordBits
    /\ c = w * WordBits /\ x = c + b

\* Every number is.
LEMMA WordsAndBits == \A x \in Nat : \E w, b, c : AtBit(x, w, b, c)
  <1>0. SUFFICES ASSUME NEW x \in Nat PROVE \E w, b, c : AtBit(x, w, b, c)
    OBVIOUS
  <1>1. PICK p \in Nat \ {0} : p = WordBits
    BY BoundsAssumption
  <1>2. PICK w \in Nat : \E t \in 0..(p - 1) : w = x \div p /\ t = x % p /\ x = w * p + t
    BY DivisionWithRest
  <1>3. PICK b \in 0..(p - 1) : w = x \div p /\ b = x % p /\ x = w * p + b
    BY <1>2
  <1>4. PICK c \in Nat : c = w * p /\ x = c + b
    <2>1. w * p \in Nat
      OBVIOUS
    <2>2. QED
      BY <1>3, <2>1
  <1>5. b \in Nat /\ b < p
    OBVIOUS
  <1>6. AtBit(x, w, b, c)
    BY <1>1, <1>3, <1>4, <1>5 DEF AtBit
  <1>7. QED
    BY <1>6

\* The encoder makes such levels.
LEMMA LevelsEncoded ==
    ASSUME NEW d \in Seq(Int), NEW v
    PROVE  \E q : IsLevel(MC!Level(d, v), d, v, q)
  <1>1. PICK n \in Nat : n = Len(d)
    OBVIOUS
  <1>2. PICK q : q = MC!NumWords(n)
    OBVIOUS
  <1>3. q \in Nat /\ n <= q * WordBits
    <2>1. PICK x \in Nat : x = n + WordBits - 1
      BY BoundsAssumption
    <2>2. q = x \div WordBits
      BY <1>2, <2>1 DEF MC!NumWords
    <2>7. PICK w, b, y : AtBit(x, w, b, y)
      BY WordsAndBits
    <2>3. w \in Nat /\ b \in Nat /\ y \in Nat /\ w = q /\ b < WordBits /\ y = w * WordBits /\ x = y + b
      BY <2>2, <2>7 DEF AtBit
    <2>4. q \in Nat /\ y = q * WordBits
      BY <2>3
    <2>5. n <= y
      BY <2>1, <2>3, BoundsAssumption
    <2>6. QED
      BY <2>3, <2>4, <2>5
  <1>4. PICK l : l = MC!Level(d, v)
    OBVIOUS
  <1>5. /\ l.n = n /\ l.common = v
        /\ l.bits = [b \in 0..(q * WordBits - 1) |-> b >= n \/ d[b + 1] = v]
    BY <1>1, <1>2, <1>4 DEF MC!Level, MC!Bitmap
  <1>6. ASSUME NEW b \in 0..(q * WordBits - 1) PROVE ~l.bits[b] <=> b \in OtherRows(d, v)
    <2>1. l.bits[b] = (b >= n \/ d[b + 1] = v)
      BY <1>5
    <2>2. b \in Int /\ b >= 0
      BY <1>3, BoundsAssumption
    <2>3. b \in OtherRows(d, v) <=> ~(b >= n) /\ d[b + 1] # v
      BY <1>1, <2>2 DEF OtherRows
    <2>4. QED
      BY ONLY <2>1, <2>3
  <1>7. IsLevel(l, d, v, q)
    BY <1>1, <1>3, <1>5, <1>6 DEF IsLevel
  <1>8. QED
    BY <1>4, <1>7

\* Zero bits of a word.
LEMMA ZerosAre ==
    ASSUME NEW d \in Seq(Int), NEW v, NEW l, NEW q, IsLevel(l, d, v, q),
           NEW w \in Nat, NEW from \in Nat, NEW to \in Nat, from <= to, w * WordBits + to <= q * WordBits
    PROVE  MC!Zeros(l, w, from, to)
               = Rank(OtherRows(d, v), w * WordBits + to) - Rank(OtherRows(d, v), w * WordBits + from)
  <1> DEFINE c == w * WordBits
  <1>1. c \in Nat
    BY BoundsAssumption
  <1>0. MC!Zeros(l, w, from, to) = Cardinality({b \in from..(to - 1) : ~l.bits[c + b]})
    BY MainlyConstantContract DEF MC!Zeros
  <1>2. PICK m \in Nat : m = q * WordBits /\ c + to <= m
    BY BoundsAssumption DEF IsLevel
  <1> HIDE DEF c
  <1>3. PICK S : S = OtherRows(d, v)
    OBVIOUS
  <1>4. \A b \in from..(to - 1) : ~l.bits[c + b] <=> c + b \in S
    <2>1. ASSUME NEW b \in from..(to - 1) PROVE ~l.bits[c + b] <=> c + b \in S
      <3>1. c + b \in 0..(m - 1)
        BY <1>1, <1>2
      <3>2. QED
        BY <1>2, <1>3, <3>1 DEF IsLevel
    <2>2. QED
      BY <2>1
  <1>5. {b \in from..(to - 1) : ~l.bits[c + b]} = {b \in from..(to - 1) : c + b \in S}
    BY <1>4
  <1>6. PICK T : T = {b \in from..(to - 1) : c + b \in S}
    OBVIOUS
  <1>7. Cardinality(T) = Rank(S, c + to) - Rank(S, c + from)
    <2>1. HasPlaces(T, from, to, c, S)
      BY <1>6 DEF HasPlaces
    <2>2. QED
      BY <1>1, <2>1, CountsRanks
  <1>8. QED
    BY <1>0, <1>3, <1>5, <1>6, <1>7 DEF c

\* Zero bits of words.
LEMMA FullWordsAre ==
    ASSUME NEW d \in Seq(Int), NEW v, NEW l, NEW q, IsLevel(l, d, v, q),
           NEW lo \in Nat, NEW hi \in Nat, lo <= hi, hi <= q
    PROVE  MC!FullWords(l, lo, hi)
               = Rank(OtherRows(d, v), hi * WordBits) - Rank(OtherRows(d, v), lo * WordBits)
  <1>1. PICK S : S = OtherRows(d, v)
    OBVIOUS
  <1>2. PICK m \in Nat : m = hi - lo
    OBVIOUS
  <1>3. PICK t : t = [k \in 1..m |-> MC!Zeros(l, lo + k - 1, 0, WordBits)]
    OBVIOUS
  <1>4. Len(t) = m
    BY <1>3
  <1>5. MC!FullWords(l, lo, hi) = SumTo(t, m)
    <2>1. MC!FullWords(l, lo, hi) = Total(t)
      BY <1>2, <1>3, MainlyConstantContract DEF MC!FullWords
    <2>2. QED
      BY <1>4, <2>1 DEF Total
  <1> DEFINE r(k) == Rank(S, (lo + k) * WordBits)
  <1>6. \A k \in 0..m : r(k) \in Nat
    <2>1. ASSUME NEW k \in 0..m PROVE r(k) \in Nat
      <3>1. PICK x \in Nat : x = (lo + k) * WordBits
        <4>1. lo + k \in Nat /\ WordBits \in Nat
          BY BoundsAssumption
        <4>2. QED
          BY <4>1
      <3>2. Rank(S, x) \in Nat
        BY RankGrows
      <3>3. QED
        BY <3>1, <3>2
    <2>2. QED
      BY <2>1
  <1>7. \A k \in 1..m : t[k] = r(k) - r(k - 1) /\ t[k] \in Nat
    <2>1. ASSUME NEW k \in 1..m PROVE t[k] = r(k) - r(k - 1) /\ t[k] \in Nat
      <3>1. PICK w \in Nat : w = lo + k - 1 /\ w + 1 = lo + k /\ w = lo + (k - 1) /\ w + 1 <= q
        BY <1>2 DEF IsLevel
      <3>2. PICK c \in Nat : c = w * WordBits
        BY BoundsAssumption
      <3>3. c + WordBits = (w + 1) * WordBits
        BY <3>2, BoundsAssumption
      <3>4. c + WordBits <= q * WordBits
        <4>1. (w + 1) * WordBits <= q * WordBits
          BY <3>1, BoundsAssumption DEF IsLevel
        <4>2. QED
          BY <3>3, <4>1
      <3>5. MC!Zeros(l, w, 0, WordBits) = Rank(S, c + WordBits) - Rank(S, c + 0)
        <4>1. 0 \in Nat /\ WordBits \in Nat /\ 0 <= WordBits
          BY BoundsAssumption
        <4>2. QED
          BY <1>1, <3>2, <3>4, <4>1, ZerosAre
      <3>6. t[k] = MC!Zeros(l, w, 0, WordBits)
        BY <1>3, <3>1
      <3>7. r(k) = Rank(S, c + WordBits) /\ r(k - 1) = Rank(S, c) /\ c + 0 = c
        BY <3>1, <3>2, <3>3
      <3>8. PICK x \in Nat : x = c + WordBits /\ c <= x
        BY BoundsAssumption
      <3>9. Rank(S, c) <= Rank(S, x) /\ Rank(S, c) \in Nat /\ Rank(S, x) \in Nat
        BY <3>8, RankRises, RankGrows
      <3> HIDE DEF r
      <3>10. QED
        BY <3>5, <3>6, <3>7, <3>8, <3>9
    <2>2. QED
      BY <2>1
  <1> HIDE DEF r
  <1>8. /\ SumTo(t, 0) = 0
        /\ \A k \in 0..m : SumTo(t, k) \in Nat
        /\ \A k \in 1..m : SumTo(t, k) = SumTo(t, k - 1) + t[k]
    BY <1>7, SumToStep
  <1> DEFINE P == {k \in Nat : k <= m => SumTo(t, k) = r(k) - r(0)}
  <1>9. 0 \in P
    BY <1>6, <1>8
  <1>10. ASSUME NEW k \in Nat, k \in P PROVE k + 1 \in P
    <2>1. SUFFICES ASSUME k + 1 <= m PROVE SumTo(t, k + 1) = r(k + 1) - r(0)
      OBVIOUS
    <2>2. PICK j \in 1..m : j = k + 1 /\ j - 1 = k
      BY <2>1
    <2>3. SumTo(t, j) = SumTo(t, k) + t[j] /\ t[j] = r(j) - r(k)
      BY <1>7, <1>8, <2>2
    <2>4. SumTo(t, k) = r(k) - r(0)
      BY <1>10, <2>1
    <2>5. r(k) \in Nat /\ r(j) \in Nat /\ r(0) \in Nat
      BY <1>6, <2>2
    <2>6. QED
      BY <2>2, <2>3, <2>4, <2>5
  <1> HIDE DEF P
  <1>11. m \in P
    BY <1>9, <1>10, InductionOnNat
  <1>12. SumTo(t, m) = r(m) - r(0)
    BY <1>11 DEF P
  <1>13. lo + m = hi /\ lo + 0 = lo
    BY <1>2
  <1>14. r(m) = Rank(S, hi * WordBits) /\ r(0) = Rank(S, lo * WordBits)
    BY <1>13 DEF r
  <1>15. QED
    BY <1>1, <1>5, <1>12, <1>14

\* prefixNonCommonCount.
LEMMA PrefixIs ==
    ASSUME NEW d \in Seq(Int), NEW v, NEW l, NEW q, IsLevel(l, d, v, q), NEW x \in Nat, x <= Len(d)
    PROVE  MC!PrefixNonCommonCount(l, x) = Rank(OtherRows(d, v), x)
  <1>1. PICK S : S = OtherRows(d, v)
    OBVIOUS
  <1>20. PICK w0, b0, c0 : AtBit(x, w0, b0, c0)
    BY WordsAndBits
  <1>2. PICK w \in Nat, b \in Nat, c \in Nat :
            /\ w = x \div WordBits /\ b = x % WordBits /\ b < WordBits
            /\ c = w * WordBits /\ x = c + b
    BY <1>20 DEF AtBit
  <1>3. q \in Nat
    BY DEF IsLevel
  <1>4. PICK m \in Nat : m = q * WordBits /\ x <= m
    <2>1. PICK m \in Nat : m = q * WordBits
      BY <1>3, WordsCompare
    <2>2. Len(d) \in Nat
      OBVIOUS
    <2>3. QED
      BY <2>1, <2>2 DEF IsLevel
  <1>5. w <= q
    <2>1. c <= m
      BY <1>2, <1>4
    <2>2. w * WordBits <= q * WordBits
      BY <1>2, <1>4, <2>1
    <2>3. w <= q <=> w * WordBits <= q * WordBits
      BY <1>3, WordsCompare
    <2>4. QED
      BY ONLY <2>2, <2>3
  <1>6. MC!FullWords(l, 0, w) = Rank(S, c)
    <2>1. MC!FullWords(l, 0, w) = Rank(S, w * WordBits) - Rank(S, 0 * WordBits)
      BY <1>1, <1>5, FullWordsAre
    <2>2. 0 * WordBits = 0
      BY BoundsAssumption
    <2>3. Rank(S, 0) = 0 /\ Rank(S, c) \in Nat
      BY RankGrows
    <2>4. QED
      BY <1>2, <2>1, <2>2, <2>3
  <1>7. Rank(S, c) \in Nat /\ Rank(S, x) \in Nat
    BY RankGrows
  <1>8. CASE b > 0
    <2>1. MC!Zeros(l, w, 0, b) = Rank(S, c + b) - Rank(S, c + 0)
      <3>1. w * WordBits + b <= q * WordBits /\ 0 <= b /\ 0 \in Nat
        BY <1>2, <1>4
      <3>2. QED
        BY <1>1, <1>2, <3>1, ZerosAre
    <2>2. MC!PrefixNonCommonCount(l, x) = MC!FullWords(l, 0, w) + MC!Zeros(l, w, 0, b)
      BY <1>2, <1>8 DEF MC!PrefixNonCommonCount
    <2>3. c + b = x /\ c + 0 = c
      BY <1>2
    <2>4. PICK g \in Nat, h \in Nat : g = Rank(S, c) /\ h = Rank(S, x)
      BY <1>7
    <2>5. MC!PrefixNonCommonCount(l, x) = g + (h - g)
      BY <1>6, <2>1, <2>2, <2>3, <2>4
    <2>6. g + (h - g) = h
      OBVIOUS
    <2>7. QED
      BY <1>1, <2>4, <2>5, <2>6
  <1>9. CASE b = 0
    <2>1. MC!PrefixNonCommonCount(l, x) = MC!FullWords(l, 0, w) + 0
      BY <1>2, <1>9 DEF MC!PrefixNonCommonCount
    <2>2. c = x
      BY <1>2, <1>9
    <2>3. QED
      BY <1>1, <1>6, <1>7, <2>1, <2>2
  <1>10. QED
    BY <1>2, <1>8, <1>9

\* Larger numbers have no fewer words.
LEMMA QuotientRises ==
    ASSUME NEW x \in Nat, NEW y \in Nat, x <= y
    PROVE  x \div WordBits <= y \div WordBits
  <1>21. PICK w0, b0, c0 : AtBit(x, w0, b0, c0)
    BY WordsAndBits
  <1>1. PICK w \in Nat, b \in Nat, c \in Nat :
            /\ w = x \div WordBits /\ b = x % WordBits /\ b < WordBits
            /\ c = w * WordBits /\ x = c + b
    BY <1>21 DEF AtBit
  <1>22. PICK u0, a0, e0 : AtBit(y, u0, a0, e0)
    BY WordsAndBits
  <1>2. PICK u \in Nat, a \in Nat, e \in Nat :
            /\ u = y \div WordBits /\ a = y % WordBits /\ a < WordBits
            /\ e = u * WordBits /\ y = e + a
    BY <1>22 DEF AtBit
  <1>3. PICK f \in Nat, p \in Nat, v \in Nat : v = u + 1 /\ f = v * WordBits /\ p = WordBits /\ f = e + p
    <2>1. u + 1 \in Nat /\ WordBits \in Nat
      BY BoundsAssumption
    <2>2. (u + 1) * WordBits \in Nat /\ (u + 1) * WordBits = e + WordBits
      BY <1>2, <2>1, WordsCompare
    <2>3. QED
      BY <2>1, <2>2
  <1>4. ~(v <= w)
    <2>1. c < f
      BY <1>1, <1>2, <1>3
    <2>2. v <= w <=> f <= c
      BY <1>1, <1>3, WordsCompare
    <2>3. QED
      BY <2>1, <2>2
  <1>5. QED
    BY <1>1, <1>2, <1>3, <1>4

\* rangeNonCommonCount.
LEMMA RangeIs ==
    ASSUME NEW d \in Seq(Int), NEW v, NEW l, NEW q, IsLevel(l, d, v, q),
           NEW x \in Nat, NEW y \in Nat, x <= y, y <= Len(d)
    PROVE  MC!RangeNonCommonCount(l, x, y) = Rank(OtherRows(d, v), y) - Rank(OtherRows(d, v), x)
  <1>1. PICK S : S = OtherRows(d, v)
    OBVIOUS
  <1>23. PICK w0, b0, c0 : AtBit(x, w0, b0, c0)
    BY WordsAndBits
  <1>2. PICK w \in Nat, b \in Nat, c \in Nat :
            /\ w = x \div WordBits /\ b = x % WordBits /\ b < WordBits
            /\ c = w * WordBits /\ x = c + b
    BY <1>23 DEF AtBit
  <1>24. PICK u0, a0, e0 : AtBit(y, u0, a0, e0)
    BY WordsAndBits
  <1>3. PICK u \in Nat, a \in Nat, e \in Nat :
            /\ u = y \div WordBits /\ a = y % WordBits /\ a < WordBits
            /\ e = u * WordBits /\ y = e + a
    BY <1>24 DEF AtBit
  <1>4. PICK m \in Nat, f \in Nat, p \in Nat :
            m = q * WordBits /\ f = (w + 1) * WordBits /\ p = WordBits /\ f = c + p /\ q \in Nat
    <2>1. q \in Nat /\ w + 1 \in Nat /\ WordBits \in Nat
      BY BoundsAssumption DEF IsLevel
    <2>2. q * WordBits \in Nat /\ (w + 1) * WordBits \in Nat /\ (w + 1) * WordBits = c + WordBits
      BY <1>2, <2>1, WordsCompare
    <2>3. QED
      BY <2>1, <2>2
  <1>5. y <= m
    <2>1. Len(d) <= m /\ Len(d) \in Nat
      BY <1>4 DEF IsLevel
    <2>2. QED
      BY <2>1
  <1>6. \A z \in Nat : Rank(S, z) \in Nat
    BY RankGrows
  <1>7. CASE x = y
    BY <1>1, <1>6, <1>7 DEF MC!RangeNonCommonCount
  <1>8. w <= u
    BY <1>2, <1>3, QuotientRises
  <1>9. CASE x < y /\ w = u
    <2>0. e = c
      BY ONLY <1>2, <1>3, <1>9
    <2>1. b < a /\ a > 0
      <3>1. c + b < c + a
        BY ONLY <1>2, <1>3, <1>9, <2>0
      <3>2. c \in Nat /\ b \in Nat /\ a \in Nat
        BY <1>2, <1>3
      <3>3. QED
        BY ONLY <3>1, <3>2
    <2>2. MC!UpTo(a) = a
      BY <2>1 DEF MC!UpTo
    <2>3. MC!RangeNonCommonCount(l, x, y) = MC!Zeros(l, w, b, a)
      <3>1. ~(x >= y)
        BY <1>9
      <3>2. QED
        BY ONLY <1>2, <1>3, <1>9, <2>2, <3>1 DEF MC!RangeNonCommonCount
    <2>4. w * WordBits + a <= q * WordBits /\ b <= a
      <3>1. c + a = y /\ y <= m /\ b <= a
        BY <1>3, <1>5, <2>0, <2>1
      <3>2. QED
        BY ONLY <1>2, <1>4, <3>1
    <2>5. MC!Zeros(l, w, b, a) = Rank(S, c + a) - Rank(S, c + b)
      <3>1. MC!Zeros(l, w, b, a) = Rank(S, w * WordBits + a) - Rank(S, w * WordBits + b)
        BY <1>1, <2>4, ZerosAre
      <3>2. QED
        BY ONLY <1>2, <3>1
    <2>6. c + a = y
      BY <1>2, <1>3, <1>9
    <2>7. QED
      BY <1>1, <1>2, <2>3, <2>5, <2>6
  <1>10. CASE x < y /\ w # u
    <2>1. w + 1 <= u
      BY <1>8, <1>10
    <2>2. f <= e
      <3>1. w + 1 \in Nat
        OBVIOUS
      <3>2. QED
        BY <1>3, <1>4, <2>1, <3>1, WordsCompare
    <2>3. u <= q
      <3>1. e <= m
        BY <1>3, <1>4, <1>5
      <3>2. QED
        BY <1>3, <1>4, <3>1, WordsCompare
    <2>4. MC!Zeros(l, w, b, WordBits) = Rank(S, f) - Rank(S, x)
      <3>1. w * WordBits + WordBits <= q * WordBits /\ b <= WordBits /\ WordBits \in Nat
        BY <1>2, <1>3, <1>4, <1>5, <2>2
      <3>2. MC!Zeros(l, w, b, WordBits) = Rank(S, c + WordBits) - Rank(S, c + b)
        <4>1. MC!Zeros(l, w, b, WordBits) = Rank(S, w * WordBits + WordBits) - Rank(S, w * WordBits + b)
          BY <1>1, <3>1, ZerosAre
        <4>2. QED
          BY ONLY <1>2, <4>1
      <3>3. QED
        BY <1>2, <1>4, <3>2
    <2>5. MC!FullWords(l, w + 1, u) = Rank(S, e) - Rank(S, f)
      <3>1. w + 1 \in Nat
        OBVIOUS
      <3>2. MC!FullWords(l, w + 1, u) = Rank(S, u * WordBits) - Rank(S, (w + 1) * WordBits)
        BY <1>1, <2>1, <2>3, <3>1, FullWordsAre
      <3>3. QED
        BY <1>3, <1>4, <3>2
    <2>6. CASE a > 0
      <3>1. MC!Zeros(l, u, 0, a) = Rank(S, e + a) - Rank(S, e + 0)
        <4>1. u * WordBits + a <= q * WordBits /\ 0 <= a /\ 0 \in Nat
          BY <1>3, <1>4, <1>5
        <4>2. QED
          BY <1>1, <1>3, <4>1, ZerosAre
      <3>2. e + 0 = e /\ e + a = y
        BY <1>3
      <3>3. MC!RangeNonCommonCount(l, x, y)
              = MC!Zeros(l, w, b, WordBits) + MC!FullWords(l, w + 1, u) + MC!Zeros(l, u, 0, a)
        <4>1. ~(x >= y)
          BY <1>10
        <4>2. QED
          BY ONLY <1>2, <1>3, <1>10, <2>6, <4>1 DEF MC!RangeNonCommonCount
      <3>4. PICK g \in Nat, h \in Nat, i \in Nat, j \in Nat :
                g = Rank(S, x) /\ h = Rank(S, f) /\ i = Rank(S, e) /\ j = Rank(S, y)
        BY <1>6
      <3>5. MC!RangeNonCommonCount(l, x, y) = (h - g) + (i - h) + (j - i)
        BY <2>4, <2>5, <3>1, <3>2, <3>3, <3>4
      <3>6. (h - g) + (i - h) + (j - i) = j - g
        OBVIOUS
      <3>7. QED
        BY <1>1, <3>4, <3>5, <3>6
    <2>7. CASE a = 0
      <3>1. MC!RangeNonCommonCount(l, x, y)
              = MC!Zeros(l, w, b, WordBits) + MC!FullWords(l, w + 1, u) + 0
        <4>1. ~(x >= y) /\ ~(a > 0)
          BY <1>10, <2>7
        <4>2. QED
          BY ONLY <1>2, <1>3, <1>10, <4>1 DEF MC!RangeNonCommonCount
      <3>2. e = y
        BY <1>3, <2>7
      <3>3. PICK g \in Nat, h \in Nat, i \in Nat :
                g = Rank(S, x) /\ h = Rank(S, f) /\ i = Rank(S, e)
        BY <1>6
      <3>4. MC!RangeNonCommonCount(l, x, y) = (h - g) + (i - h) + 0
        BY <2>4, <2>5, <3>1, <3>3
      <3>5. (h - g) + (i - h) + 0 = i - g
        OBVIOUS
      <3>6. QED
        BY <1>1, <3>2, <3>3, <3>4, <3>5
    <2>8. QED
      BY <2>6, <2>7
  <1>11. QED
    BY <1>7, <1>9, <1>10

\* Whatever is counted, the count is a natural number.
LEMMA CountsAreNatural ==
    ASSUME NEW l
    PROVE  /\ \A w, from, to \in Nat : MC!Zeros(l, w, from, to) \in Nat
           /\ \A x \in Nat : MC!PrefixNonCommonCount(l, x) \in Nat
           /\ \A x, y \in Nat : MC!RangeNonCommonCount(l, x, y) \in Nat
  <1>1. ASSUME NEW w \in Nat, NEW from \in Nat, NEW to \in Nat PROVE MC!Zeros(l, w, from, to) \in Nat
    <2>1. PICK T : T = {b \in from..(to - 1) : ~l.bits[w * WordBits + b]}
      OBVIOUS
    <2>2. MC!Zeros(l, w, from, to) = Cardinality(T)
      BY <2>1, MainlyConstantContract DEF MC!Zeros
    <2>3. IsFiniteSet(from..(to - 1))
      BY FS_Interval
    <2>4. T \in SUBSET (from..(to - 1))
      BY <2>1
    <2>5. IsFiniteSet(T)
      BY <2>3, <2>4, FS_Subset
    <2>6. QED
      BY <2>2, <2>5, FS_CardinalityType
  <1>2. ASSUME NEW lo \in Nat, NEW hi \in Nat, lo <= hi PROVE MC!FullWords(l, lo, hi) \in Nat
    <2>1. PICK m \in Nat : m = hi - lo
      BY <1>2
    <2>2. PICK t : t = [k \in 1..m |-> MC!Zeros(l, lo + k - 1, 0, WordBits)]
      OBVIOUS
    <2>3. \A k \in 1..m : t[k] \in Nat
      <3>1. ASSUME NEW k \in 1..m PROVE t[k] \in Nat
        <4>1. lo + k - 1 \in Nat /\ 0 \in Nat /\ WordBits \in Nat
          BY BoundsAssumption
        <4>2. MC!Zeros(l, lo + k - 1, 0, WordBits) \in Nat
          BY <1>1, <4>1
        <4>3. QED
          BY <2>2, <4>2
      <3>2. QED
        BY <3>1
    <2>4. MC!FullWords(l, lo, hi) = Total(t)
      BY <2>1, <2>2, MainlyConstantContract DEF MC!FullWords
    <2>5. Len(t) = m
      BY <2>2
    <2>6. SumTo(t, m) \in Nat
      BY <2>3, SumToStep
    <2>7. QED
      BY <2>4, <2>5, <2>6 DEF Total
  <1>3. \A x \in Nat : x \div WordBits \in Nat /\ x % WordBits \in Nat
    <2>1. ASSUME NEW x \in Nat PROVE x \div WordBits \in Nat /\ x % WordBits \in Nat
      <3>1. PICK w, b, c : AtBit(x, w, b, c)
        BY WordsAndBits
      <3>2. QED
        BY <3>1 DEF AtBit
    <2>2. QED
      BY <2>1
  <1>4. ASSUME NEW x \in Nat PROVE MC!PrefixNonCommonCount(l, x) \in Nat
    <2>1. PICK w \in Nat, b \in Nat : w = x \div WordBits /\ b = x % WordBits
      BY <1>3
    <2>2. MC!FullWords(l, 0, w) \in Nat /\ MC!Zeros(l, w, 0, b) \in Nat
      <3>1. 0 \in Nat /\ 0 <= w
        OBVIOUS
      <3>2. QED
        BY <1>1, <1>2, <3>1
    <2>3. MC!PrefixNonCommonCount(l, x) = MC!FullWords(l, 0, w) + (IF b > 0 THEN MC!Zeros(l, w, 0, b) ELSE 0)
      BY <2>1 DEF MC!PrefixNonCommonCount
    <2>4. QED
      BY <2>2, <2>3
  <1>5. ASSUME NEW x \in Nat, NEW y \in Nat PROVE MC!RangeNonCommonCount(l, x, y) \in Nat
    <2>1. CASE x >= y
      BY <2>1 DEF MC!RangeNonCommonCount
    <2>2. CASE x < y
      <3>1. PICK w \in Nat, b \in Nat : w = x \div WordBits /\ b = x % WordBits
        BY <1>3
      <3>2. PICK u \in Nat, a \in Nat : u = y \div WordBits /\ a = y % WordBits
        BY <1>3
      <3>3. CASE w = u
        <4>1. PICK z \in Nat : z = MC!UpTo(a)
          BY BoundsAssumption DEF MC!UpTo
        <4>2. MC!RangeNonCommonCount(l, x, y) = MC!Zeros(l, w, b, z)
          BY <2>2, <3>1, <3>2, <3>3, <4>1 DEF MC!RangeNonCommonCount
        <4>3. QED
          BY <1>1, <4>2
      <3>4. CASE w # u
        <4>1. w + 1 <= u
          <5>1. w <= u
            BY <2>2, <3>1, <3>2, QuotientRises
          <5>2. QED
            BY <3>4, <5>1
        <4>2. PICK z1 \in Nat, z2 \in Nat, z3 \in Nat :
                  z1 = MC!Zeros(l, w, b, WordBits) /\ z2 = MC!FullWords(l, w + 1, u) /\ z3 = MC!Zeros(l, u, 0, a)
          <5>1. WordBits \in Nat /\ w + 1 \in Nat /\ 0 \in Nat
            BY BoundsAssumption
          <5>2. MC!Zeros(l, w, b, WordBits) \in Nat /\ MC!FullWords(l, w + 1, u) \in Nat /\ MC!Zeros(l, u, 0, a) \in Nat
            BY <1>1, <1>2, <4>1, <5>1
          <5>3. QED
            BY <5>2
        <4>3. MC!RangeNonCommonCount(l, x, y) = z1 + z2 + (IF a > 0 THEN z3 ELSE 0)
          BY <2>2, <3>1, <3>2, <3>4, <4>2 DEF MC!RangeNonCommonCount
        <4>4. QED
          BY <4>3
      <3>5. QED
        BY <3>3, <3>4
    <2>3. QED
      BY <2>1, <2>2
  <1>6. QED
    BY <1>1, <1>4, <1>5

\* Numbers compare as their words do, and their bits within a word.
LEMMA BitsCompare ==
    ASSUME NEW x, NEW w, NEW b, NEW c, AtBit(x, w, b, c),
           NEW y, NEW u, NEW a, NEW e, AtBit(y, u, a, e)
    PROVE  /\ x <= y <=> w < u \/ (w = u /\ b <= a)
           /\ c <= y <=> w <= u
           /\ y < c + WordBits <=> u <= w
  <1>1. PICK p \in Nat : p = WordBits
    BY BoundsAssumption
  <1>2. w \in Nat /\ b \in Nat /\ c \in Nat /\ b < p /\ x = c + b /\ c = w * WordBits
    BY <1>1 DEF AtBit
  <1>3. u \in Nat /\ a \in Nat /\ e \in Nat /\ a < p /\ y = e + a /\ e = u * WordBits
    BY <1>1 DEF AtBit
  <1>4. w < u => c + p <= e
    <2>1. ASSUME w < u PROVE c + p <= e
      <3>1. PICK z \in Nat : z = w + 1 /\ z <= u
        BY <1>2, <1>3, <2>1
      <3>2. z * WordBits <= u * WordBits /\ z * WordBits \in Nat /\ (w + 1) * WordBits = w * WordBits + WordBits
        BY <1>2, <1>3, <3>1, WordsCompare
      <3>3. QED
        BY <1>1, <1>2, <1>3, <3>1, <3>2
    <2>2. QED
      BY <2>1
  <1>5. u < w => e + p <= c
    <2>1. ASSUME u < w PROVE e + p <= c
      <3>1. PICK z \in Nat : z = u + 1 /\ z <= w
        BY <1>2, <1>3, <2>1
      <3>2. z * WordBits <= w * WordBits /\ z * WordBits \in Nat /\ (u + 1) * WordBits = u * WordBits + WordBits
        BY <1>2, <1>3, <3>1, WordsCompare
      <3>3. QED
        BY <1>1, <1>2, <1>3, <3>1, <3>2
    <2>2. QED
      BY <2>1
  <1>6. w = u => c = e
    BY ONLY <1>2, <1>3
  <1>7. CASE w < u
    <2>1. c + p <= e
      BY <1>4, <1>7
    <2>2. x <= y /\ c <= y /\ ~(y < c + p)
      BY ONLY <1>1, p \in Nat, <1>2, <1>3, <2>1
    <2>3. w <= u /\ ~(u <= w)
      BY ONLY <1>2, <1>3, <1>7
    <2>4. QED
      BY <1>1, <1>7, <2>2, <2>3
  <1>8. CASE u < w
    <2>1. e + p <= c
      BY <1>5, <1>8
    <2>2. ~(x <= y) /\ ~(c <= y) /\ y < c + p
      BY ONLY <1>1, p \in Nat, <1>2, <1>3, <2>1
    <2>3. ~(w <= u) /\ u <= w /\ ~(w < u) /\ w # u
      BY ONLY <1>2, <1>3, <1>8
    <2>4. QED
      BY <1>1, <1>8, <2>2, <2>3
  <1>9. CASE u = w
    <2>1. (x <= y <=> b <= a) /\ c <= y /\ y < c + p
      BY ONLY <1>1, p \in Nat, <1>2, <1>3, <1>6, <1>9
    <2>2. w <= u /\ u <= w /\ ~(w < u)
      BY ONLY <1>2, <1>3, <1>9
    <2>3. QED
      BY <1>1, <1>9, <2>1, <2>2
  <1>10. QED
    BY <1>2, <1>3, <1>7, <1>8, <1>9

\* The bits up to the one before t are those of its word up to that bit.
LEMMA UpToLast ==
    ASSUME NEW t \in Nat, NEW w, NEW b, NEW c, AtBit(t, w, b, c)
    PROVE  MC!UpTo((t + 1) % WordBits) = b + 1
  <1>1. PICK p \in Nat \ {0} : p = WordBits
    BY BoundsAssumption
  <1>2. w \in Nat /\ b \in Nat /\ c \in Nat /\ b < p /\ t = c + b /\ c = w * p
    BY <1>1 DEF AtBit
  <1>3. CASE b + 1 < p
    <2>1. PICK r \in 0..(p - 1) : r = b + 1 /\ r # 0
      BY <1>2, <1>3
    <2>2. w \in Int
      BY <1>2
    <2>3. (w * p + r) % p = r
      BY <2>2, QuotientUnique
    <2>4. t + 1 = w * p + r
      BY ONLY <1>2, <2>1
    <2>5. (t + 1) % p = r
      BY ONLY <2>3, <2>4
    <2>6. QED
      BY <1>1, <2>1, <2>5 DEF MC!UpTo
  <1>4. CASE b + 1 = p
    <2>1. PICK z \in Int, r \in 0..(p - 1) : z = w + 1 /\ r = 0
      BY <1>2
    <2>2. (z * p + r) % p = r
      BY QuotientUnique
    <2>3. PICK f \in Nat : f = z * p /\ f = c + p
      <3>1. (w + 1) * p \in Nat /\ (w + 1) * p = w * p + p
        BY <1>2
      <3>2. QED
        BY <1>2, <2>1, <3>1
    <2>4. t + 1 = z * p + r
      BY <1>2, <1>4, <2>1, <2>3
    <2>5. (t + 1) % p = 0
      BY ONLY <2>1, <2>2, <2>4
    <2>6. QED
      BY <1>1, <1>4, <2>5 DEF MC!UpTo
  <1>5. QED
    BY <1>2, <1>3, <1>4

\* The words' zero bits between two rows are those rows that have another value.
LEMMA UncommonIs ==
    ASSUME NEW d \in Seq(Int), NEW v, NEW l, NEW q, IsLevel(l, d, v, q),
           NEW s \in Nat, NEW t \in Nat, s < t, t <= Len(d)
    PROVE  \E T : \E n \in Nat : /\ MC!Uncommon(l, s, t) = Ascending(T, n) /\ t <= n
                                 /\ Within(T, OtherRows(d, v), s, t)
  <1>1. PICK S : S = OtherRows(d, v)
    OBVIOUS
  <1>2. PICK y \in Nat : y = t - 1 /\ y + 1 = t
    OBVIOUS
  <1>3. PICK ws, bs, cs : AtBit(s, ws, bs, cs)
    BY WordsAndBits
  <1>4. PICK wl, bl, cl : AtBit(y, wl, bl, cl)
    BY WordsAndBits
  <1>5. PICK m \in Nat : m = cl + WordBits /\ m = (wl + 1) * WordBits /\ t <= m
    <2>1. wl \in Nat /\ cl \in Nat /\ bl \in Nat /\ bl < WordBits /\ y = cl + bl /\ cl = wl * WordBits
      BY <1>4 DEF AtBit
    <2>2. (wl + 1) * WordBits = wl * WordBits + WordBits
      BY <2>1, WordsCompare
    <2>3. cl + WordBits \in Nat /\ t <= cl + WordBits
      BY <1>2, <2>1, BoundsAssumption
    <2>4. QED
      BY <2>1, <2>2, <2>3
  <1>6. PICK T : T = {i \in cs..(m - 1) :
                        (/\ i \div WordBits = ws => i % WordBits >= bs
                         /\ i \div WordBits = wl => i % WordBits < bl + 1) /\ ~l.bits[i]}
    OBVIOUS
  <1>7. MC!Uncommon(l, s, t) = Ascending(T, m)
    <2>1. ws = s \div WordBits /\ bs = s % WordBits /\ cs = ws * WordBits
      BY <1>3 DEF AtBit
    <2>2. wl = (t - 1) \div WordBits
      BY <1>2, <1>4 DEF AtBit
    <2>3. MC!UpTo(t % WordBits) = bl + 1
      BY <1>2, <1>4, UpToLast
    <2>4. MC!Uncommon(l, s, t) = MC!Ascending(T, m)
      BY ONLY <1>5, <1>6, <2>1, <2>2, <2>3 DEF MC!Uncommon
    <2>5. QED
      BY <2>4, MainlyConstantContract
  <1>8. ASSUME NEW x \in Nat PROVE x \in T <=> x \in S /\ s <= x /\ x < t
    <2>1. PICK w, b, c : AtBit(x, w, b, c)
      BY WordsAndBits
    <2>2. /\ w \in Nat /\ b \in Nat /\ w = x \div WordBits /\ b = x % WordBits
          /\ ws \in Nat /\ bs \in Nat /\ wl \in Nat /\ bl \in Nat /\ cs \in Nat
      BY <1>3, <1>4, <2>1 DEF AtBit
    <2>3. (s <= x <=> ws < w \/ (ws = w /\ bs <= b)) /\ (cs <= x <=> ws <= w)
      BY <1>3, <2>1, BitsCompare
    <2>4. (x <= y <=> w < wl \/ (w = wl /\ b <= bl))
      BY <1>4, <2>1, BitsCompare
    <2>5. x < m <=> w <= wl
      BY <1>4, <1>5, <2>1, BitsCompare
    <2>6. x <= y <=> x < t
      BY <1>2
    <2>7. x \in cs..(m - 1) <=> ws <= w /\ w <= wl
      BY <2>2, <2>3, <2>5
    <2>8. x \in T <=> ws <= w /\ w <= wl /\ (w = ws => b >= bs) /\ (w = wl => b < bl + 1) /\ ~l.bits[x]
      BY <1>6, <2>2, <2>7
    <2>9. ws <= w /\ w <= wl /\ (w = ws => b >= bs) /\ (w = wl => b < bl + 1) <=> s <= x /\ x < t
      BY ONLY <2>2, <2>3, <2>4, <2>6
    <2>10. x < t => (~l.bits[x] <=> x \in S)
      <3>1. PICK z \in Nat : z = q * WordBits
        BY BoundsAssumption DEF IsLevel
      <3>2. Len(d) <= z /\ Len(d) \in Nat
        BY <3>1 DEF IsLevel
      <3>3. x < t => x \in 0..(z - 1)
        BY <3>2
      <3>4. QED
        BY <1>1, <3>1, <3>3 DEF IsLevel
    <2>11. QED
      BY ONLY <2>8, <2>9, <2>10
  <1>9. QED
    BY <1>1, <1>5, <1>7, <1>8 DEF Within

\* The other values of d, in row order.
LEMMA OthersAre ==
    ASSUME NEW d \in Seq(Int), NEW v
    PROVE  /\ MC!Others(d, v) \in Seq(Int) /\ Len(MC!Others(d, v)) = Rank(OtherRows(d, v), Len(d))
           /\ \A i \in OtherRows(d, v) :
                 /\ i \in Nat /\ i < Len(d)
                 /\ Rank(OtherRows(d, v), i) + 1 \in 1..Len(MC!Others(d, v))
                 /\ MC!Others(d, v)[Rank(OtherRows(d, v), i) + 1] = d[i + 1]
  <1>1. PICK n \in Nat : n = Len(d) /\ \A i \in 1..n : d[i] \in Int
    OBVIOUS
  <1>2. PICK S : S = OtherRows(d, v)
    OBVIOUS
  <1>3. PICK a : a = Ascending(S, n)
    OBVIOUS
  <1>4. Ascends(a, S, n)
    BY <1>3, AscendingAscends
  <1>5. PICK m \in Nat : m = Len(a) /\ DOMAIN a = 1..m /\ \A k \in 1..m : a[k] \in Nat /\ a[k] < n
    <2>1. a \in Seq(Nat) /\ \A k \in 1..Len(a) : a[k] < n
      BY <1>4 DEF Ascends
    <2>2. Len(a) \in Nat /\ DOMAIN a = 1..Len(a) /\ \A k \in 1..Len(a) : a[k] \in Nat
      BY <2>1
    <2>3. QED
      BY ONLY <2>1, <2>2
  <1>6. PICK o : o = [k \in 1..m |-> d[a[k] + 1]]
    OBVIOUS
  <1>7. MC!Others(d, v) = o
    BY <1>1, <1>2, <1>3, <1>5, <1>6, MainlyConstantContract DEF MC!Others, OtherRows
  <1>8. \A k \in 1..m : d[a[k] + 1] \in Int
    <2>1. \A k \in 1..m : a[k] + 1 \in 1..n
      BY <1>5
    <2>2. QED
      BY <1>1, <2>1
  <1>9. o \in Seq(Int) /\ Len(o) = m
    BY <1>6, <1>8
  <1>10. m = Rank(S, n)
    BY <1>3, <1>5 DEF Rank
  <1>11. ASSUME NEW i \in S
         PROVE  i \in Nat /\ i < n /\ Rank(S, i) + 1 \in 1..m /\ o[Rank(S, i) + 1] = d[i + 1]
    <2>1. i \in Nat /\ i < n
      BY <1>1, <1>2 DEF OtherRows
    <2>2. Rank(S, i) + 1 \in 1..m /\ a[Rank(S, i) + 1] = i
      BY <1>3, <1>5, <2>1, ListedAtRank
    <2>3. PICK k \in 1..m : k = Rank(S, i) + 1 /\ a[k] = i
      BY <2>2
    <2>4. o[k] = d[i + 1]
      BY <1>6, <2>3
    <2>5. QED
      BY <2>1, <2>3, <2>4
  <1>12. QED
    BY <1>1, <1>2, <1>7, <1>9, <1>10, <1>11

\* The rows of a level, from the other values between them.
LEMMA ScatterIs ==
    ASSUME NEW d \in Seq(Int), NEW v, NEW l, NEW q, IsLevel(l, d, v, q),
           NEW s \in Nat, NEW t \in Nat, s < t, t <= Len(d), NEW slice,
           slice = Slice(MC!Others(d, v), Rank(OtherRows(d, v), s), Rank(OtherRows(d, v), t))
    PROVE  /\ MC!Scatter(l, s, t, slice) = Slice(d, s, t)
           /\ Len(MC!Uncommon(l, s, t)) = Rank(OtherRows(d, v), t) - Rank(OtherRows(d, v), s)
  <1>1. PICK S : S = OtherRows(d, v)
    OBVIOUS
  <1>2. PICK n \in Nat : n = Len(d) /\ \A i \in 1..n : d[i] \in Int
    OBVIOUS
  <1>3. PICK o \in Seq(Int) : o = MC!Others(d, v)
    BY OthersAre
  <1>4. PICK x \in Nat, y \in Nat, z \in Nat :
            x = Rank(S, s) /\ y = Rank(S, t) /\ z = Rank(S, n) /\ x <= y /\ y <= z /\ Len(o) = z
    <2>1. Rank(S, s) \in Nat /\ Rank(S, t) \in Nat /\ Rank(S, n) \in Nat
      BY RankGrows
    <2>2. Rank(S, s) <= Rank(S, t) /\ Rank(S, t) <= Rank(S, n)
      BY <1>2, RankRises
    <2>3. Len(o) = Rank(S, n)
      BY <1>1, <1>2, <1>3, OthersAre
    <2>4. QED
      BY <2>1, <2>2, <2>3
  <1>5. PICK T : \E m \in Nat : /\ MC!Uncommon(l, s, t) = Ascending(T, m) /\ t <= m
                                /\ Within(T, S, s, t)
    BY <1>1, UncommonIs
  <1>6. PICK m \in Nat : /\ MC!Uncommon(l, s, t) = Ascending(T, m) /\ t <= m
                         /\ Within(T, S, s, t)
    BY <1>5
  <1>7. PICK a : a = Ascending(T, m)
    OBVIOUS
  <1>8. Ascends(a, T, m)
    BY <1>7, AscendingAscends
  <1>9. \A i \in Nat : s <= i /\ i <= t => Rank(T, i) = Rank(S, i) - x
    <2>1. ASSUME NEW i \in Nat, s <= i, i <= t PROVE Rank(T, i) = Rank(S, i) - x
      <3>1. s <= t /\ Within(T, S, s, t)
        BY <1>6
      <3>2. Rank(T, i) = Rank(S, i) - Rank(S, s)
        BY <2>1, <3>1, RankInside
      <3>3. QED
        BY <1>4, <3>2
    <2>2. QED
      BY <2>1
  <1>10. Len(a) = y - x
    <2>1. s <= t /\ t <= m /\ Within(T, S, s, t)
      BY <1>6
    <2>2. Rank(T, m) = Rank(S, t) - Rank(S, s)
      BY <2>1, RankBehind
    <2>3. QED
      BY <1>4, <1>7, <2>2 DEF Rank
  <1>11. /\ slice \in Seq(Int) /\ Len(slice) = y - x
         /\ \A k \in 1..(y - x) : slice[k] = o[x + k]
    <2>1. slice = Slice(o, x, y)
      BY <1>1, <1>3, <1>4
    <2>2. Clipped(o, x, y) = y - x
      BY <1>4 DEF Clipped, Greater, Lesser
    <2>3. QED
      <3>1. /\ Slice(o, x, y) \in Seq(Int) /\ Len(Slice(o, x, y)) = Clipped(o, x, y)
        BY ONLY o \in Seq(Int), x \in Nat, y \in Nat, SliceIs
      <3>2. \A k \in 1..Clipped(o, x, y) : Slice(o, x, y)[k] = o[x + k]
        BY ONLY o \in Seq(Int), x \in Nat, y \in Nat, SliceIs
      <3>3. QED
        BY ONLY <2>1, <2>2, <3>1, <3>2
  <1> DEFINE sc == MC!Scatter(l, s, t, slice)
             Val(k) == IF \E j \in DOMAIN a : a[j] = s + k - 1
                       THEN IF (CHOOSE j \in DOMAIN a : a[j] = s + k - 1) \in DOMAIN slice
                            THEN slice[CHOOSE j \in DOMAIN a : a[j] = s + k - 1] ELSE Junk
                       ELSE v
  <1>12. sc = [k \in 1..(t - s) |-> Val(k)]
    BY <1>6, <1>7, MainlyConstantContract DEF MC!Scatter, IsLevel
  <1>13. DOMAIN a = 1..(y - x)
    BY <1>8, <1>10 DEF Ascends
  <1>14. DOMAIN slice = 1..(y - x)
    BY <1>11
  <1>15. ASSUME NEW k \in 1..(t - s) PROVE Val(k) = d[s + k]
    <2>1. PICK i \in Nat : i = s + k - 1 /\ i + 1 = s + k /\ s <= i /\ i < t /\ i < n
      BY <1>2
    <2>2. CASE i \in S
      <3>1. i \in T /\ i < m
        BY <1>6, <2>1, <2>2 DEF Within
      <3>2. Rank(T, i) + 1 \in 1..Len(a) /\ a[Rank(T, i) + 1] = i
        BY <1>7, <3>1, ListedAtRank
      <3>3. PICK j \in 1..(y - x) : j = Rank(T, i) + 1 /\ a[j] = i
        BY <1>10, <3>2
      <3>4. \A h \in 1..(y - x) : a[h] = i => h = j
        <4>1. ASSUME NEW h \in 1..(y - x), a[h] = i, h # j PROVE FALSE
          <5>1. h < j \/ j < h
            BY <4>1
          <5>2. a[h] < a[j] \/ a[j] < a[h]
            BY <1>4, <1>8, <1>10, <5>1 DEF Ascends
          <5>3. QED
            BY <3>3, <4>1, <5>2
        <4>2. QED
          BY <4>1
      <3>5. (CHOOSE g \in DOMAIN a : a[g] = s + k - 1) = j /\ \E g \in DOMAIN a : a[g] = s + k - 1
        BY <1>13, <2>1, <3>3, <3>4
      <3>6. Val(k) = slice[j]
        BY <1>14, <3>5
      <3>7. PICK r \in Nat : r = Rank(S, i)
        BY RankGrows
      <3>8. x + j = r + 1
        <4>1. Rank(T, i) = r - x
          BY <1>9, <2>1, <3>7
        <4>2. QED
          BY <3>3, <4>1
      <3>9. o[r + 1] = d[i + 1]
        BY <1>1, <1>3, <2>2, <3>7, OthersAre
      <3> HIDE DEF Val
      <3>10. QED
        BY <1>11, <2>1, <3>6, <3>8, <3>9
    <2>3. CASE i \notin S
      <3>1. ~\E j \in DOMAIN a : a[j] = s + k - 1
        <4>1. SUFFICES ASSUME NEW j \in 1..(y - x), a[j] = i PROVE FALSE
          BY <1>13, <2>1
        <4>2. a[j] \in T
          BY <1>4, <1>8, <1>10, <4>1 DEF Ascends
        <4>3. QED
          BY <1>6, <2>1, <2>3, <4>1, <4>2 DEF Within
      <3>2. Val(k) = v
        BY <3>1
      <3>3. d[i + 1] = v
        BY <1>1, <1>2, <2>1, <2>3 DEF OtherRows
      <3> HIDE DEF Val
      <3>4. QED
        BY <2>1, <3>2, <3>3
    <2>4. QED
      BY <2>2, <2>3
  <1>16. \A k \in 1..(t - s) : sc[k] = d[s + k]
    BY <1>12, <1>15
  <1>17. sc \in Seq(Int) /\ Len(sc) = t - s
    <2>1. \A k \in 1..(t - s) : d[s + k] \in Int
      <3>1. \A k \in 1..(t - s) : s + k \in 1..n
        BY <1>2
      <3>2. QED
        BY <1>2, <3>1
    <2>2. t - s \in Nat
      OBVIOUS
    <2>3. sc = [k \in 1..(t - s) |-> sc[k]]
      BY <1>12
    <2> HIDE DEF sc, Val
    <2>4. QED
      <3>0. PICK g : g = sc
        OBVIOUS
      <3>1. PICK m1 \in Nat : m1 = t - s /\ g = sc
        BY <2>2, <3>0
      <3>2. g = [k \in 1..m1 |-> d[s + k]]
        BY <1>16, <2>3, <3>1
      <3>3. \A k \in 1..m1 : d[s + k] \in Int
        BY <2>1, <3>1
      <3>4. g \in Seq(Int) /\ Len(g) = m1
        BY <3>2, <3>3
      <3>5. QED
        BY <3>1, <3>4
  <1> HIDE DEF sc, Val
  <1>18. Clipped(d, s, t) = t - s
    BY <1>2 DEF Clipped, Greater, Lesser
  <1>19. sc = Slice(d, s, t)
    BY <1>16, <1>17, <1>18, SliceMade
  <1>20. QED
    BY <1>1, <1>4, <1>6, <1>7, <1>10, <1>19 DEF sc

\* What a chain's encoders store.
SomeLevels == {MC!Level(x, v) : x \in Seq(Int), v \in Int}

\* A chain, and the other values of its last encoder.
SomeChains == [levels : Seq(SomeLevels), others : Seq(Int)]

\* A level holds the column x but for its other values y.
Holds(l, x, y) == \E v, q : IsLevel(l, x, v, q) /\ y = MC!Others(x, v)

\* c has the column of every level of e, the first is d and the last is kept raw.
IsChain(e, c, d) ==
    /\ e \in SomeChains
    /\ c \in Seq(Seq(Int)) /\ Len(c) = Len(e.levels) + 1
    /\ c[1] = d /\ c[Len(e.levels) + 1] = e.others
    /\ \A k \in 1..Len(e.levels) : Holds(e.levels[k], c[k], c[k + 1])

\* A chain of some columns that encodes d's rows, if it has any.
Encodes(e, d) == (\E c : IsChain(e, c, d)) /\ (e.levels = <<>> => d = <<>>)

\* One encoder more.
LEMMA ChainsExtend ==
    ASSUME NEW d \in Seq(Int), NEW e, NEW c, IsChain(e, c, d), NEW f \in MC!Extended(e)
    PROVE  f \in SomeChains /\ Encodes(f, d)
  <1>1. PICK m \in Nat, x \in Seq(Int) : m = Len(e.levels) /\ x = e.others
    <2>1. Len(e.levels) \in Nat /\ e.others \in Seq(Int)
      BY DEF IsChain, SomeChains
    <2>2. QED
      BY <2>1
  <1>2. CASE x = <<>>
    <2>1. f = e
      BY <1>1, <1>2 DEF MC!Extended
    <2>2. e.levels = <<>> => d = <<>>
      <3>1. ASSUME e.levels = <<>> PROVE m + 1 = 1
        BY <1>1, <3>1
      <3>2. QED
        BY <1>1, <1>2, <3>1 DEF IsChain
    <2>3. QED
      BY <2>1, <2>2 DEF IsChain, Encodes
  <1>3. CASE x # <<>>
    <2>1. PICK v \in MC!MostFrequent(x) :
              f = [levels |-> Append(e.levels, MC!Level(x, v)), others |-> MC!Others(x, v)]
      BY <1>1, <1>3 DEF MC!Extended
    <2>2. v \in Int
      BY <2>1 DEF MC!MostFrequent
    <2>3. PICK l \in SomeLevels : l = MC!Level(x, v)
      BY <2>2 DEF SomeLevels
    <2>4. PICK y \in Seq(Int) : y = MC!Others(x, v)
      BY OthersAre
    <2>5. PICK ls \in Seq(SomeLevels) : ls = e.levels /\ Len(ls) = m
      BY <1>1 DEF IsChain, SomeChains
    <2>6. f = [levels |-> Append(ls, l), others |-> y]
      BY <2>1, <2>3, <2>4, <2>5
    <2>7. /\ Append(ls, l) \in Seq(SomeLevels) /\ Len(Append(ls, l)) = m + 1
          /\ Append(ls, l)[m + 1] = l /\ \A k \in 1..m : Append(ls, l)[k] = ls[k]
      BY <2>5
    <2>8. c \in Seq(Seq(Int)) /\ Len(c) = m + 1 /\ c[1] = d /\ c[m + 1] = x
      BY <1>1 DEF IsChain
    <2>9. PICK g : g = Append(c, y)
      OBVIOUS
    <2>10. /\ g \in Seq(Seq(Int)) /\ Len(g) = (m + 1) + 1 /\ g[(m + 1) + 1] = y
           /\ \A k \in 1..(m + 1) : g[k] = c[k]
      BY <2>8, <2>9
    <2>11. Holds(l, x, y)
      BY <2>3, <2>4, LevelsEncoded DEF Holds
    <2>12. ASSUME NEW k \in 1..(m + 1) PROVE Holds(f.levels[k], g[k], g[k + 1])
      <3>1. CASE k = m + 1
        BY <2>6, <2>7, <2>8, <2>10, <2>11, <3>1
      <3>2. CASE k # m + 1
        <4>1. k \in 1..m /\ k + 1 \in 1..(m + 1)
          BY <3>2
        <4>2. f.levels[k] = e.levels[k] /\ g[k] = c[k] /\ g[k + 1] = c[k + 1]
          BY <2>5, <2>6, <2>7, <2>10, <4>1
        <4>3. QED
          BY <1>1, <4>1, <4>2 DEF IsChain
      <3>3. QED
        BY <3>1, <3>2
    <2>13. f \in SomeChains /\ Len(f.levels) = m + 1 /\ f.others = y
      BY <2>6, <2>7 DEF SomeChains
    <2>14. 1 \in 1..(m + 1)
      OBVIOUS
    <2>15. IsChain(f, g, d)
      BY <2>8, <2>10, <2>12, <2>13, <2>14 DEF IsChain
    <2>16. f.levels # <<>>
      BY <2>13
    <2>17. QED
      BY <2>13, <2>15, <2>16 DEF Encodes
  <1>4. QED
    BY <1>2, <1>3

\* The encodings are such chains.
LEMMA ChainsEncode ==
    ASSUME NEW d \in Seq(Int), NEW depth \in Nat, NEW e \in MC!Encodings(d, depth)
    PROVE  Encodes(e, d)
  <1> DEFINE raw == [MC!Empty EXCEPT !.others = d]
             S == SUBSET SomeChains
             Typed(s) == {g \in SomeChains : \E f \in s : g \in MC!Extended(f)}
             F == [p \in S \X (Nat \ {0}) |-> Typed(p[1])]
             Is(h, n) == h = [k \in 0..n |-> IF k = 0 THEN {raw} ELSE UNION {MC!Extended(f) : f \in h[k - 1]}]
             OfColumn(s) == \A f \in s : \E c : IsChain(f, c, d)
  <1>1. PICK n \in Nat : n = depth + 1
    OBVIOUS
  <1>2. IsChain(raw, <<d>>, d)
    <2>1. raw \in SomeChains /\ Len(raw.levels) = 0 /\ raw.others = d
      <3>1. raw = [levels |-> <<>>, others |-> d]
        BY DEF MC!Empty
      <3> HIDE DEF raw
      <3>2. QED
        BY <3>1 DEF SomeChains
    <2>2. <<d>> \in Seq(Seq(Int)) /\ Len(<<d>>) = 1 /\ <<d>>[1] = d
      OBVIOUS
    <2>3. \A k \in 1..0 : FALSE
      OBVIOUS
    <2> HIDE DEF raw
    <2>4. QED
      BY <2>1, <2>2, <2>3 DEF IsChain
  <1>3. raw \in SomeChains
    <2> HIDE DEF raw
    <2> QED
      BY <1>2 DEF IsChain
  <1>4. {raw} \in S /\ F \in [S \X (Nat \ {0}) -> S]
    <2> HIDE DEF raw
    <2>1. \A s : Typed(s) \in S
      OBVIOUS
    <2> HIDE DEF S, Typed
    <2>2. F \in [S \X (Nat \ {0}) -> S]
      BY <2>1
    <2>3. QED
      BY <1>3, <2>2 DEF S
  <1>5. PICK h \in [0..n -> S] : Follows(h, {raw}, F, n)
    <2> HIDE DEF F, S, raw
    <2> QED
      BY <1>4, FiniteRecursion
  <1>6. h[0] = {raw}
    BY <1>5 DEF Follows
  <1>7. \A k \in 1..n : h[k] = Typed(h[k - 1])
    <2>1. ASSUME NEW k \in 1..n PROVE h[k] = Typed(h[k - 1])
      <3>1. k - 1 \in 0..n /\ k \in Nat \ {0}
        OBVIOUS
      <3>2. h[k - 1] \in S
        BY <1>5, <3>1
      <3>3. h[k] = F[<<h[k - 1], k>>]
        BY <1>5 DEF Follows
      <3>4. <<h[k - 1], k>> \in S \X (Nat \ {0})
        BY <3>1, <3>2
      <3> HIDE DEF S, Typed
      <3>5. QED
        BY <3>3, <3>4
    <2>2. QED
      BY <2>1
  <1> HIDE DEF F, raw
  <1> DEFINE P == {k \in Nat : k <= n => OfColumn(h[k])}
  <1>8. 0 \in P
    BY <1>2, <1>6
  <1>9. ASSUME NEW k \in Nat, k \in P PROVE k + 1 \in P
    <2>1. SUFFICES ASSUME k + 1 <= n, NEW f \in h[k + 1] PROVE \E c : IsChain(f, c, d)
      OBVIOUS
    <2>2. f \in Typed(h[k])
      <3>1. PICK j \in 1..n : j = k + 1 /\ j - 1 = k
        BY <2>1
      <3>2. QED
        BY <1>7, <2>1, <3>1
    <2>3. PICK g \in h[k] : f \in MC!Extended(g)
      BY <2>2
    <2>4. PICK c : IsChain(g, c, d)
      BY <1>9, <2>1, <2>3
    <2>5. Encodes(f, d)
      BY <2>3, <2>4, ChainsExtend
    <2>6. QED
      BY <2>5 DEF Encodes
  <1>10. \A k \in 0..n : OfColumn(h[k])
    <2> HIDE DEF P, OfColumn
    <2>1. \A k \in Nat : k \in P
      BY <1>8, <1>9, InductionOnNat
    <2>2. QED
      BY <2>1 DEF P
  <1>11. ASSUME NEW s, OfColumn(s) PROVE Typed(s) = UNION {MC!Extended(f) : f \in s}
    <2>1. ASSUME NEW f \in s, NEW g \in MC!Extended(f) PROVE g \in SomeChains
      <3>1. PICK c : IsChain(f, c, d)
        BY <1>11
      <3>2. QED
        BY <2>1, <3>1, ChainsExtend
    <2>2. QED
      BY <2>1
  <1>12. Is(h, n)
    <2>1. \A k \in 1..n : h[k] = UNION {MC!Extended(f) : f \in h[k - 1]}
      <3>1. ASSUME NEW k \in 1..n PROVE h[k] = UNION {MC!Extended(f) : f \in h[k - 1]}
        <4>1. k - 1 \in 0..n
          OBVIOUS
        <4>2. OfColumn(h[k - 1])
          BY <1>10, <4>1
        <4> HIDE DEF OfColumn, Typed
        <4>3. QED
          BY <1>7, <1>11, <4>2
      <3>2. QED
        BY <3>1
    <2>2. \A k \in 0..n : k # 0 => k \in 1..n
      OBVIOUS
    <2>3. h = [k \in 0..n |-> h[k]]
      BY <1>5
    <2>4. QED
      BY <1>6, <2>1, <2>2, <2>3
  <1>13. PICK ch : ch = CHOOSE g : Is(g, depth + 1)
    OBVIOUS
  <1>14. Is(ch, n)
    <2> HIDE DEF Is
    <2> QED
      BY <1>1, <1>12, <1>13
  <1>15. MC!Encodings(d, depth) = ch[n]
    <2>1. MC!Encodings(d, depth) = (CHOOSE g : Is(g, depth + 1))[depth + 1]
      BY DEF MC!Encodings, raw
    <2> HIDE DEF Is
    <2>2. QED
      BY <1>1, <1>13, <2>1
  <1>16. ch[0] = {raw} /\ \A k \in 1..n : ch[k] = UNION {MC!Extended(f) : f \in ch[k - 1]}
    <2>1. \A k \in 1..n : k \in 0..n /\ k # 0
      OBVIOUS
    <2>2. 0 \in 0..n
      OBVIOUS
    <2>3. QED
      BY ONLY <1>14, <2>1, <2>2
  <1> HIDE DEF P
  <1> DEFINE Q == {k \in Nat : k <= n => OfColumn(ch[k])}
  <1>17. 0 \in Q
    BY <1>2, <1>16
  <1>18. ASSUME NEW k \in Nat, k \in Q PROVE k + 1 \in Q
    <2>1. SUFFICES ASSUME k + 1 <= n, NEW f \in ch[k + 1] PROVE \E c : IsChain(f, c, d)
      OBVIOUS
    <2>2. PICK g \in ch[k] : f \in MC!Extended(g)
      <3>1. PICK j \in 1..n : j = k + 1 /\ j - 1 = k
        BY <2>1
      <3>2. QED
        BY <1>16, <2>1, <3>1
    <2>3. PICK c : IsChain(g, c, d)
      BY <1>18, <2>1, <2>2
    <2>4. Encodes(f, d)
      BY <2>2, <2>3, ChainsExtend
    <2>5. QED
      BY <2>4 DEF Encodes
  <1>19. depth \in Q
    <2> HIDE DEF Q
    <2> QED
      BY <1>17, <1>18, InductionOnNat
  <1>20. PICK g \in ch[depth] : e \in MC!Extended(g)
    <2>1. n \in 1..n /\ n - 1 = depth
      BY <1>1
    <2>2. e \in UNION {MC!Extended(f) : f \in ch[n - 1]}
      BY <1>15, <1>16, <2>1
    <2>3. QED
      BY <2>1, <2>2
  <1>21. PICK c : IsChain(g, c, d)
    BY <1>1, <1>19, <1>20
  <1>22. QED
    BY <1>20, <1>21, ChainsExtend

\* A level's column, its other values and their ranks.
LEMMA LevelsOfChain ==
    ASSUME NEW d \in Seq(Int), NEW e, NEW c, IsChain(e, c, d), NEW k \in 1..Len(e.levels)
    PROVE  /\ c[k] \in Seq(Int) /\ c[k + 1] \in Seq(Int)
           /\ Holds(e.levels[k], c[k], c[k + 1])
  <1>1. PICK m \in Nat : m = Len(e.levels) /\ Len(c) = m + 1
    BY DEF IsChain, SomeChains
  <1>2. k \in 1..(m + 1) /\ k + 1 \in 1..(m + 1)
    BY <1>1
  <1>3. c \in Seq(Seq(Int)) /\ Holds(e.levels[k], c[k], c[k + 1])
    BY DEF IsChain
  <1>4. c[k] \in Seq(Int) /\ c[k + 1] \in Seq(Int)
    BY <1>1, <1>2, <1>3
  <1>5. QED
    BY <1>3, <1>4

-----------------------------------------------------------------------------
(* One row.                                                                *)

\* What level k answers for every row, given what the next one answers.
LevelAt(e, k, next) ==
    [j \in Nat |->
        IF k > Len(e.levels) THEN MC!Rows(<<e.others[j + 1]>>)
        ELSE IF j >= e.levels[k].n THEN MC!Nullopt
        ELSE IF e.levels[k].bits[j] THEN MC!Rows(<<e.levels[k].common>>)
        ELSE next[MC!PrefixNonCommonCount(e.levels[k], j)]]

\* g has the answers of level a and of those below.
AnswersRows(g, e, a) == g = [k \in a..(Len(e.levels) + 1) |-> LevelAt(e, k, g[k + 1])]

\* f reads the rows of x.
ReadsRows(f, x) == \A j \in Nat : j < Len(x) => f[j] = Rows(<<x[j + 1]>>)

\* There are such answers, whatever the chain.
LEMMA SomeAnswersRows ==
    ASSUME NEW e, Len(e.levels) \in Nat
    PROVE  \E g : AnswersRows(g, e, 1)
  <1>1. PICK n \in Nat : n = Len(e.levels) + 1 /\ n >= 1
    OBVIOUS
  <1> DEFINE P == {j \in Nat : j < n => \E g : AnswersRows(g, e, n - j)}
  <1>2. \A x, y : LevelAt(e, n, x) = LevelAt(e, n, y)
    BY <1>1 DEF LevelAt
  <1>3. 0 \in P
    <2>1. PICK g : g = [k \in n..n |-> LevelAt(e, k, <<>>)]
      OBVIOUS
    <2>2. \A k \in n..n : k = n
      OBVIOUS
    <2>3. g = [k \in n..n |-> LevelAt(e, k, g[k + 1])]
      BY <1>2, <2>1, <2>2
    <2>4. n - 0 = n
      OBVIOUS
    <2>5. QED
      BY <1>1, <2>3, <2>4 DEF AnswersRows
  <1>4. ASSUME NEW j \in Nat, j \in P PROVE j + 1 \in P
    <2>1. SUFFICES ASSUME j + 1 < n PROVE \E g : AnswersRows(g, e, n - (j + 1))
      OBVIOUS
    <2>2. PICK a \in Nat : a = n - (j + 1) /\ a + 1 = n - j /\ a < n
      BY <2>1
    <2>3. PICK g : g = [k \in (a + 1)..n |-> LevelAt(e, k, g[k + 1])]
      BY <1>1, <1>4, <2>1, <2>2 DEF AnswersRows
    <2>4. PICK h : h = [k \in a..n |-> IF k = a THEN LevelAt(e, a, g[a + 1]) ELSE g[k]]
      OBVIOUS
    <2>5. \A k \in (a + 1)..n : h[k] = g[k] /\ k # a
      BY <2>4
    <2>6. ASSUME NEW k \in a..n PROVE h[k] = LevelAt(e, k, h[k + 1])
      <3>1. CASE k = a
        <4>1. a + 1 \in (a + 1)..n /\ a \in a..n
          BY <2>2
        <4>2. QED
          BY <2>4, <2>5, <3>1, <4>1
      <3>2. CASE k # a /\ k < n
        <4>1. k \in (a + 1)..n /\ k + 1 \in (a + 1)..n
          BY <3>2
        <4>2. QED
          BY <2>3, <2>5, <4>1
      <3>3. CASE k # a /\ k = n
        <4>1. n \in (a + 1)..n
          BY <2>2
        <4>2. h[n] = g[n] /\ g[n] = LevelAt(e, n, g[n + 1])
          BY <2>3, <2>5, <4>1
        <4>3. QED
          BY <1>2, <3>3, <4>2
      <3>4. k = a \/ (k # a /\ k < n) \/ (k # a /\ k = n)
        BY <2>2
      <3>5. QED
        BY <3>1, <3>2, <3>3, <3>4
    <2>7. h = [k \in a..n |-> LevelAt(e, k, h[k + 1])]
      BY <2>4, <2>6
    <2>8. QED
      BY <1>1, <2>2, <2>7 DEF AnswersRows
  <1>5. PICK j \in Nat : j = n - 1 /\ n - j = 1
    BY <1>1
  <1>6. j \in P
    <2> HIDE DEF P
    <2> QED
      BY <1>3, <1>4, InductionOnNat
  <1>7. QED
    BY <1>1, <1>5, <1>6

\* A level reads its column, if the next one does.
LEMMA LevelReadsRows ==
    ASSUME NEW d \in Seq(Int), NEW e, NEW c, IsChain(e, c, d),
           NEW k \in 1..Len(e.levels), NEW next, ReadsRows(next, c[k + 1])
    PROVE  /\ ReadsRows(LevelAt(e, k, next), c[k])
           /\ \A j \in Nat : j >= Len(c[k]) => LevelAt(e, k, next)[j] = Nullopt
  <1>1. PICK x \in Seq(Int), y \in Seq(Int) : x = c[k] /\ y = c[k + 1]
    BY LevelsOfChain
  <1>2. PICK v, q : IsLevel(e.levels[k], x, v, q) /\ y = MC!Others(x, v)
    <2>1. Holds(e.levels[k], x, y)
      BY <1>1, LevelsOfChain
    <2>2. QED
      BY <2>1 DEF Holds
  <1>3. PICK l : l = e.levels[k]
    OBVIOUS
  <1>4. PICK n \in Nat, z \in Nat : n = Len(x) /\ l.n = n /\ l.common = v /\ z = q * WordBits /\ n <= z
    <2>1. q \in Nat /\ q * WordBits \in Nat
      BY <1>2, BoundsAssumption DEF IsLevel
    <2>2. QED
      BY <1>2, <1>3, <2>1 DEF IsLevel
  <1>5. ~(k > Len(e.levels))
    BY DEF IsChain, SomeChains
  <1>6. ASSUME NEW j \in Nat
        PROVE  LevelAt(e, k, next)[j] = IF j >= n THEN Nullopt
                                        ELSE IF l.bits[j] THEN Rows(<<v>>)
                                        ELSE next[MC!PrefixNonCommonCount(l, j)]
    BY <1>3, <1>4, <1>5, MainlyConstantContract DEF LevelAt
  <1>7. ASSUME NEW j \in Nat, j < n PROVE LevelAt(e, k, next)[j] = Rows(<<x[j + 1]>>)
    <2>1. ~l.bits[j] <=> j \in OtherRows(x, v)
      <3>1. j \in 0..(z - 1)
        BY <1>4, <1>7
      <3>2. QED
        BY <1>2, <1>3, <1>4, <3>1 DEF IsLevel
    <2>2. CASE l.bits[j]
      <3>1. x[j + 1] = v
        BY <1>4, <1>7, <2>1, <2>2 DEF OtherRows
      <3>2. LevelAt(e, k, next)[j] = Rows(<<v>>)
        <4>1. PICK w : w = LevelAt(e, k, next)[j]
          OBVIOUS
        <4>2. w = IF j >= n THEN Nullopt ELSE IF l.bits[j] THEN Rows(<<v>>)
                  ELSE next[MC!PrefixNonCommonCount(l, j)]
          BY <1>6, <4>1
        <4>3. ~(j >= n)
          BY <1>7
        <4>4. QED
          BY ONLY <2>2, <4>1, <4>2, <4>3
      <3>3. QED
        BY ONLY <3>1, <3>2
    <2>3. CASE ~l.bits[j]
      <3>1. j \in OtherRows(x, v)
        BY <2>1, <2>3
      <3>2. PICK r \in Nat : r = Rank(OtherRows(x, v), j)
        BY RankGrows
      <3>3. r + 1 \in 1..Len(y) /\ y[r + 1] = x[j + 1]
        BY <1>2, <3>1, <3>2, OthersAre
      <3>4. r < Len(y)
        BY <3>3
      <3>5. next[r] = Rows(<<x[j + 1]>>)
        BY <1>1, <3>3, <3>4 DEF ReadsRows
      <3>6. MC!PrefixNonCommonCount(l, j) = r
        <4>1. MC!PrefixNonCommonCount(l, j) = Rank(OtherRows(x, v), j)
          BY <1>2, <1>3, <1>4, <1>7, PrefixIs
        <4>2. QED
          BY ONLY <3>2, <4>1
      <3>7. QED
        BY <1>6, <1>7, <2>3, <3>5, <3>6
    <2>4. QED
      BY <2>2, <2>3
  <1>8. \A j \in Nat : j >= n => LevelAt(e, k, next)[j] = Nullopt
    BY <1>6
  <1>9. QED
    BY <1>1, <1>4, <1>7, <1>8 DEF ReadsRows

\* decodeAt.
LEMMA ChainsDecodeAt ==
    ASSUME NEW d \in Seq(Int), NEW e, Encodes(e, d), NEW i \in Nat
    PROVE  MC!DecodeAt(e, i) = IF i < Len(d) THEN Rows(<<d[i + 1]>>) ELSE Nullopt
  <1>1. PICK c : IsChain(e, c, d)
    BY DEF Encodes
  <1>2. PICK m \in Nat : m = Len(e.levels)
    BY <1>1 DEF IsChain, SomeChains
  <1>3. CASE e.levels = <<>>
    <2>1. d = <<>>
      BY <1>3 DEF Encodes
    <2>2. ~(i < Len(d))
      BY <2>1
    <2>3. QED
      BY <1>3, <2>2, MainlyConstantContract DEF MC!DecodeAt
  <1>4. CASE e.levels # <<>>
    <2>1. m >= 1
      BY <1>1, <1>2, <1>4 DEF IsChain, SomeChains
    <2>2. PICK at : at = CHOOSE g : AnswersRows(g, e, 1)
      OBVIOUS
    <2>3. AnswersRows(at, e, 1)
      BY <1>2, <2>2, SomeAnswersRows
    <2>4. at = [k \in 1..(m + 1) |-> LevelAt(e, k, at[k + 1])]
      BY <1>2, <2>3 DEF AnswersRows
    <2>5. MC!DecodeAt(e, i) = at[1][i]
      BY <1>4, <2>2 DEF MC!DecodeAt, AnswersRows, LevelAt
    <2>6. \A k \in 1..(m + 1) : at[k] = LevelAt(e, k, at[k + 1])
      BY <2>4
    <2> DEFINE P == {j \in Nat : j <= m => ReadsRows(at[(m + 1) - j], c[(m + 1) - j])}
    <2>7. 0 \in P
      <3>1. at[m + 1] = LevelAt(e, m + 1, at[(m + 1) + 1])
        BY <2>6
      <3>2. \A j \in Nat : LevelAt(e, m + 1, at[(m + 1) + 1])[j] = Rows(<<e.others[j + 1]>>)
        BY <1>2, MainlyConstantContract DEF LevelAt
      <3>3. c[m + 1] = e.others
        BY <1>1, <1>2 DEF IsChain
      <3>4. ReadsRows(at[m + 1], c[m + 1])
        BY <3>1, <3>2, <3>3 DEF ReadsRows
      <3>5. (m + 1) - 0 = m + 1
        OBVIOUS
      <3>6. QED
        BY <3>4, <3>5
    <2>8. ASSUME NEW j \in Nat, j \in P PROVE j + 1 \in P
      <3>1. SUFFICES ASSUME j + 1 <= m PROVE ReadsRows(at[(m + 1) - (j + 1)], c[(m + 1) - (j + 1)])
        OBVIOUS
      <3>2. PICK k \in 1..m : k = (m + 1) - (j + 1) /\ k + 1 = (m + 1) - j
        BY <3>1
      <3>3. ReadsRows(at[k + 1], c[k + 1])
        BY <2>8, <3>1, <3>2
      <3>4. ReadsRows(LevelAt(e, k, at[k + 1]), c[k])
        BY <1>1, <1>2, <3>3, LevelReadsRows
      <3>5. k \in 1..(m + 1)
        OBVIOUS
      <3>6. QED
        BY <2>6, <3>2, <3>4, <3>5
    <2>9. ReadsRows(at[2], c[2])
      <3>1. PICK j \in Nat : j = m - 1 /\ (m + 1) - j = 2
        BY <2>1
      <3>2. j \in P
        <4> HIDE DEF P
        <4> QED
          BY <2>7, <2>8, InductionOnNat
      <3>3. QED
        BY <3>1, <3>2
    <2>10. at[1] = LevelAt(e, 1, at[2]) /\ c[1] = d
      <3>1. 1 \in 1..(m + 1) /\ 1 + 1 = 2
        BY <2>1
      <3>2. QED
        BY <1>1, <2>6, <3>1 DEF IsChain
    <2>11. 1 \in 1..Len(e.levels) /\ 1 + 1 = 2
      BY <1>2, <2>1
    <2>12. /\ ReadsRows(LevelAt(e, 1, at[2]), d)
           /\ \A j \in Nat : j >= Len(d) => LevelAt(e, 1, at[2])[j] = Nullopt
      <3>1. ReadsRows(at[1 + 1], c[1 + 1])
        BY <2>9, <2>11
      <3>2. PICK k \in 1..Len(e.levels) : k = 1
        BY <2>11
      <3>3. ReadsRows(at[k + 1], c[k + 1])
        BY <3>1, <3>2
      <3>4. /\ ReadsRows(LevelAt(e, k, at[k + 1]), c[k])
            /\ \A j \in Nat : j >= Len(c[k]) => LevelAt(e, k, at[k + 1])[j] = Nullopt
        BY <1>1, <3>3, LevelReadsRows
      <3>5. QED
        BY <2>10, <2>11, <3>2, <3>4
    <2>13. PICK n \in Nat : n = Len(d)
      OBVIOUS
    <2>14. i < n \/ i >= n
      OBVIOUS
    <2>15. QED
      BY <2>5, <2>10, <2>12, <2>13, <2>14 DEF ReadsRows
  <1>5. QED
    BY <1>3, <1>4

-----------------------------------------------------------------------------
(* Ranges of rows *)

\* What level k answers for every range <<start, end, rank>>, given what the next one answers.
LevelRows(e, k, next) ==
    [p \in Nat \X Nat \X Nat |->
        MC!Scatter(e.levels[k], p[1], p[2],
            IF k = Len(e.levels)
            THEN SubSeq(e.others, p[3] + 1, p[3] + MC!Needed(e, k, p[1], p[2]))
            ELSE IF MC!Needed(e, k, p[1], p[2]) = 0 THEN <<>>
            ELSE next[<<p[3], p[3] + MC!Needed(e, k, p[1], p[2]),
                        MC!PrefixNonCommonCount(e.levels[k + 1], p[3])>>])]

\* g has the answers of level a and of those below.
AnswersRanges(g, e, a) == g = [k \in a..Len(e.levels) |-> LevelRows(e, k, g[k + 1])]

\* f reads the ranges of x, whose level is l.
ReadsRanges(f, l, x) ==
    \A s, t \in Nat : s < t /\ t <= Len(x) => f[<<s, t, MC!PrefixNonCommonCount(l, s)>>] = Slice(x, s, t)

\* There are such answers, whatever the chain.
LEMMA SomeAnswersRanges ==
    ASSUME NEW e, Len(e.levels) \in Nat \ {0}
    PROVE  \E g : AnswersRanges(g, e, 1)
  <1>1. PICK n \in Nat : n = Len(e.levels) /\ n >= 1
    OBVIOUS
  <1> DEFINE P == {j \in Nat : j < n => \E g : AnswersRanges(g, e, n - j)}
  <1>2. \A x, y : LevelRows(e, n, x) = LevelRows(e, n, y)
    BY <1>1 DEF LevelRows
  <1>3. 0 \in P
    <2>1. PICK g : g = [k \in n..n |-> LevelRows(e, k, <<>>)]
      OBVIOUS
    <2>2. \A k \in n..n : k = n
      OBVIOUS
    <2>3. g = [k \in n..n |-> LevelRows(e, k, g[k + 1])]
      BY <1>2, <2>1, <2>2
    <2>4. n - 0 = n
      OBVIOUS
    <2>5. QED
      BY <1>1, <2>3, <2>4 DEF AnswersRanges
  <1>4. ASSUME NEW j \in Nat, j \in P PROVE j + 1 \in P
    <2>1. SUFFICES ASSUME j + 1 < n PROVE \E g : AnswersRanges(g, e, n - (j + 1))
      OBVIOUS
    <2>2. PICK a \in Nat : a = n - (j + 1) /\ a + 1 = n - j /\ a < n
      BY <2>1
    <2>3. PICK g : g = [k \in (a + 1)..n |-> LevelRows(e, k, g[k + 1])]
      BY <1>1, <1>4, <2>1, <2>2 DEF AnswersRanges
    <2>4. PICK h : h = [k \in a..n |-> IF k = a THEN LevelRows(e, a, g[a + 1]) ELSE g[k]]
      OBVIOUS
    <2>5. \A k \in (a + 1)..n : h[k] = g[k] /\ k # a
      BY <2>4
    <2>6. ASSUME NEW k \in a..n PROVE h[k] = LevelRows(e, k, h[k + 1])
      <3>1. CASE k = a
        <4>1. a + 1 \in (a + 1)..n /\ a \in a..n
          BY <2>2
        <4>2. QED
          BY <2>4, <2>5, <3>1, <4>1
      <3>2. CASE k # a /\ k < n
        <4>1. k \in (a + 1)..n /\ k + 1 \in (a + 1)..n
          BY <3>2
        <4>2. QED
          BY <2>3, <2>5, <4>1
      <3>3. CASE k # a /\ k = n
        <4>1. n \in (a + 1)..n
          BY <2>2
        <4>2. h[n] = g[n] /\ g[n] = LevelRows(e, n, g[n + 1])
          BY <2>3, <2>5, <4>1
        <4>3. QED
          BY <1>2, <3>3, <4>2
      <3>4. k = a \/ (k # a /\ k < n) \/ (k # a /\ k = n)
        BY <2>2
      <3>5. QED
        BY <3>1, <3>2, <3>3, <3>4
    <2>7. h = [k \in a..n |-> LevelRows(e, k, h[k + 1])]
      BY <2>4, <2>6
    <2>8. QED
      BY <1>1, <2>2, <2>7 DEF AnswersRanges
  <1>5. PICK j \in Nat : j = n - 1 /\ n - j = 1
    BY <1>1
  <1>6. j \in P
    <2> HIDE DEF P
    <2> QED
      BY <1>3, <1>4, InductionOnNat
  <1>7. QED
    BY <1>1, <1>5, <1>6

\* Level k needs rows a .. b - 1 of the next one's column for rows s .. t - 1.
Needs(e, k, s, t, a, b) == a <= b /\ MC!Needed(e, k, s, t) = b - a

\* a of x's rows before s, and b of those before t, are not v.
Counted(x, v, s, t, a, b) == a = Rank(OtherRows(x, v), s) /\ b = Rank(OtherRows(x, v), t)

\* Those are the rows that a range needs of the next level.
LEMMA NeededIs ==
    ASSUME NEW d \in Seq(Int), NEW e, NEW c, IsChain(e, c, d), NEW k \in 1..Len(e.levels),
           NEW v, NEW q, IsLevel(e.levels[k], c[k], v, q),
           NEW s \in Nat, NEW t \in Nat, s < t, t <= Len(c[k]),
           NEW a \in Nat, NEW b \in Nat, Counted(c[k], v, s, t, a, b)
    PROVE  Needs(e, k, s, t, a, b)
  <1>1. PICK x \in Seq(Int) : x = c[k]
    BY LevelsOfChain
  <1>2. IsLevel(e.levels[k], x, v, q) /\ t <= Len(x) /\ s <= t
    BY <1>1
  <1>3. PICK y : y = Slice(MC!Others(x, v), Rank(OtherRows(x, v), s), Rank(OtherRows(x, v), t))
    OBVIOUS
  <1>4. Len(MC!Uncommon(e.levels[k], s, t)) = Rank(OtherRows(x, v), t) - Rank(OtherRows(x, v), s)
    BY <1>2, <1>3, ScatterIs
  <1>5. MC!RangeNonCommonCount(e.levels[k], s, t) = Rank(OtherRows(x, v), t) - Rank(OtherRows(x, v), s)
    BY <1>2, RangeIs
  <1>6. MC!Needed(e, k, s, t) = Len(MC!Uncommon(e.levels[k], s, t))
           \/ MC!Needed(e, k, s, t) = MC!RangeNonCommonCount(e.levels[k], s, t)
    BY DEF MC!Needed
  <1>7. QED
    <2>1. a = Rank(OtherRows(x, v), s) /\ b = Rank(OtherRows(x, v), t)
      BY <1>1 DEF Counted
    <2>2. a <= b
      BY <1>2, <2>1, RankRises
    <2>3. QED
      BY <1>1, <1>4, <1>5, <1>6, <2>1, <2>2 DEF Needs

\* A level reads its column's ranges, if the next one does.
LEMMA LevelReadsRanges ==
    ASSUME NEW d \in Seq(Int), NEW e, NEW c, IsChain(e, c, d), NEW k \in 1..Len(e.levels), NEW next,
           k < Len(e.levels) => ReadsRanges(next, e.levels[k + 1], c[k + 1])
    PROVE  ReadsRanges(LevelRows(e, k, next), e.levels[k], c[k])
  <1>1. PICK x \in Seq(Int), y \in Seq(Int) : x = c[k] /\ y = c[k + 1]
    BY LevelsOfChain
  <1>2. PICK v, q : IsLevel(e.levels[k], x, v, q) /\ y = MC!Others(x, v)
    <2>1. Holds(e.levels[k], x, y)
      BY <1>1, LevelsOfChain
    <2>2. QED
      BY <2>1 DEF Holds
  <1>3. PICK l, S : l = e.levels[k] /\ S = OtherRows(x, v)
    OBVIOUS
  <1>4. SUFFICES ASSUME NEW s \in Nat, NEW t \in Nat, s < t, t <= Len(x)
                 PROVE  LevelRows(e, k, next)[<<s, t, MC!PrefixNonCommonCount(l, s)>>] = Slice(x, s, t)
    BY <1>1, <1>3 DEF ReadsRanges
  <1>5. PICK a \in Nat, b \in Nat : a = Rank(S, s) /\ b = Rank(S, t) /\ a <= b /\ b <= Len(y)
    <2>1. Rank(S, s) \in Nat /\ Rank(S, t) \in Nat
      BY RankGrows
    <2>2. PICK n \in Nat : n = Len(x)
      OBVIOUS
    <2>3. Rank(S, s) <= Rank(S, t) /\ Rank(S, t) <= Rank(S, n)
      BY <1>4, <2>2, RankRises
    <2>4. Len(y) = Rank(S, n)
      BY <1>2, <1>3, <2>2, OthersAre
    <2>5. QED
      BY <2>1, <2>3, <2>4
  <1>6. MC!PrefixNonCommonCount(l, s) = a
    <2>1. s <= Len(x)
      BY <1>4
    <2>2. QED
      BY <1>2, <1>3, <1>5, <2>1, PrefixIs
  <1>7. PICK n \in Nat : n = MC!Needed(e, k, s, t) /\ n = b - a
    <2>1. IsLevel(e.levels[k], c[k], v, q) /\ t <= Len(c[k]) /\ Counted(c[k], v, s, t, a, b)
      BY <1>1, <1>2, <1>3, <1>4, <1>5 DEF Counted
    <2>2. Needs(e, k, s, t, a, b)
      BY <1>4, <2>1, NeededIs
    <2>3. QED
      BY <1>5, <2>2 DEF Needs
  <1>8. PICK slice : slice = IF k = Len(e.levels) THEN SubSeq(e.others, a + 1, a + n)
                             ELSE IF n = 0 THEN <<>>
                             ELSE next[<<a, a + n, MC!PrefixNonCommonCount(e.levels[k + 1], a)>>]
    OBVIOUS
  <1>9. LevelRows(e, k, next)[<<s, t, a>>] = MC!Scatter(l, s, t, slice)
    <2>1. PICK p : p = <<s, t, a>>
      OBVIOUS
    <2>2. p \in Nat \X Nat \X Nat /\ p[1] = s /\ p[2] = t /\ p[3] = a
      BY <2>1
    <2>3. LevelRows(e, k, next)[p]
            = MC!Scatter(e.levels[k], p[1], p[2],
                IF k = Len(e.levels)
                THEN SubSeq(e.others, p[3] + 1, p[3] + MC!Needed(e, k, p[1], p[2]))
                ELSE IF MC!Needed(e, k, p[1], p[2]) = 0 THEN <<>>
                ELSE next[<<p[3], p[3] + MC!Needed(e, k, p[1], p[2]),
                            MC!PrefixNonCommonCount(e.levels[k + 1], p[3])>>])
      BY <2>2 DEF LevelRows
    <2>4. QED
      BY ONLY <1>3, <1>7, <1>8, <2>1, <2>2, <2>3
  <1>10. slice = Slice(y, a, b)
    <2>0. b = a + n
      BY <1>5, <1>7
    <2>1. CASE k = Len(e.levels)
      <3>1. slice = SubSeq(y, a + 1, a + n)
        BY <1>1, <1>8, <2>1 DEF IsChain
      <3>2. Lesser(b, Len(y)) = b
        BY <1>5 DEF Lesser
      <3>3. QED
        BY <2>0, <3>1, <3>2 DEF Slice
    <2>2. CASE k # Len(e.levels) /\ n = 0
      <3>1. slice = <<>>
        BY <1>8, <2>2
      <3>2. b <= a
        BY <2>0, <2>2
      <3>3. QED
        BY <3>1, <3>2, SliceBehind
    <2>3. CASE k # Len(e.levels) /\ n # 0
      <3>1. slice = next[<<a, b, MC!PrefixNonCommonCount(e.levels[k + 1], a)>>]
        BY <1>8, <2>0, <2>3
      <3>2. k < Len(e.levels)
        BY <2>3 DEF IsChain, SomeChains
      <3>3. ReadsRanges(next, e.levels[k + 1], y)
        BY <1>1, <3>2
      <3>4. a < b
        BY <2>0, <2>3
      <3>5. QED
        BY <1>5, <3>1, <3>3, <3>4 DEF ReadsRanges
    <2>4. QED
      BY <2>1, <2>2, <2>3
  <1>11. slice = Slice(MC!Others(x, v), Rank(OtherRows(x, v), s), Rank(OtherRows(x, v), t))
    BY <1>2, <1>3, <1>5, <1>10
  <1>12. MC!Scatter(l, s, t, slice) = Slice(x, s, t)
    <2>1. IsLevel(l, x, v, q)
      BY <1>2, <1>3
    <2>2. QED
      BY <1>4, <1>11, <2>1, ScatterIs
  <1>13. QED
    BY <1>6, <1>9, <1>12

\* A range of rows of a chain, whose first row has that rank.
LEMMA ChainsScatter ==
    ASSUME NEW d \in Seq(Int), NEW e, NEW c, IsChain(e, c, d), e.levels # <<>>,
           NEW s \in Nat, NEW t \in Nat, s < t, t <= Len(d)
    PROVE  MC!Scattered(e, s, t, MC!PrefixNonCommonCount(e.levels[1], s)) = Slice(d, s, t)
  <1>1. PICK m \in Nat : m = Len(e.levels) /\ m >= 1
    <2>1. Len(e.levels) \in Nat /\ Len(e.levels) >= 1
      BY DEF IsChain, SomeChains
    <2>2. QED
      BY <2>1
  <1>2. PICK rows : rows = CHOOSE g : AnswersRanges(g, e, 1)
    OBVIOUS
  <1>3. AnswersRanges(rows, e, 1)
    BY <1>1, <1>2, SomeAnswersRanges
  <1>4. rows = [k \in 1..m |-> LevelRows(e, k, rows[k + 1])]
    BY <1>1, <1>3 DEF AnswersRanges
  <1>5. \A r : MC!Scattered(e, s, t, r) = rows[1][<<s, t, r>>]
    BY <1>2 DEF MC!Scattered, AnswersRanges, LevelRows
  <1>6. \A k \in 1..m : rows[k] = LevelRows(e, k, rows[k + 1])
    BY <1>4
  <1> DEFINE P == {j \in Nat : j < m => ReadsRanges(rows[m - j], e.levels[m - j], c[m - j])}
  <1>7. 0 \in P
    <2>1. PICK k \in 1..Len(e.levels) : k = m
      BY <1>1
    <2>2. ~(k < Len(e.levels))
      BY <1>1, <2>1
    <2>3. ReadsRanges(LevelRows(e, k, rows[k + 1]), e.levels[k], c[k])
      BY <2>2, LevelReadsRanges
    <2>4. m - 0 = k
      BY <2>1
    <2>5. QED
      BY <1>1, <1>6, <2>3, <2>4
  <1>8. ASSUME NEW j \in Nat, j \in P PROVE j + 1 \in P
    <2>1. SUFFICES ASSUME j + 1 < m
                   PROVE  ReadsRanges(rows[m - (j + 1)], e.levels[m - (j + 1)], c[m - (j + 1)])
      OBVIOUS
    <2>2. PICK k \in 1..m : k = m - (j + 1) /\ k + 1 = m - j
      BY <2>1
    <2>3. ReadsRanges(rows[k + 1], e.levels[k + 1], c[k + 1])
      BY <1>8, <2>1, <2>2
    <2>4. ReadsRanges(LevelRows(e, k, rows[k + 1]), e.levels[k], c[k])
      BY <1>1, <2>3, LevelReadsRanges
    <2>5. QED
      BY <1>6, <2>2, <2>4
  <1>9. ReadsRanges(rows[1], e.levels[1], c[1])
    <2>1. PICK j \in Nat : j = m - 1 /\ m - j = 1
      <3>1. m \in Nat /\ m >= 1
        BY <1>1
      <3>2. m - 1 \in Nat /\ m - (m - 1) = 1
        BY ONLY <3>1
      <3>3. QED
        BY ONLY <3>2
    <2>2. j \in P
      <3> HIDE DEF P
      <3> QED
        BY <1>7, <1>8, InductionOnNat
    <2>3. QED
      BY <1>1, <2>1, <2>2
  <1>10. ReadsRanges(rows[1], e.levels[1], d)
    BY <1>9 DEF IsChain
  <1>11. QED
    BY <1>5, <1>10 DEF ReadsRanges

\* What the size of a chain is, and its first level.
LEMMA SizeOfChain ==
    ASSUME NEW d \in Seq(Int), NEW e, Encodes(e, d)
    PROVE  /\ MC!Size(e) = Len(d)
           /\ Len(d) > 0 => /\ e.levels # <<>>
                            /\ \E v, q : IsLevel(e.levels[1], d, v, q)
  <1>1. PICK c : IsChain(e, c, d)
    BY DEF Encodes
  <1>2. CASE e.levels = <<>>
    <2>1. d = <<>>
      BY <1>2 DEF Encodes
    <2>2. Len(d) = 0
      BY <2>1
    <2>3. QED
      BY <1>2, <2>2 DEF MC!Size
  <1>3. CASE e.levels # <<>>
    <2>1. PICK k \in 1..Len(e.levels) : k = 1
      <3>1. Len(e.levels) \in Nat /\ Len(e.levels) >= 1
        BY <1>1, <1>3 DEF IsChain, SomeChains
      <3>2. QED
        BY <3>1
    <2>2. Holds(e.levels[1], d, c[k + 1])
      <3>1. Holds(e.levels[k], c[k], c[k + 1])
        BY <1>1, LevelsOfChain
      <3>2. c[1] = d
        BY <1>1 DEF IsChain
      <3>3. QED
        BY <2>1, <3>1, <3>2
    <2>3. PICK v, q : IsLevel(e.levels[1], d, v, q)
      BY <2>2 DEF Holds
    <2>4. MC!Size(e) = Len(d)
      BY <1>3, <2>3 DEF MC!Size, IsLevel
    <2>5. QED
      BY <1>3, <2>3, <2>4
  <1>4. QED
    BY <1>2, <1>3

\* Rows from one to another.
LEMMA ChainsRows ==
    ASSUME NEW d \in Seq(Int), NEW e, Encodes(e, d),
           NEW s \in Nat, NEW t \in Nat, s < t, t <= Len(d)
    PROVE  MC!RowsOf(e, s, t) = Slice(d, s, t)
  <1>1. PICK c : IsChain(e, c, d)
    BY DEF Encodes
  <1>2. e.levels # <<>>
    <2>1. Len(d) > 0
      OBVIOUS
    <2>2. QED
      BY <2>1, SizeOfChain
  <1>3. QED
    BY <1>1, <1>2, ChainsScatter DEF MC!RowsOf

\* decodeAll, and into memory of that size.
LEMMA ChainsDecodeAll ==
    ASSUME NEW d \in Seq(Int), NEW e, Encodes(e, d)
    PROVE  MC!DecodeAll(e) = Rows(d) /\ MC!DecodeAllInto(e, Len(d)) = Rows(d)
  <1>1. PICK n \in Nat : n = Len(d) /\ MC!Size(e) = n
    BY SizeOfChain
  <1>2. CASE n = 0
    <2>1. d = <<>> /\ [k \in 1..n |-> Junk] = <<>>
      <3>1. d = <<>>
        <4>1. Len(d) = 0
          BY <1>1, <1>2
        <4>2. QED
          BY <4>1
      <3>2. [k \in 1..n |-> Junk] = <<>>
        BY <1>2
      <3>3. QED
        BY <3>1, <3>2
    <2>2. MC!DecodeAll(e) = Rows(<<>>)
      BY <1>1, <1>2, MainlyConstantContract DEF MC!DecodeAll
    <2>3. MC!DecodeAllInto(e, n) = Rows([k \in 1..n |-> Junk])
      BY <1>1, <1>2, MainlyConstantContract DEF MC!DecodeAllInto
    <2>4. QED
      BY <1>1, <2>1, <2>2, <2>3
  <1>3. CASE n # 0
    <2>1. MC!RowsOf(e, 0, n) = Slice(d, 0, n)
      BY <1>1, <1>3, ChainsRows
    <2>2. MC!RowsOf(e, 0, n) = d
      BY <1>1, <2>1, SliceOfAll
    <2>3. MC!DecodeAll(e) = Rows(d)
      BY <1>1, <1>3, <2>2, MainlyConstantContract DEF MC!DecodeAll
    <2>4. MC!DecodeAllInto(e, n) = MC!DecodeAll(e)
      BY <1>1, <1>3 DEF MC!DecodeAllInto
    <2>5. QED
      BY <1>1, <2>3, <2>4
  <1>4. QED
    BY <1>2, <1>3

\* decodeRange, and into memory of that size.
LEMMA ChainsDecodeRange ==
    ASSUME NEW d \in Seq(Int), NEW e, Encodes(e, d), NEW start \in Nat, NEW end \in Nat
    PROVE  /\ MC!DecodeRange(e, start, end) = Rows(Slice(d, start, end))
           /\ MC!DecodeRangeInto(e, start, end, Greater(Lesser(end, Len(d)) - start, 0))
                  = Rows(Slice(d, start, end))
  <1>1. PICK n \in Nat : n = Len(d) /\ MC!Size(e) = n
    BY SizeOfChain
  <1>2. PICK stop \in Nat : stop = Lesser(end, n) /\ stop <= n /\ stop <= end
    BY DEF Lesser
  <1>3. PICK size : size = Greater(stop - start, 0)
    OBVIOUS
  <1>4. MC!Lesser(end, n) = stop
    BY <1>2, MainlyConstantContract
  <1>5. CASE start >= end \/ start >= n
    <2>1. size = 0
      BY <1>2, <1>3, <1>5 DEF Greater
    <2>2. [k \in 1..size |-> Junk] = <<>>
      BY <2>1
    <2>3. MC!DecodeRange(e, start, end) = Rows(<<>>)
      BY <1>1, <1>5, MainlyConstantContract DEF MC!DecodeRange
    <2>4. MC!DecodeRangeInto(e, start, end, size) = Rows([k \in 1..size |-> Junk])
      BY <1>1, <1>5, MainlyConstantContract DEF MC!DecodeRangeInto
    <2>5. Slice(d, start, end) = <<>>
      BY <1>1, <1>5, SliceBehind
    <2>6. QED
      BY <1>1, <1>2, <1>3, <2>2, <2>3, <2>4, <2>5
  <1>6. CASE ~(start >= end \/ start >= n)
    <2>1. start < stop
      BY <1>2, <1>6 DEF Lesser
    <2>2. size = stop - start
      BY <1>3, <2>1 DEF Greater
    <2>3. MC!RowsOf(e, start, stop) = Slice(d, start, stop)
      BY <1>1, <1>2, <2>1, ChainsRows
    <2>4. MC!RowsOf(e, start, stop) = Slice(d, start, end)
      BY <1>1, <1>2, <2>3, SliceStops
    <2>5. MC!DecodeRange(e, start, end) = Rows(Slice(d, start, end))
      BY <1>1, <1>4, <1>6, <2>4, MainlyConstantContract DEF MC!DecodeRange
    <2>6. MC!DecodeRangeInto(e, start, end, size) = Rows(Slice(d, start, end))
      BY <1>1, <1>4, <1>6, <2>2, <2>4, MainlyConstantContract DEF MC!DecodeRangeInto
    <2>7. QED
      BY <1>1, <1>2, <1>3, <2>5, <2>6
  <1>7. QED
    BY <1>5, <1>6

\* One range of a gather.
ChainStep(e, acc, r) ==
    IF r.begin >= Lesser(r.end, MC!Size(e)) THEN acc
    ELSE MC!ScatterRange(e, acc, r.begin, Lesser(r.end, MC!Size(e)))

\* What it carries from range to range.
Carried == [rows : Seq(Int), rank : Nat, end : Nat, have : BOOLEAN]

\* After k ranges: their rows, and the rank of an end that no range to come starts before.
Carries(d, e, rs, k, acc) ==
    /\ acc \in Carried
    /\ acc.rows = Gathered(d, rs, k)
    /\ acc.have =>
          /\ acc.end <= Len(d) /\ acc.rank = MC!PrefixNonCommonCount(e.levels[1], acc.end)
          /\ \A j \in (k + 1)..Len(rs) : acc.end <= rs[j].begin

\* The carried rank is that of an end that x is not before.
Resumable(e, acc, x) ==
    acc \in Carried /\ (acc.have => acc.end <= x /\ acc.rank = MC!PrefixNonCommonCount(e.levels[1], acc.end))

\* Behind rows x .. y - 1, with the rank of y.
CarriesOn(d, e, acc, x, y, g) ==
    /\ MC!PrefixNonCommonCount(e.levels[1], y) \in Nat
    /\ g = [rows |-> acc.rows \o Slice(d, x, y), rank |-> MC!PrefixNonCommonCount(e.levels[1], y),
            end |-> y, have |-> TRUE]

\* A range carries on with the rank of its end.
LEMMA ScatterRangeIs ==
    ASSUME NEW d \in Seq(Int), NEW e, Encodes(e, d), NEW acc,
           NEW x \in Nat, NEW y \in Nat, x < y, y <= Len(d), Resumable(e, acc, x)
    PROVE  CarriesOn(d, e, acc, x, y, MC!ScatterRange(e, acc, x, y))
  <1>1. PICK c : IsChain(e, c, d)
    BY DEF Encodes
  <1>2. e.levels # <<>> /\ \E v, q : IsLevel(e.levels[1], d, v, q)
    <2>1. Len(d) > 0
      OBVIOUS
    <2>2. QED
      BY <2>1, SizeOfChain
  <1>3. PICK v, q : IsLevel(e.levels[1], d, v, q)
    BY <1>2
  <1>4. PICK l, S : l = e.levels[1] /\ S = OtherRows(d, v)
    OBVIOUS
  <1>5. PICK a \in Nat, b \in Nat : a = Rank(S, x) /\ b = Rank(S, y)
    <2>1. Rank(S, x) \in Nat /\ Rank(S, y) \in Nat
      BY RankGrows
    <2>2. QED
      BY <2>1
  <1>6. MC!PrefixNonCommonCount(l, x) = a /\ MC!PrefixNonCommonCount(l, y) = b
    <2>1. x <= Len(d)
      OBVIOUS
    <2>2. QED
      BY <1>3, <1>4, <1>5, <2>1, PrefixIs
  <1>7. PICK rank : rank = IF acc.have THEN acc.rank + MC!RangeNonCommonCount(l, acc.end, x)
                           ELSE MC!PrefixNonCommonCount(l, x)
    OBVIOUS
  <1>8. rank = a
    <2>1. CASE acc.have
      <3>1. PICK z \in Nat : z = acc.end /\ z <= x /\ z <= Len(d)
        BY <2>1 DEF Resumable, Carried
      <3>2. PICK o \in Nat : o = Rank(S, z)
        BY RankGrows
      <3>3. MC!PrefixNonCommonCount(l, z) = o
        BY <1>3, <1>4, <3>1, <3>2, PrefixIs
      <3>4. MC!RangeNonCommonCount(l, z, x) = Rank(S, x) - Rank(S, z)
        <4>1. IsLevel(l, d, v, q) /\ x <= Len(d)
          BY <1>3, <1>4
        <4>2. MC!RangeNonCommonCount(l, z, x) = Rank(OtherRows(d, v), x) - Rank(OtherRows(d, v), z)
          BY <3>1, <4>1, RangeIs
        <4>3. QED
          BY ONLY <1>4, <4>2
      <3>5. acc.rank = o
        BY <1>4, <2>1, <3>1, <3>3 DEF Resumable
      <3>6. rank = o + (a - o)
        BY <1>5, <1>7, <2>1, <3>1, <3>2, <3>4, <3>5
      <3>7. QED
        BY <3>6
    <2>2. CASE ~acc.have
      BY <1>6, <1>7, <2>2
    <2>3. QED
      BY <2>1, <2>2
  <1>9. MC!Needed(e, 1, x, y) = b - a
    <2>1. PICK k \in 1..Len(e.levels) : k = 1
      <3>1. Len(e.levels) \in Nat /\ Len(e.levels) >= 1
        BY <1>1, <1>2 DEF IsChain, SomeChains
      <3>2. QED
        BY <3>1
    <2>2. c[k] = d
      BY <1>1, <2>1 DEF IsChain
    <2>3. IsLevel(e.levels[k], c[k], v, q) /\ y <= Len(c[k]) /\ Counted(c[k], v, x, y, a, b)
      BY <1>3, <1>4, <1>5, <2>1, <2>2 DEF Counted
    <2>4. Needs(e, k, x, y, a, b)
      BY <1>1, <2>3, NeededIs
    <2>5. QED
      BY <2>1, <2>4 DEF Needs
  <1>10. MC!Scattered(e, x, y, rank) = Slice(d, x, y)
    <2>1. MC!Scattered(e, x, y, MC!PrefixNonCommonCount(e.levels[1], x)) = Slice(d, x, y)
      BY <1>1, <1>2, ChainsScatter
    <2>2. QED
      BY <1>4, <1>6, <1>8, <2>1
  <1>11. MC!ScatterRange(e, acc, x, y)
           = [rows |-> acc.rows \o MC!Scattered(e, x, y, rank), rank |-> rank + MC!Needed(e, 1, x, y),
              end |-> y, have |-> TRUE]
    BY <1>4, <1>7 DEF MC!ScatterRange
  <1>12. rank + MC!Needed(e, 1, x, y) = b
    BY <1>8, <1>9
  <1>13. QED
    BY <1>4, <1>6, <1>10, <1>11, <1>12 DEF CarriesOn

\* A range keeps that.
LEMMA ChainStepCarries ==
    ASSUME NEW d \in Seq(Int), NEW e, Encodes(e, d), NEW rs, Gathering(rs),
           NEW k \in 1..Len(rs), NEW acc, Carries(d, e, rs, k - 1, acc)
    PROVE  Carries(d, e, rs, k, ChainStep(e, acc, rs[k]))
  <1>1. PICK m \in Nat, n \in Nat : m = Len(rs) /\ n = Len(d) /\ MC!Size(e) = n
    <2>1. Len(rs) \in Nat
      BY DEF Gathering
    <2>2. Len(d) \in Nat
      OBVIOUS
    <2>3. MC!Size(e) = Len(d)
      BY SizeOfChain
    <2>4. QED
      BY ONLY <2>1, <2>2, <2>3
  <1>2. PICK x \in Nat, y \in Nat : x = rs[k].begin /\ y = rs[k].end /\ x <= y /\ rs[k] \in Ranges
    <2>1. rs[k] \in Ranges
      BY DEF Gathering
    <2>2. QED
      BY <2>1 DEF Ranges
  <1>3. Gathered(d, rs, k) = Gathered(d, rs, k - 1) \o Slice(d, x, y)
    BY <1>2, GatheredStep DEF Gathering
  <1>4. PICK stop \in Nat : stop = Lesser(y, n) /\ stop <= n /\ stop <= y
    BY DEF Lesser
  <1>6. PICK s \in Seq(Int) : s = Gathered(d, rs, k - 1) /\ acc.rows = s
    BY DEF Carries, Carried
  <1>7. \A j \in (k + 1)..m : j \in (k - 1 + 1)..m
    BY <1>1
  <1>8. CASE x >= stop
    <2>1. ChainStep(e, acc, rs[k]) = acc
      BY <1>1, <1>2, <1>4, <1>8 DEF ChainStep
    <2>2. x >= n \/ y <= x
      BY <1>2, <1>4, <1>8 DEF Lesser
    <2>3. Slice(d, x, y) = <<>>
      BY <1>1, <2>2, SliceBehind
    <2>4. Gathered(d, rs, k) = s
      BY <1>3, <1>6, <2>3
    <2>5. QED
      BY <1>1, <1>6, <1>7, <2>1, <2>4 DEF Carries
  <1>9. CASE x < stop
    <2>1. PICK r : r = MC!PrefixNonCommonCount(e.levels[1], stop)
      OBVIOUS
    <2>2. Resumable(e, acc, x)
      <3>1. k \in (k - 1 + 1)..Len(rs)
        BY <1>1
      <3>2. QED
        BY <1>2, <3>1 DEF Carries, Resumable
    <2>3. r \in Nat /\ MC!ScatterRange(e, acc, x, stop)
                          = [rows |-> acc.rows \o Slice(d, x, stop), rank |-> r, end |-> stop, have |-> TRUE]
      <3>1. stop <= Len(d)
        BY <1>1, <1>4
      <3>2. CarriesOn(d, e, acc, x, stop, MC!ScatterRange(e, acc, x, stop))
        BY <1>9, <2>2, <3>1, ScatterRangeIs
      <3>3. QED
        BY <2>1, <3>2 DEF CarriesOn
    <2>4. PICK t \in Seq(Int) : t = Slice(d, x, y) /\ t = Slice(d, x, stop)
      <3>1. Slice(d, x, y) \in Seq(Int)
        BY SliceIs
      <3>2. Slice(d, x, stop) = Slice(d, x, y)
        BY <1>1, <1>4, SliceStops
      <3>3. QED
        BY <3>1, <3>2
    <2>5. PICK g : g = ChainStep(e, acc, rs[k])
      OBVIOUS
    <2>6. g = MC!ScatterRange(e, acc, x, stop)
      BY <1>1, <1>2, <1>4, <1>9, <2>5 DEF ChainStep
    <2>7. PICK w \in Seq(Int) : w = s \o t /\ w = Gathered(d, rs, k)
      <3>1. Gathered(d, rs, k) = s \o t
        BY <1>3, <1>6, <2>4
      <3>2. s \o t \in Seq(Int)
        OBVIOUS
      <3>3. QED
        BY <3>1, <3>2
    <2>8. g = [rows |-> w, rank |-> r, end |-> stop, have |-> TRUE]
      BY <1>6, <2>3, <2>4, <2>6, <2>7
    <2>9. g \in Carried /\ g.rows = w /\ g.rank = r /\ g.end = stop
      BY <2>3, <2>8 DEF Carried
    <2>10. ASSUME NEW j \in (k + 1)..Len(rs) PROVE stop <= rs[j].begin
      <3>1. j \in 1..Len(rs) /\ k < j
        BY <1>1
      <3>2. y <= rs[j].begin
        BY <1>2, <3>1, RangesRise
      <3>3. rs[j].begin \in Nat
        <4>1. rs[j] \in Ranges
          BY <3>1 DEF Gathering
        <4>2. QED
          BY ONLY <4>1 DEF Ranges
      <3>4. QED
        BY <1>4, <3>2, <3>3
    <2>11. Carries(d, e, rs, k, g)
      BY <1>1, <1>4, <2>1, <2>7, <2>9, <2>10 DEF Carries
    <2>12. QED
      BY <2>5, <2>11
  <1>10. QED
    BY <1>8, <1>9

\* The loop over the ranges.
LEMMA ChainGatherLoop ==
    ASSUME NEW d \in Seq(Int), NEW e, Encodes(e, d), NEW rs, Gathering(rs),
           NEW first, Carries(d, e, rs, 0, first), NEW after,
           after = CHOOSE g : g = [k \in 0..Len(rs) |->
                       IF k = 0 THEN first ELSE ChainStep(e, g[k - 1], rs[k])]
    PROVE  after[Len(rs)].rows = Gathered(d, rs, Len(rs))
  <1> DEFINE T == Carried
             F == [p \in T \X (Nat \ {0}) |->
                      IF ChainStep(e, p[1], rs[p[2]]) \in T THEN ChainStep(e, p[1], rs[p[2]]) ELSE p[1]]
  <1>1. PICK m \in Nat : m = Len(rs)
    BY DEF Gathering
  <1>2. F \in [T \X (Nat \ {0}) -> T] /\ first \in T
    BY DEF Carries
  <1>3. PICK h \in [0..m -> T] : Follows(h, first, F, m)
    <2> HIDE DEF F, T
    <2> QED
      BY <1>2, FiniteRecursion
  <1>4. h[0] = first
    BY <1>3 DEF Follows
  <1>5. \A k \in 1..m : h[k] = IF ChainStep(e, h[k - 1], rs[k]) \in T THEN ChainStep(e, h[k - 1], rs[k])
                               ELSE h[k - 1]
    <2>1. ASSUME NEW k \in 1..m
          PROVE  h[k] = IF ChainStep(e, h[k - 1], rs[k]) \in T THEN ChainStep(e, h[k - 1], rs[k])
                        ELSE h[k - 1]
      <3>1. k - 1 \in 0..m /\ k \in Nat \ {0}
        OBVIOUS
      <3>2. h[k - 1] \in T
        BY <1>3, <3>1
      <3>3. <<h[k - 1], k>> \in T \X (Nat \ {0})
        BY <3>1, <3>2
      <3>4. h[k] = F[<<h[k - 1], k>>]
        BY <1>3 DEF Follows
      <3> HIDE DEF T
      <3>5. QED
        BY <3>3, <3>4
    <2>2. QED
      BY <2>1
  <1> HIDE DEF F
  <1> DEFINE P == {k \in Nat : k <= m => Carries(d, e, rs, k, h[k])}
  <1>6. 0 \in P
    BY <1>4
  <1>7. ASSUME NEW k \in Nat, k \in P PROVE k + 1 \in P
    <2>1. SUFFICES ASSUME k + 1 <= m PROVE Carries(d, e, rs, k + 1, h[k + 1])
      OBVIOUS
    <2>2. PICK l \in 1..m : l = k + 1 /\ l - 1 = k
      BY <2>1
    <2>3. Carries(d, e, rs, l - 1, h[l - 1])
      BY <1>7, <2>1, <2>2
    <2>4. Carries(d, e, rs, l, ChainStep(e, h[l - 1], rs[l]))
      BY <1>1, <2>3, ChainStepCarries
    <2>5. ChainStep(e, h[l - 1], rs[l]) \in T
      BY <2>4 DEF Carries
    <2> HIDE DEF T
    <2>6. QED
      BY <1>5, <2>2, <2>4, <2>5
  <1>8. \A k \in 0..m : Carries(d, e, rs, k, h[k])
    <2> HIDE DEF P
    <2>1. \A k \in Nat : k \in P
      BY <1>6, <1>7, InductionOnNat
    <2>2. QED
      BY <2>1 DEF P
  <1>9. \A k \in 1..m : h[k] = ChainStep(e, h[k - 1], rs[k])
    <2>1. ASSUME NEW k \in 1..m PROVE h[k] = ChainStep(e, h[k - 1], rs[k])
      <3>1. k - 1 \in 0..m
        OBVIOUS
      <3>2. Carries(d, e, rs, k - 1, h[k - 1])
        BY <1>8, <3>1
      <3>3. Carries(d, e, rs, k, ChainStep(e, h[k - 1], rs[k]))
        BY <1>1, <3>2, ChainStepCarries
      <3>4. ChainStep(e, h[k - 1], rs[k]) \in T
        BY <3>3 DEF Carries
      <3> HIDE DEF T
      <3>5. QED
        BY <1>5, <3>4
    <2>2. QED
      BY <2>1
  <1>10. h = [k \in 0..m |-> IF k = 0 THEN first ELSE ChainStep(e, h[k - 1], rs[k])]
    <2>1. h = [k \in 0..m |-> h[k]]
      BY <1>3
    <2>2. \A k \in 0..m : h[k] = IF k = 0 THEN first ELSE ChainStep(e, h[k - 1], rs[k])
      <3>1. \A k \in 0..m : k # 0 => k \in 1..m
        OBVIOUS
      <3>2. QED
        BY <1>4, <1>9, <3>1
    <2>3. QED
      BY <2>1, <2>2
  <1>11. after = [k \in 0..m |-> IF k = 0 THEN first ELSE ChainStep(e, after[k - 1], rs[k])]
    BY <1>1, <1>10
  <1> HIDE DEF P
  <1> DEFINE Q == {k \in Nat : k <= m => Carries(d, e, rs, k, after[k])}
  <1>17. after[0] = first /\ \A k \in 1..m : after[k] = ChainStep(e, after[k - 1], rs[k])
    <2>1. \A k \in 1..m : k \in 0..m /\ k # 0
      OBVIOUS
    <2>2. 0 \in 0..m
      OBVIOUS
    <2>3. QED
      BY ONLY <1>11, <2>1, <2>2
  <1>12. 0 \in Q
    BY <1>17
  <1>13. ASSUME NEW k \in Nat, k \in Q PROVE k + 1 \in Q
    <2>1. SUFFICES ASSUME k + 1 <= m PROVE Carries(d, e, rs, k + 1, after[k + 1])
      OBVIOUS
    <2>2. PICK l \in 1..m : l = k + 1 /\ l - 1 = k
      BY <2>1
    <2>3. Carries(d, e, rs, l - 1, after[l - 1])
      BY <1>13, <2>1, <2>2
    <2>4. Carries(d, e, rs, l, ChainStep(e, after[l - 1], rs[l]))
      BY <1>1, <2>3, ChainStepCarries
    <2>5. after[l] = ChainStep(e, after[l - 1], rs[l])
      BY <1>17
    <2>6. QED
      BY <2>2, <2>4, <2>5
  <1>14. m \in Q
    <2> HIDE DEF Q
    <2> QED
      BY <1>12, <1>13, InductionOnNat
  <1>15. Carries(d, e, rs, m, after[m])
    BY <1>14
  <1>16. QED
    BY <1>1, <1>15 DEF Carries

\* decodeGatherInto.
LEMMA ChainsDecodeGather ==
    ASSUME NEW d \in Seq(Int), NEW e, Encodes(e, d), NEW rs, Gathering(rs)
    PROVE  MC!DecodeGatherInto(e, rs, Asked(d, DecodeGatherInto(rs))) = Expected(d, DecodeGatherInto(rs), FALSE)
  <1>1. PICK n \in Nat : n = Len(d) /\ MC!Size(e) = n
    BY SizeOfChain
  <1>2. rs \in Seq(Ranges)
    BY DEF Gathering
  <1>3. PICK a : a = Asked(d, DecodeGatherInto(rs))
    OBVIOUS
  <1>4. PICK m \in Nat : m = Len(rs) /\ DOMAIN rs = 1..m
    BY <1>2
  <1> DEFINE first == [rows |-> <<>>, rank |-> 0, end |-> 0, have |-> FALSE]
             after == CHOOSE g : g = [k \in 0..Len(rs) |->
                          IF k = 0 THEN first ELSE ChainStep(e, g[k - 1], rs[k])]
             s == [k \in DOMAIN rs |-> Greater(0, Lesser(rs[k].end, n) - rs[k].begin)]
             flat == Flat(Parts(d, rs))
  <1>5. MC!DecodeGatherInto(e, rs, a) = IF Total(s) # a THEN Threw ELSE Rows(after[Len(rs)].rows)
    <2> DEFINE was == [k \in DOMAIN rs |-> MC!Greater(0, MC!Lesser(rs[k].end, MC!Size(e)) - rs[k].begin)]
    <2>1. MC!DecodeGatherInto(e, rs, a) = IF MC!Total(was) # a THEN MC!Threw ELSE MC!Rows(after[Len(rs)].rows)
      BY DEF MC!DecodeGatherInto, ChainStep, MC!Lesser, Lesser
    <2>2. was = s
      BY <1>1, MainlyConstantContract
    <2> HIDE DEF was, s, after
    <2>3. QED
      BY <2>1, <2>2, MainlyConstantContract
  <1>6. after[Len(rs)].rows = flat
    <2>1. Carries(d, e, rs, 0, first)
      <3>1. first \in Carried /\ first.rows = <<>> /\ ~first.have
        BY DEF Carried
      <3>2. Gathered(d, rs, 0) = <<>>
        BY <1>2, GatheredStep
      <3> HIDE DEF first
      <3>3. QED
        BY <3>1, <3>2 DEF Carries
    <2> HIDE DEF first
    <2>2. PICK g : g = after
      OBVIOUS
    <2>3. g[Len(rs)].rows = Gathered(d, rs, Len(rs))
      BY <2>1, <2>2, ChainGatherLoop
    <2>4. Gathered(d, rs, Len(rs)) = flat
      BY <1>2, GatheredStep
    <2> HIDE DEF flat, after
    <2>5. QED
      BY <2>2, <2>3, <2>4
  <1>7. \A k \in 1..Len(rs) : s[k] = Clipped(d, rs[k].begin, rs[k].end)
    BY <1>1, <1>4 DEF Clipped
  <1>8. Total(s) = Len(flat)
    <2>1. Len(s) = m
      BY <1>4
    <2> HIDE DEF s
    <2>2. Len(Flat(Parts(d, rs))) = SumTo(s, Len(rs))
      BY <1>2, <1>7, PartsAre
    <2>3. QED
      BY <1>4, <2>1, <2>2 DEF Total
  <1>9. SizedInto(Rows(flat), a) = IF Len(flat) # a THEN Threw ELSE Rows(flat)
    <2> HIDE DEF flat
    <2> QED
      BY DEF SizedInto, Rows
  <1>10. SizedInto(Rows(flat), a) = Expected(d, DecodeGatherInto(rs), FALSE)
    BY <1>2, <1>3, GatherOfSlices
  <1> HIDE DEF first, after, s, flat
  <1>11. QED
    BY <1>3, <1>5, <1>6, <1>8, <1>9, <1>10

\* A call is answered by its method.
LEMMA MainlyConstantAnswers ==
    ASSUME NEW e, NEW n
    PROVE  /\ MC!Answer(e, DecodeAll, n) = MC!DecodeAll(e)
           /\ MC!Answer(e, DecodeAllInto, n) = MC!DecodeAllInto(e, n)
           /\ \A i : MC!Answer(e, DecodeAt(i), n) = MC!DecodeAt(e, i)
           /\ \A r : MC!Answer(e, DecodeRange(r), n) = MC!DecodeRange(e, r.begin, r.end)
           /\ \A r : MC!Answer(e, DecodeRangeInto(r), n) = MC!DecodeRangeInto(e, r.begin, r.end, n)
           /\ \A rs : MC!Answer(e, DecodeGatherInto(rs), n) = MC!DecodeGatherInto(e, rs, n)
  BY DEF MC!Answer, MC!Dispatch, DecodeAll, DecodeAllInto, DecodeAt, DecodeRange, DecodeRangeInto, DecodeGatherInto, NoCall

\* MainlyConstantEncoder keeps the contract.
LEMMA ChainsAnswer ==
    ASSUME NEW d \in Seq(Int), NEW e, Encodes(e, d), NEW c, Asking(c)
    PROVE  MC!Answer(e, c, Asked(d, c)) = Expected(d, c, FALSE)
  <1>1. PICK n : n = Asked(d, c)
    OBVIOUS
  <1>2. CASE c = DecodeAll
    <2>1. MC!Answer(e, DecodeAll, n) = MC!DecodeAll(e)
      BY MainlyConstantAnswers
    <2>2. Expected(d, DecodeAll, FALSE) = Rows(d)
      BY ExpectedAre
    <2>3. MC!DecodeAll(e) = Rows(d)
      BY ChainsDecodeAll
    <2>4. QED
      BY ONLY <1>1, <1>2, <2>1, <2>2, <2>3
  <1>3. CASE c = DecodeAllInto
    <2>1. MC!Answer(e, DecodeAllInto, n) = MC!DecodeAllInto(e, n)
      BY MainlyConstantAnswers
    <2>2. Expected(d, DecodeAllInto, FALSE) = Rows(d) /\ Asked(d, DecodeAllInto) = Len(d)
      BY ExpectedAre
    <2>3. MC!DecodeAllInto(e, Len(d)) = Rows(d)
      BY ChainsDecodeAll
    <2>4. QED
      BY ONLY <1>1, <1>3, <2>1, <2>2, <2>3
  <1>4. ASSUME NEW i \in Nat, c = DecodeAt(i) PROVE MC!Answer(e, c, n) = Expected(d, c, FALSE)
    <2>1. MC!Answer(e, DecodeAt(i), n) = MC!DecodeAt(e, i)
      BY MainlyConstantAnswers
    <2>2. Expected(d, DecodeAt(i), FALSE) = IF i < Len(d) THEN Rows(<<d[i + 1]>>) ELSE Nullopt
      BY ExpectedAre
    <2>3. MC!DecodeAt(e, i) = IF i < Len(d) THEN Rows(<<d[i + 1]>>) ELSE Nullopt
      BY ChainsDecodeAt
    <2>4. QED
      BY ONLY <1>4, <2>1, <2>2, <2>3
  <1>5. ASSUME NEW r \in Ranges, c = DecodeRange(r) PROVE MC!Answer(e, c, n) = Expected(d, c, FALSE)
    <2>1. MC!Answer(e, DecodeRange(r), n) = MC!DecodeRange(e, r.begin, r.end)
      BY MainlyConstantAnswers
    <2>2. Expected(d, DecodeRange(r), FALSE) = Rows(Slice(d, r.begin, r.end))
      BY ExpectedAre
    <2>3. r.begin \in Nat /\ r.end \in Nat /\ r.begin <= r.end
      BY DEF Ranges
    <2>4. MC!DecodeRange(e, r.begin, r.end) = Rows(Slice(d, r.begin, r.end))
      BY <2>3, ChainsDecodeRange
    <2>5. QED
      BY ONLY <1>5, <2>1, <2>2, <2>4
  <1>6. ASSUME NEW r \in Ranges, c = DecodeRangeInto(r) PROVE MC!Answer(e, c, n) = Expected(d, c, FALSE)
    <2>1. MC!Answer(e, DecodeRangeInto(r), n) = MC!DecodeRangeInto(e, r.begin, r.end, n)
      BY MainlyConstantAnswers
    <2>2. /\ Expected(d, DecodeRangeInto(r), FALSE) = Rows(Slice(d, r.begin, r.end))
          /\ Asked(d, DecodeRangeInto(r)) = Greater(Lesser(r.end, Len(d)) - r.begin, 0)
      BY ExpectedAre
    <2>3. r.begin \in Nat /\ r.end \in Nat
      BY DEF Ranges
    <2>4. MC!DecodeRangeInto(e, r.begin, r.end, Greater(Lesser(r.end, Len(d)) - r.begin, 0))
            = Rows(Slice(d, r.begin, r.end))
      BY <2>3, ChainsDecodeRange
    <2>5. QED
      BY ONLY <1>1, <1>6, <2>1, <2>2, <2>4
  <1>7. ASSUME NEW rs, Gathering(rs), c = DecodeGatherInto(rs)
        PROVE  MC!Answer(e, c, n) = Expected(d, c, FALSE)
    <2>1. MC!Answer(e, DecodeGatherInto(rs), n) = MC!DecodeGatherInto(e, rs, n)
      BY MainlyConstantAnswers
    <2>2. MC!DecodeGatherInto(e, rs, Asked(d, DecodeGatherInto(rs))) = Expected(d, DecodeGatherInto(rs), FALSE)
      BY <1>7, ChainsDecodeGather
    <2>3. QED
      BY ONLY <1>1, <1>7, <2>1, <2>2
  <1>8. MC!Answer(e, c, n) = Expected(d, c, FALSE)
    <2>1. CASE \E i \in Nat : c = DecodeAt(i)
      BY <1>4, <2>1
    <2>2. CASE \E r \in Ranges : c \in {DecodeRange(r), DecodeRangeInto(r)}
      <3>1. PICK r \in Ranges : c = DecodeRange(r) \/ c = DecodeRangeInto(r)
        BY <2>2
      <3>2. QED
        BY <1>5, <1>6, <3>1
    <2>3. CASE \E rs : Gathering(rs) /\ c = DecodeGatherInto(rs)
      BY <1>7, <2>3
    <2>4. CASE c \in {DecodeAll, DecodeAllInto}
      <3>1. c = DecodeAll \/ c = DecodeAllInto
        BY <2>4
      <3>2. MC!Answer(e, c, Asked(d, c)) = Expected(d, c, FALSE)
        BY ONLY <1>2, <1>3, <3>1
      <3>3. QED
        BY ONLY <1>1, <3>2
    <2>5. QED
      BY <2>1, <2>2, <2>3, <2>4 DEF Asking
  <1>9. QED
    BY <1>1, <1>8

\* MainlyConstantEncoder, with its other values raw or in a chain of any depth, answers
\* every call with the rows it was given, for every column, size of a bitmap's words and
\* range and gather a caller may ask for (MainlyConstantEncoder.hpp): the rank of a row is
\* the same counted from the first row, or carried over the gaps of a gather.
THEOREM MainlyConstantKeepsTheContract == Spec => []MainlyConstantAgrees
  <1>1. CodecsInv => MainlyConstantAgrees
    <2>1. SUFFICES ASSUME CodecsInv, kind = "MainlyConstant", call # NoCall
                   PROVE  answer = IF Refused THEN Threw ELSE Expected(data, call, kind \in Silent)
      BY DEF MainlyConstantAgrees, AsExpected
    <2>2. /\ kind \in Kinds /\ encoded # NotEncoded /\ call \in Calls[kind]
          /\ answer = Answer(kind, encoded, call, Asked(data, call))
      BY <2>1 DEF CodecsInv
    <2>3. PICK d \in Columns[kind] : encoded \in Encodings(kind, d) /\ data = Held(kind, d, encoded)
      BY <2>1, <2>2 DEF CodecsInv
    <2>4. d \in Seq(Int) /\ Asking(call)
      BY <2>2, <2>3, ColumnsAre, CallsAsk
    <2>5. data = d
      BY <2>1, <2>3 DEF Held, OwnKinds
    <2>6. PICK depth \in Nat : encoded \in MC!Encodings(d, depth)
      <3>1. Encodings("MainlyConstant", d) = UNION {MC!Encodings(d, depth) : depth \in 0..MaxDepth}
        BY DEF Encodings, RunLengthKinds
      <3>2. PICK depth \in 0..MaxDepth : encoded \in MC!Encodings(d, depth)
        BY <2>1, <2>3, <3>1
      <3>3. QED
        BY <3>2, BoundsAssumption
    <2>7. Encodes(encoded, d)
      BY <2>4, <2>6, ChainsEncode
    <2>8. MC!Answer(encoded, call, Asked(d, call)) = Expected(d, call, FALSE)
      BY <2>4, <2>7, ChainsAnswer
    <2>9. Answer(kind, encoded, call, Asked(d, call)) = MC!Answer(encoded, call, Asked(d, call))
      <3>1. kind \notin RunLengthKinds
        BY <2>1 DEF RunLengthKinds
      <3>2. QED
        BY <2>1, <3>1 DEF Answer
    <2>10. ~Refused /\ ~(kind \in Silent)
      BY <2>1 DEF Refused, Strict, PartitionKinds, Silent, BlockPartitionKinds
    <2>11. (kind \in Silent) = FALSE
      BY <2>10
    <2>12. QED
      BY <2>2, <2>5, <2>8, <2>9, <2>10, <2>11
  <1>2. QED
    BY <1>1, CallsOfOneEncoding, PTL
=============================================================================

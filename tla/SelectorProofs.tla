--------------------------- MODULE SelectorProofs ---------------------------
(***************************************************************************)
(* Proofs about Selector, for every width, every table of costs and every  *)
(* configuration.                                                          *)
(*                                                                         *)
(* A plan is a list of pieces without gaps (Tiles), and weighs what its    *)
(* pieces cost with a penalty for each (Weight).  The two dynamic          *)
(* programmes and the exhaustive search are recursions over a finite       *)
(* domain: what they define is what their equations say (CourseOfValues),  *)
(* and by induction over the bits, from below and from above, the plan     *)
(* that each returns weighs as little as any list without gaps (Optimal).  *)
(* Such lists and sets of cuts are the same thing, so the plan costs what  *)
(* LeastCost says.  The invariant carries that through the second search,  *)
(* and through the merge phase that what was merged so far covers the      *)
(* pieces looked at and weighs no more; a plan without gaps is in the      *)
(* order of the sections already, mirrored or not, so sorting it changes   *)
(* nothing and fromSegments refuses it only for a segment that it has no   *)
(* codec for; which codec a segment has is followed from the table through *)
(* the merges (CasesKnown).                                                *)
(***************************************************************************)
EXTENDS Selector, Induction

-----------------------------------------------------------------------------
(* Pieces of the bits, and lists of them that leave no gap.                *)

\* What select knows of its configuration.
OptOK == /\ opt.minWidth \in Nat \ {0} /\ opt.penalty \in Nat /\ opt.forced \in Nat
         /\ opt.exhaustive \in BOOLEAN /\ opt.prune \in BOOLEAN /\ opt.merge \in BOOLEAN
         /\ opt.order \in {"none", "LSB_TO_MSB", "MSB_TO_LSB"}

\* A segment of a plan, at a finite cost.
Piece == [seg : Segs, cost : 0..(Inf - 1), built : BOOLEAN]

\* The pieces of s meet, and reach from bit lo to before bit hi.
Tiles(s, lo, hi) ==
    /\ s \in Seq(Piece)
    /\ Len(s) = 0 => lo = hi
    /\ Len(s) > 0 => s[1].seg[1] = lo /\ s[Len(s)].seg[2] + 1 = hi
    /\ \A i \in 1..(Len(s) - 1) : s[i + 1].seg[1] = s[i].seg[2] + 1

\* Every piece is one that the search may use, at the cost in the table.
FromTable(s, table) ==
    \A i \in 1..Len(s) : /\ Usable(table, s[i].seg[1], s[i].seg[2])
                         /\ s[i].cost = table[s[i].seg]
                         /\ s[i].built <=> Buildable(s[i].seg)

\* The cost of the first n pieces, each with a penalty for a cut behind it.
Owing(s) == [i \in 1..Len(s) |-> s[i].cost + Penalty]
Weight(s) == SumTo(Owing(s), Len(s))

\* The ends of a segment, and the segment between two bits.
LEMMA SegmentEnds ==
    ASSUME NEW s \in Segs
    PROVE  /\ s = <<s[1], s[2]>>
           /\ s[1] \in Nat /\ s[2] \in Nat /\ s[1] <= s[2] /\ s[2] < Width
  BY SizeAssumption DEF Segs

\* The bits between two bits of a sample are a segment of its table.
LEMMA SegmentBetween ==
    ASSUME NEW l \in Nat, NEW r \in Nat, l <= r, r < Width
    PROVE  <<l, r>> \in Segs
  <1>1. l \in 0..(Width - 1) /\ r \in 0..(Width - 1)
    BY SizeAssumption
  <1>2. QED
    BY <1>1 DEF Segs

\* A piece is a segment with a cost below the infinite one.
LEMMA PieceParts ==
    ASSUME NEW x \in Piece
    PROVE  /\ x.seg \in Segs /\ x.seg = <<x.seg[1], x.seg[2]>>
           /\ x.seg[1] \in Nat /\ x.seg[2] \in Nat
           /\ x.seg[1] <= x.seg[2] /\ x.seg[2] < Width
           /\ x.cost \in Nat /\ x.cost < Inf
  BY SegmentEnds, SizeAssumption DEF Piece

\* Weights are naturals.
LEMMA WeightIsNat ==
    ASSUME OptOK, NEW s \in Seq(Piece)
    PROVE  /\ Weight(s) \in Nat
           /\ \A i \in 1..Len(s) : Owing(s)[i] \in Nat /\ Owing(s)[i] = s[i].cost + Penalty
           /\ \A i \in 0..Len(s) : SumTo(Owing(s), i) \in Nat
  <1>1. \A i \in 1..Len(s) : Owing(s)[i] \in Nat /\ Owing(s)[i] = s[i].cost + Penalty
    <2>1. ASSUME NEW i \in 1..Len(s) PROVE s[i].cost \in Nat
      <3>1. s[i] \in Piece
        OBVIOUS
      <3>2. QED
        BY <3>1, PieceParts
    <2>2. QED
      BY <2>1 DEF Owing, OptOK, Penalty
  <1>2. PICK n \in Nat : n = Len(s)
    OBVIOUS
  <1>3. \A i \in 0..n : SumTo(Owing(s), i) \in Nat
    BY ONLY <1>1, <1>2, SumToStep
  <1>4. n \in 0..n
    OBVIOUS
  <1>5. QED
    BY <1>1, <1>2, <1>3, <1>4 DEF Weight

\* Nothing covers nothing.
LEMMA NoPieces ==
    ASSUME NEW lo, NEW table, OptOK
    PROVE  /\ Tiles(<<>>, lo, lo) /\ FromTable(<<>>, table)
           /\ Len(<<>>) = 0 /\ Weight(<<>>) = 0
  <1>1. <<>> \in Seq(Piece) /\ Len(<<>>) = 0
    OBVIOUS
  <1>2. Weight(<<>>) = 0
    <2>1. SumTo(Owing(<<>>), 0) = 0
      <3>1. \A i \in 1..0 : Owing(<<>>)[i] \in Nat
        OBVIOUS
      <3>2. QED
        BY <3>1, SumToStep
    <2>2. QED
      BY <1>1, <2>1 DEF Weight
  <1>3. QED
    BY <1>1, <1>2 DEF Tiles, FromTable

\* One more piece behind the last, as the dynamic programmes build a plan.
LEMMA PieceBehind ==
    ASSUME OptOK, NEW s \in Seq(Piece), NEW x \in Piece
    PROVE  /\ Append(s, x) \in Seq(Piece) /\ Len(Append(s, x)) = Len(s) + 1
           /\ Append(s, x)[Len(s) + 1] = x
           /\ \A i \in 1..Len(s) : Append(s, x)[i] = s[i]
           /\ Weight(Append(s, x)) = Weight(s) + x.cost + Penalty
  <1> DEFINE t == Append(s, x)
  <1>1. PICK n \in Nat : n = Len(s)
    OBVIOUS
  <1>2. /\ t \in Seq(Piece) /\ Len(t) = n + 1 /\ t[n + 1] = x
        /\ \A i \in 1..n : t[i] = s[i]
    BY <1>1
  <1> HIDE DEF t
  <1>3. \A i \in 1..n : Owing(t)[i] = Owing(s)[i] /\ Owing(s)[i] \in Nat
    <2>1. ASSUME NEW i \in 1..n PROVE i \in 1..Len(t) /\ i \in 1..Len(s) /\ t[i] = s[i]
      BY <1>1, <1>2
    <2>2. QED
      BY <2>1, <1>2, WeightIsNat
  <1>4. Owing(t)[n + 1] = x.cost + Penalty /\ \A i \in 1..(n + 1) : Owing(t)[i] \in Nat
    <2>1. n + 1 \in 1..Len(t)
      BY <1>2
    <2>2. QED
      BY <2>1, <1>2, WeightIsNat
  <1>5. SumTo(Owing(t), n + 1) = SumTo(Owing(t), n) + Owing(t)[n + 1]
    <2>1. n + 1 \in 1..(n + 1) /\ (n + 1) - 1 = n /\ n + 1 \in Nat
      OBVIOUS
    <2>2. \A i \in 1..(n + 1) : SumTo(Owing(t), i) = SumTo(Owing(t), i - 1) + Owing(t)[i]
      BY ONLY <1>4, <2>1, SumToStep
    <2>3. QED
      BY <2>1, <2>2
  <1>6. SumTo(Owing(t), n) = SumTo(Owing(s), n)
    BY ONLY <1>3, n \in Nat, SumToSame
  <1>7. Weight(t) = Weight(s) + x.cost + Penalty
    <2>1. Weight(t) = SumTo(Owing(s), n) + (x.cost + Penalty)
      BY <1>2, <1>4, <1>5, <1>6 DEF Weight
    <2>2. SumTo(Owing(s), n) = Weight(s) /\ Weight(s) \in Nat /\ x.cost \in Nat /\ Penalty \in Nat
      BY <1>1, WeightIsNat, PieceParts DEF Weight, OptOK, Penalty
    <2>3. QED
      BY <2>1, <2>2
  <1>8. QED
    BY <1>1, <1>2, <1>7 DEF t

\* One more piece before the first, as the exhaustive search builds one.
LEMMA PieceBefore ==
    ASSUME OptOK, NEW s \in Seq(Piece), NEW x \in Piece
    PROVE  /\ <<x>> \o s \in Seq(Piece) /\ Len(<<x>> \o s) = Len(s) + 1
           /\ (<<x>> \o s)[1] = x
           /\ \A i \in 1..Len(s) : (<<x>> \o s)[i + 1] = s[i]
           /\ Weight(<<x>> \o s) = Weight(s) + x.cost + Penalty
  <1> DEFINE t == <<x>> \o s
  <1>1. PICK n \in Nat : n = Len(s)
    OBVIOUS
  <1>2. /\ t \in Seq(Piece) /\ Len(t) = n + 1 /\ t[1] = x
        /\ \A i \in 1..n : t[i + 1] = s[i]
    BY <1>1
  <1> HIDE DEF t
  <1>3. \A i \in 1..n : Owing(t)[i + 1] = Owing(s)[i] /\ Owing(s)[i] \in Nat
    <2>1. ASSUME NEW i \in 1..n PROVE i + 1 \in 1..Len(t) /\ i \in 1..Len(s) /\ t[i + 1] = s[i]
      BY <1>1, <1>2
    <2>2. QED
      BY <2>1, <1>2, WeightIsNat
  <1>4. PICK c \in Nat : c = x.cost + Penalty /\ c = Owing(t)[1]
    <2>1. 1 \in 1..Len(t)
      BY <1>2
    <2>2. QED
      BY <2>1, <1>2, WeightIsNat
  <1>5. SumTo(Owing(t), n + 1) = c + SumTo(Owing(s), n)
    BY ONLY <1>3, <1>4, n \in Nat, c \in Nat, SumToShift
  <1>6. Weight(t) = Weight(s) + x.cost + Penalty
    <2>1. Weight(t) = (x.cost + Penalty) + SumTo(Owing(s), n)
      BY <1>2, <1>4, <1>5 DEF Weight
    <2>2. SumTo(Owing(s), n) = Weight(s) /\ Weight(s) \in Nat /\ x.cost \in Nat /\ Penalty \in Nat
      BY <1>1, WeightIsNat, PieceParts DEF Weight, OptOK, Penalty
    <2>3. QED
      BY <2>1, <2>2
  <1>7. QED
    BY <1>1, <1>2, <1>6 DEF t

\* What a piece may be for the search.
Fits(x, table) == /\ Usable(table, x.seg[1], x.seg[2]) /\ x.cost = table[x.seg]
                  /\ x.built <=> Buildable(x.seg)

\* Lists without gaps grow at either end.
LEMMA TilesGrow ==
    ASSUME OptOK, NEW s, NEW lo, NEW hi, Tiles(s, lo, hi), NEW x \in Piece, NEW table
    PROVE  /\ x.seg[1] = hi =>
                 /\ Tiles(Append(s, x), lo, x.seg[2] + 1)
                 /\ FromTable(s, table) /\ Fits(x, table) => FromTable(Append(s, x), table)
           /\ x.seg[2] + 1 = lo =>
                 /\ Tiles(<<x>> \o s, x.seg[1], hi)
                 /\ FromTable(s, table) /\ Fits(x, table) => FromTable(<<x>> \o s, table)
  <1>1. PICK n \in Nat : n = Len(s)
    BY DEF Tiles
  <1>2. /\ s \in Seq(Piece) /\ (n = 0 => lo = hi)
        /\ n > 0 => s[1].seg[1] = lo /\ s[n].seg[2] + 1 = hi
        /\ \A i \in 1..(n - 1) : s[i + 1].seg[1] = s[i].seg[2] + 1
    BY <1>1 DEF Tiles
  <1>3. PICK t \in Seq(Piece) : /\ t = Append(s, x) /\ Len(t) = n + 1 /\ t[n + 1] = x
                                /\ \A i \in 1..n : t[i] = s[i]
    BY <1>1, <1>2, PieceBehind
  <1>4. PICK u \in Seq(Piece) : /\ u = <<x>> \o s /\ Len(u) = n + 1 /\ u[1] = x
                                /\ \A i \in 1..n : u[i + 1] = s[i]
    BY <1>1, <1>2, PieceBefore
  <1>5. ASSUME x.seg[1] = hi PROVE Tiles(t, lo, x.seg[2] + 1)
    <2>1. t[1].seg[1] = lo
      BY <1>2, <1>3, <1>5
    <2>2. ASSUME NEW i \in 1..n PROVE t[i + 1].seg[1] = t[i].seg[2] + 1
      <3>1. CASE i = n
        BY <1>2, <1>3, <1>5, <3>1
      <3>2. CASE i # n
        <4>1. i \in 1..(n - 1) /\ i + 1 \in 1..n
          BY <3>2
        <4>2. QED
          BY <1>2, <1>3, <4>1
      <3>3. QED
        BY <3>1, <3>2
    <2>3. (n + 1) - 1 = n /\ n + 1 > 0 /\ ~(n + 1 = 0)
      OBVIOUS
    <2>4. QED
      BY <1>3, <2>1, <2>2, <2>3 DEF Tiles
  <1>6. ASSUME x.seg[2] + 1 = lo PROVE Tiles(u, x.seg[1], hi)
    <2>1. u[n + 1].seg[2] + 1 = hi
      <3>1. CASE n = 0
        BY <1>2, <1>4, <1>6, <3>1
      <3>2. CASE n > 0
        <4>1. n \in 1..n
          BY <3>2
        <4>2. QED
          BY <1>2, <1>4, <4>1, <3>2
      <3>3. QED
        BY <3>1, <3>2
    <2>2. ASSUME NEW i \in 1..n PROVE u[i + 1].seg[1] = u[i].seg[2] + 1
      <3>1. CASE i = 1
        BY <1>2, <1>4, <1>6, <3>1
      <3>2. CASE i # 1
        <4>1. PICK j \in 1..(n - 1) : j + 1 = i
          <5>1. i - 1 \in 1..(n - 1) /\ (i - 1) + 1 = i
            BY <3>2
          <5>2. QED
            BY <5>1
        <4>2. j \in 1..n /\ j + 1 \in 1..n
          BY <4>1
        <4>3. QED
          BY <1>2, <1>4, <4>1, <4>2
      <3>3. QED
        BY <3>1, <3>2
    <2>3. (n + 1) - 1 = n /\ n + 1 > 0 /\ ~(n + 1 = 0)
      OBVIOUS
    <2>4. QED
      BY <1>4, <2>1, <2>2, <2>3 DEF Tiles
  <1>7. ASSUME FromTable(s, table), Fits(x, table) PROVE FromTable(t, table) /\ FromTable(u, table)
    <2>1. ASSUME NEW i \in 1..n PROVE Fits(s[i], table)
      BY <1>1, <1>7 DEF FromTable, Fits
    <2>2. ASSUME NEW i \in 1..(n + 1) PROVE Fits(t[i], table)
      <3>1. i = n + 1 \/ i \in 1..n
        OBVIOUS
      <3>2. QED
        BY <3>1, <2>1, <1>3, <1>7
    <2>3. ASSUME NEW i \in 1..(n + 1) PROVE Fits(u[i], table)
      <3>1. CASE i = 1
        BY <3>1, <1>4, <1>7
      <3>2. CASE i # 1
        <4>1. PICK j \in 1..n : j + 1 = i
          <5>1. i - 1 \in 1..n /\ (i - 1) + 1 = i
            BY <3>2
          <5>2. QED
            BY <5>1
        <4>2. QED
          BY <4>1, <2>1, <1>4
      <3>3. QED
        BY <3>1, <3>2
    <2>4. QED
      BY <2>2, <2>3, <1>3, <1>4 DEF FromTable, Fits
  <1>8. QED
    BY <1>3, <1>4, <1>5, <1>6, <1>7

\* A list without gaps that is not empty ends in a piece behind a shorter one.
LEMMA TilesLast ==
    ASSUME OptOK, NEW s, NEW lo, NEW hi, Tiles(s, lo, hi), Len(s) > 0, NEW table, FromTable(s, table)
    PROVE  \E t : \E x \in Piece :
              /\ Tiles(t, lo, x.seg[1]) /\ FromTable(t, table) /\ Fits(x, table)
              /\ Len(s) = Len(t) + 1 /\ x.seg[2] + 1 = hi /\ s = Append(t, x)
              /\ Weight(s) = Weight(t) + x.cost + Penalty
  <1>1. PICK n \in Nat : n + 1 = Len(s) /\ s \in Seq(Piece)
    <2>1. s \in Seq(Piece) /\ Len(s) \in Nat
      BY DEF Tiles
    <2>2. Len(s) - 1 \in Nat /\ (Len(s) - 1) + 1 = Len(s)
      BY <2>1
    <2>3. QED
      BY <2>1, <2>2
  <1>2. PICK t : t = [i \in 1..n |-> s[i]]
    OBVIOUS
  <1>3. PICK x \in Piece : x = s[n + 1]
    <2>1. n + 1 \in 1..Len(s)
      BY <1>1
    <2>2. QED
      BY <1>1, <2>1
  <1>4. t \in Seq(Piece) /\ Len(t) = n /\ \A i \in 1..n : t[i] = s[i]
    <2>1. \A i \in 1..n : s[i] \in Piece
      <3>1. \A i \in 1..n : i \in 1..Len(s)
        BY <1>1
      <3>2. QED
        BY <1>1, <3>1
    <2>2. QED
      BY <1>2, <2>1
  <1>5. s = Append(t, x)
    <2>1. PICK a \in Seq(Piece) : /\ a = Append(t, x) /\ Len(a) = n + 1 /\ a[n + 1] = x
                                  /\ \A i \in 1..n : a[i] = t[i]
      BY <1>4, PieceBehind
    <2>2. \A i \in 1..(n + 1) : i = n + 1 \/ i \in 1..n
      OBVIOUS
    <2>3. \A i \in 1..(n + 1) : a[i] = s[i]
      BY <2>1, <2>2, <1>3, <1>4
    <2>4. a = [i \in 1..(n + 1) |-> a[i]] /\ s = [i \in 1..(n + 1) |-> s[i]]
      <3>1. DOMAIN a = 1..(n + 1) /\ DOMAIN s = 1..(n + 1)
        BY <2>1, <1>1
      <3>2. a = [i \in DOMAIN a |-> a[i]] /\ s = [i \in DOMAIN s |-> s[i]]
        BY <1>1
      <3>3. QED
        BY <3>1, <3>2
    <2>5. QED
      BY <2>1, <2>3, <2>4
  <1>6. Weight(s) = Weight(t) + x.cost + Penalty
    BY <1>4, <1>5, PieceBehind
  <1>7. /\ s[1].seg[1] = lo /\ s[n + 1].seg[2] + 1 = hi
        /\ \A i \in 1..n : s[i + 1].seg[1] = s[i].seg[2] + 1
    <2>1. Len(s) - 1 = n
      BY <1>1
    <2>2. QED
      BY <1>1, <2>1 DEF Tiles
  <1>8. Tiles(t, lo, x.seg[1])
    <2>1. n = 0 => lo = x.seg[1]
      BY <1>3, <1>7
    <2>2. n > 0 => t[1].seg[1] = lo /\ t[n].seg[2] + 1 = x.seg[1]
      <3>1. ASSUME n > 0 PROVE 1 \in 1..n /\ n \in 1..n
        BY <3>1
      <3>2. QED
        BY <3>1, <1>3, <1>4, <1>7
    <2>3. \A i \in 1..(n - 1) : t[i + 1].seg[1] = t[i].seg[2] + 1
      <3>1. \A i \in 1..(n - 1) : i \in 1..n /\ i + 1 \in 1..n
        OBVIOUS
      <3>2. QED
        BY <3>1, <1>4, <1>7
    <2>4. QED
      BY <1>4, <2>1, <2>2, <2>3 DEF Tiles
  <1>9. FromTable(t, table) /\ Fits(x, table)
    <2>1. \A i \in 1..(n + 1) : Fits(s[i], table)
      BY <1>1 DEF FromTable, Fits
    <2>2. \A i \in 1..n : i \in 1..(n + 1)
      OBVIOUS
    <2>3. n + 1 \in 1..(n + 1)
      OBVIOUS
    <2>4. Fits(x, table) /\ \A i \in 1..n : Fits(t[i], table)
      BY <1>3, <1>4, <2>1, <2>2, <2>3
    <2>5. QED
      BY <1>4, <2>4 DEF FromTable, Fits
  <1>10. QED
    BY <1>1, <1>3, <1>4, <1>5, <1>6, <1>7, <1>8, <1>9

\* It begins with a piece before a shorter one.
LEMMA TilesFirst ==
    ASSUME OptOK, NEW s, NEW lo, NEW hi, Tiles(s, lo, hi), Len(s) > 0, NEW table, FromTable(s, table)
    PROVE  \E t : \E x \in Piece :
              /\ Tiles(t, x.seg[2] + 1, hi) /\ FromTable(t, table) /\ Fits(x, table)
              /\ Len(s) = Len(t) + 1 /\ x.seg[1] = lo
              /\ Weight(s) = Weight(t) + x.cost + Penalty
  <1>1. PICK n \in Nat : n + 1 = Len(s) /\ s \in Seq(Piece)
    <2>1. s \in Seq(Piece) /\ Len(s) \in Nat
      BY DEF Tiles
    <2>2. Len(s) - 1 \in Nat /\ (Len(s) - 1) + 1 = Len(s)
      BY <2>1
    <2>3. QED
      BY <2>1, <2>2
  <1>2. PICK t : t = [i \in 1..n |-> s[i + 1]]
    OBVIOUS
  <1>3. PICK x \in Piece : x = s[1]
    <2>1. 1 \in 1..Len(s)
      BY <1>1
    <2>2. QED
      BY <1>1, <2>1
  <1>4. t \in Seq(Piece) /\ Len(t) = n /\ \A i \in 1..n : t[i] = s[i + 1]
    <2>1. \A i \in 1..n : s[i + 1] \in Piece
      <3>1. \A i \in 1..n : i + 1 \in 1..Len(s)
        BY <1>1
      <3>2. QED
        BY <1>1, <3>1
    <2>2. QED
      BY <1>2, <2>1
  <1>5. s = <<x>> \o t
    <2>1. PICK a \in Seq(Piece) : /\ a = <<x>> \o t /\ Len(a) = n + 1 /\ a[1] = x
                                  /\ \A i \in 1..n : a[i + 1] = t[i]
      BY <1>4, PieceBefore
    <2>2. ASSUME NEW i \in 1..(n + 1) PROVE a[i] = s[i]
      <3>1. CASE i = 1
        BY <3>1, <2>1, <1>3
      <3>2. CASE i # 1
        <4>1. PICK j \in 1..n : j + 1 = i
          <5>1. i - 1 \in 1..n /\ (i - 1) + 1 = i
            BY <3>2
          <5>2. QED
            BY <5>1
        <4>2. QED
          BY <4>1, <2>1, <1>4
      <3>3. QED
        BY <3>1, <3>2
    <2>3. a = [i \in 1..(n + 1) |-> a[i]] /\ s = [i \in 1..(n + 1) |-> s[i]]
      <3>1. DOMAIN a = 1..(n + 1) /\ DOMAIN s = 1..(n + 1)
        BY <2>1, <1>1
      <3>2. a = [i \in DOMAIN a |-> a[i]] /\ s = [i \in DOMAIN s |-> s[i]]
        BY <1>1
      <3>3. QED
        BY <3>1, <3>2
    <2>4. QED
      BY <2>1, <2>2, <2>3
  <1>6. Weight(s) = Weight(t) + x.cost + Penalty
    BY <1>4, <1>5, PieceBefore
  <1>7. /\ s[1].seg[1] = lo /\ s[n + 1].seg[2] + 1 = hi
        /\ \A i \in 1..n : s[i + 1].seg[1] = s[i].seg[2] + 1
    <2>1. Len(s) - 1 = n
      BY <1>1
    <2>2. QED
      BY <1>1, <2>1 DEF Tiles
  <1>8. Tiles(t, x.seg[2] + 1, hi)
    <2>1. n = 0 => x.seg[2] + 1 = hi
      BY <1>3, <1>7
    <2>2. n > 0 => t[1].seg[1] = x.seg[2] + 1 /\ t[n].seg[2] + 1 = hi
      <3>1. ASSUME n > 0 PROVE 1 \in 1..n /\ n \in 1..n
        BY <3>1
      <3>2. QED
        BY <3>1, <1>3, <1>4, <1>7
    <2>3. \A i \in 1..(n - 1) : t[i + 1].seg[1] = t[i].seg[2] + 1
      <3>1. \A i \in 1..(n - 1) : i \in 1..n /\ i + 1 \in 1..n
        OBVIOUS
      <3>2. QED
        BY <3>1, <1>4, <1>7
    <2>4. QED
      BY <1>4, <2>1, <2>2, <2>3 DEF Tiles
  <1>9. FromTable(t, table) /\ Fits(x, table)
    <2>1. \A i \in 1..(n + 1) : Fits(s[i], table)
      BY <1>1 DEF FromTable, Fits
    <2>2. \A i \in 1..n : i + 1 \in 1..(n + 1)
      OBVIOUS
    <2>3. 1 \in 1..(n + 1)
      OBVIOUS
    <2>4. Fits(x, table) /\ \A i \in 1..n : Fits(t[i], table)
      BY <1>3, <1>4, <2>1, <2>2, <2>3
    <2>5. QED
      BY <1>4, <2>4 DEF FromTable, Fits
  <1>10. QED
    BY <1>1, <1>3, <1>4, <1>6, <1>7, <1>8, <1>9

-----------------------------------------------------------------------------
(* The cheapest of several.                                                *)

\* Winner finds the least cost, and where it is when it is finite.
LEMMA WinnerWins ==
    ASSUME NEW D, D \subseteq Nat, NEW d \in D, NEW cost \in [D -> Nat]
    PROVE  /\ Winner(cost).total \in Nat
           /\ \A j \in D : Winner(cost).total <= cost[j]
           /\ Winner(cost).total >= Inf => Winner(cost).from = -1
           /\ Winner(cost).total < Inf => /\ Winner(cost).from \in D
                                          /\ cost[Winner(cost).from] = Winner(cost).total
  <1> DEFINE R == Range(cost)
             m == Min(R)
             J == {j \in DOMAIN cost : cost[j] = m}
  <1>1. R = {cost[j] : j \in D} /\ R \subseteq Nat /\ R # {}
    BY DEF Range
  <1>2. m \in R /\ \A y \in R : m <= y
    <2>1. \E x \in R : \A y \in R : x <= y
      BY <1>1, LeastNatural
    <2>2. QED
      BY <2>1 DEF Min
  <1>3. m \in Nat /\ \A j \in D : m <= cost[j]
    BY <1>1, <1>2
  <1>4. Min(J) \in D /\ cost[Min(J)] = m
    <2>1. J \subseteq Nat /\ J # {}
      BY <1>1, <1>2
    <2>2. \E x \in J : \A y \in J : x <= y
      BY <2>1, LeastNatural
    <2>3. Min(J) \in J
      BY <2>2 DEF Min
    <2>4. QED
      BY <2>3
  <1>5. /\ Winner(cost).total = m
        /\ Winner(cost).from = IF m >= Inf THEN -1 ELSE Min(J)
    BY DEF Winner
  <1>6. m >= Inf => ~(m < Inf)
    BY <1>3, SizeAssumption
  <1>7. m < Inf => ~(m >= Inf)
    BY <1>3, SizeAssumption
  <1> HIDE DEF m, J, R
  <1>8. QED
    BY <1>3, <1>4, <1>5, <1>6, <1>7

-----------------------------------------------------------------------------
(* The dynamic programme.                                                  *)

\* A table of costs.
Tables == [Segs -> 0..Inf]

\* The penalty for the cut below a piece that begins at bit j.
Owed(j) == IF j = 0 THEN 0 ELSE Penalty

\* What DP computes for the lowest i bits, from what g holds for fewer.
DPCost(table, g, i) ==
    [j \in 0..(i - 1) |->
        IF Usable(table, j, i - 1) /\ g[j].total < Inf
        THEN g[j].total + table[<<j, i - 1>>] + (IF j = 0 THEN 0 ELSE Penalty)
        ELSE Inf]
\* The rows of DP, from rows g.
DPRow(table, g) ==
    [i \in 0..Width |-> IF i = 0 THEN [total |-> 0, from |-> -1] ELSE Winner(DPCost(table, g, i))]

\* A row: what a cut costs, and where its last piece begins.
Cells == [total : Nat, from : Int]

\* The candidates that runDynamicProgramming compares have costs that are naturals.
LEMMA DPCostTyped ==
    ASSUME OptOK, NEW table \in Tables, NEW i \in 1..Width, NEW g,
           \A j \in 0..(i - 1) : g[j].total \in Nat
    PROVE  DPCost(table, g, i) \in [0..(i - 1) -> Nat]
  <1>1. ASSUME NEW j \in 0..(i - 1)
        PROVE  DPCost(table, g, i)[j] \in Nat
    <2>1. <<j, i - 1>> \in Segs
      <3>1. j \in Nat /\ i - 1 \in Nat /\ j <= i - 1 /\ i - 1 < Width
        BY SizeAssumption
      <3>2. QED
        BY <3>1, SegmentBetween
    <2>2. table[<<j, i - 1>>] \in Nat
      BY <2>1, SizeAssumption DEF Tables
    <2>3. g[j].total \in Nat /\ Penalty \in Nat /\ Inf \in Nat
      BY SizeAssumption DEF OptOK, Penalty
    <2>4. QED
      BY <2>2, <2>3 DEF DPCost
  <1>2. QED
    BY <1>1 DEF DPCost

\* DP is what its recursion says: a row of it depends on lower rows only.
LEMMA DPIs ==
    ASSUME OptOK, NEW table \in Tables
    PROVE  DP(table) = DPRow(table, DP(table))
  <1> DEFINE D == 0..Width
             F == [g \in [D -> Cells] |-> DPRow(table, g)]
             rank == [i \in D |-> i]
  <1>1. ASSUME NEW g \in [D -> Cells] PROVE DPRow(table, g) \in [D -> Cells]
    <2>1. ASSUME NEW i \in D, i # 0 PROVE Winner(DPCost(table, g, i)) \in Cells
      <3>1. i \in 1..Width /\ 0 \in 0..(i - 1) /\ 0..(i - 1) \subseteq Nat
        BY <2>1
      <3>2. \A j \in 0..(i - 1) : g[j].total \in Nat
        <4>1. \A j \in 0..(i - 1) : j \in D
          BY <3>1, SizeAssumption
        <4>2. QED
          BY <4>1 DEF Cells
      <3>3. PICK cost \in [0..(i - 1) -> Nat] : cost = DPCost(table, g, i)
        BY <3>1, <3>2, DPCostTyped
      <3>4. Winner(cost).total \in Nat /\ (Winner(cost).from \in 0..(i - 1) \/ Winner(cost).from = -1)
        <4>1. Winner(cost).total \in Nat
          BY <3>1, WinnerWins
        <4>2. Winner(cost).total >= Inf \/ Winner(cost).total < Inf
          BY <4>1, SizeAssumption
        <4>3. QED
          BY <3>1, <4>1, <4>2, WinnerWins
      <3>5. Winner(cost) = [total |-> Winner(cost).total, from |-> Winner(cost).from]
        BY DEF Winner
      <3>6. QED
        BY <3>3, <3>4, <3>5 DEF Cells
    <2>2. [total |-> 0, from |-> -1] \in Cells
      BY DEF Cells
    <2>3. QED
      BY <2>1, <2>2 DEF DPRow
  <1>2. ASSUME NEW g \in [D -> Cells], NEW h \in [D -> Cells], NEW i \in D,
               \A j \in D : j < i => g[j] = h[j]
        PROVE  DPRow(table, g)[i] = DPRow(table, h)[i]
    <2>1. \A j \in 0..(i - 1) : g[j] = h[j]
      <3>1. \A j \in 0..(i - 1) : j \in D /\ j < i
        BY SizeAssumption
      <3>2. QED
        BY <3>1, <1>2
    <2>2. DPCost(table, g, i) = DPCost(table, h, i)
      BY <2>1 DEF DPCost
    <2>3. QED
      BY <2>2 DEF DPRow
  <1>3. \E g \in [D -> Cells] : DPRow(table, g) = g
    <2>1. F \in [[D -> Cells] -> [D -> Cells]]
      BY <1>1
    <2>2. rank \in [D -> Nat] /\ Width + 1 \in Nat /\ \A i \in D : rank[i] < Width + 1
      BY SizeAssumption
    <2>3. [total |-> 0, from |-> -1] \in Cells
      BY DEF Cells
    <2>4. \A g, h \in [D -> Cells] : \A x \in D :
             (\A y \in D : rank[y] < rank[x] => g[y] = h[y]) => F[g][x] = F[h][x]
      BY <1>2
    <2>5. \E g \in [D -> Cells] : F[g] = g
      <3>1. Ranked(D, Cells, F, rank, Width + 1)
        BY <2>1, <2>2, <2>4 DEF Ranked
      <3> HIDE DEF D, F, rank
      <3>2. QED
        BY <2>3, <3>1, CourseOfValues
    <2>6. QED
      BY <2>5
  <1>4. DP(table) = CHOOSE g : g = DPRow(table, g)
    BY DEF DP, DPRow, DPCost
  <1>5. QED
    BY <1>3, <1>4

\* What is known of the best cut of the lowest i bits.
BestCut(table, dp, i) ==
    /\ dp[i].total \in Nat /\ dp[i].total <= Inf
    /\ i = 0 => dp[i].total = 0
    /\ dp[i].total >= Inf => dp[i].from < 0
    /\ \A j \in Nat :
          /\ j < i /\ Usable(table, j, i - 1) /\ dp[j].total < Inf =>
                dp[i].total <= dp[j].total + table[<<j, i - 1>>] + Owed(j)
    /\ i > 0 /\ dp[i].total < Inf =>
          \E j \in Nat : /\ j = dp[i].from /\ j < i /\ Usable(table, j, i - 1)
                         /\ dp[j].total < Inf
                         /\ dp[i].total = dp[j].total + table[<<j, i - 1>>] + Owed(j)

\* Every row of the dynamic programme holds the cheapest last piece on top of the
\* best cut of the bits below it, and says where that piece begins.
LEMMA DPCuts ==
    ASSUME OptOK, NEW table \in Tables
    PROVE  \A i \in 0..Width : BestCut(table, DP(table), i)
  <1>0. PICK dp : dp = DP(table)
    OBVIOUS
  <1>1. dp = DPRow(table, dp)
    BY <1>0, DPIs
  <1>2. dp[0] = [total |-> 0, from |-> -1]
    <2>1. 0 \in 0..Width
      BY SizeAssumption
    <2>2. DPRow(table, dp)[0] = [total |-> 0, from |-> -1]
      BY <2>1 DEF DPRow
    <2>3. QED
      BY <1>1, <2>2
  <1>3. \A i \in 1..Width : dp[i] = Winner(DPCost(table, dp, i))
    <2>1. ASSUME NEW i \in 1..Width PROVE DPRow(table, dp)[i] = Winner(DPCost(table, dp, i))
      <3>1. i \in 0..Width /\ i # 0
        OBVIOUS
      <3>2. QED
        BY <3>1 DEF DPRow
    <2>2. QED
      BY <1>1, <2>1
  <1> DEFINE P == {i \in Nat : i <= Width => dp[i].total \in Nat}
  <1>4. \A i \in Nat : i \in P
    <2>1. ASSUME NEW i \in Nat, \A j \in Nat : j < i => j \in P PROVE i \in P
      <3>1. SUFFICES ASSUME i <= Width PROVE dp[i].total \in Nat
        OBVIOUS
      <3>2. CASE i = 0
        BY <3>2, <1>2
      <3>3. CASE i # 0
        <4>1. i \in 1..Width /\ 0 \in 0..(i - 1) /\ 0..(i - 1) \subseteq Nat
          BY <3>1, <3>3
        <4>2. \A j \in 0..(i - 1) : dp[j].total \in Nat
          <5>1. \A j \in 0..(i - 1) : j \in Nat /\ j < i /\ j <= Width
            BY <4>1, SizeAssumption
          <5>2. QED
            BY <2>1, <5>1
        <4>3. PICK cost \in [0..(i - 1) -> Nat] : cost = DPCost(table, dp, i)
          BY <4>1, <4>2, DPCostTyped
        <4>4. Winner(cost).total \in Nat
          BY <4>1, WinnerWins
        <4>5. QED
          BY <4>1, <4>3, <4>4, <1>3
      <3>4. QED
        BY <3>2, <3>3
    <2> HIDE DEF P
    <2>2. QED
      BY <2>1, StrongInduction
  <1>5. \A i \in 0..Width : dp[i].total \in Nat
    BY <1>4, SizeAssumption
  <1> HIDE DEF P
  <1>6. BestCut(table, dp, 0)
    <2>1. \A j \in Nat : ~(j < 0)
      OBVIOUS
    <2>2. dp[0].total = 0 /\ dp[0].from = -1
      BY <1>2
    <2>3. QED
      BY <2>1, <2>2, SizeAssumption DEF BestCut
  <1>7. ASSUME NEW i \in 1..Width PROVE BestCut(table, dp, i)
    <2>1. 0 \in 0..(i - 1) /\ 0..(i - 1) \subseteq Nat
      OBVIOUS
    <2>2. \A j \in 0..(i - 1) : dp[j].total \in Nat
      <3>1. \A j \in 0..(i - 1) : j \in 0..Width
        BY SizeAssumption
      <3>2. QED
        BY <1>5, <3>1
    <2>3. PICK cost \in [0..(i - 1) -> Nat] : cost = DPCost(table, dp, i)
      BY <2>2, DPCostTyped
    <2>4. PICK w : w = dp[i] /\ w = Winner(cost)
      BY <2>3, <1>3
    <2>5. /\ w.total \in Nat
          /\ \A j \in 0..(i - 1) : w.total <= cost[j]
          /\ w.total >= Inf => w.from = -1
          /\ w.total < Inf => w.from \in 0..(i - 1) /\ cost[w.from] = w.total
      BY ONLY <2>1, <2>4, cost \in [0..(i - 1) -> Nat], WinnerWins
    <2>6. \A j \in 0..(i - 1) :
             cost[j] = IF Usable(table, j, i - 1) /\ dp[j].total < Inf
                       THEN dp[j].total + table[<<j, i - 1>>] + Owed(j) ELSE Inf
      BY <2>3 DEF DPCost, Owed
    <2>7. w.total <= Inf
      <3>1. w.total <= cost[0]
        BY <2>1, <2>5
      <3>2. cost[0] <= Inf
        <4>1. CASE Usable(table, 0, i - 1) /\ dp[0].total < Inf
          <5>1. cost[0] = dp[0].total + table[<<0, i - 1>>] + Owed(0)
            BY <2>1, <2>6, <4>1
          <5>2. table[<<0, i - 1>>] \in Nat /\ table[<<0, i - 1>>] < Inf
            <6>1. <<0, i - 1>> \in Segs
              <7>1. 0 \in Nat /\ i - 1 \in Nat /\ 0 <= i - 1 /\ i - 1 < Width
                BY SizeAssumption
              <7>2. QED
                BY <7>1, SegmentBetween
            <6>2. QED
              BY <6>1, <4>1, SizeAssumption DEF Usable, Tables
          <5>3. dp[0].total = 0 /\ Owed(0) = 0
            BY <1>2 DEF Owed
          <5>4. QED
            BY <5>1, <5>2, <5>3, SizeAssumption
        <4>2. CASE ~(Usable(table, 0, i - 1) /\ dp[0].total < Inf)
          <5>1. cost[0] = Inf
            BY <2>1, <2>6, <4>2
          <5>2. QED
            BY <5>1, SizeAssumption
        <4>3. QED
          BY <4>1, <4>2
      <3>3. cost[0] \in Nat
        BY <2>1
      <3>4. QED
        BY <2>5, <3>1, <3>2, <3>3, SizeAssumption
    <2>8. ASSUME NEW j \in Nat, j < i, Usable(table, j, i - 1), dp[j].total < Inf
          PROVE  w.total <= dp[j].total + table[<<j, i - 1>>] + Owed(j)
      <3>1. j \in 0..(i - 1)
        BY <2>8
      <3>2. QED
        BY <3>1, <2>5, <2>6, <2>8
    <2>9. ASSUME w.total < Inf
          PROVE  \E j \in Nat : /\ j = w.from /\ j < i /\ Usable(table, j, i - 1)
                                /\ dp[j].total < Inf
                                /\ w.total = dp[j].total + table[<<j, i - 1>>] + Owed(j)
      <3>1. PICK j \in 0..(i - 1) : j = w.from /\ cost[j] = w.total
        BY <2>5, <2>9
      <3>2. cost[j] # Inf
        BY <3>1, <2>5, <2>9, SizeAssumption
      <3>3. Usable(table, j, i - 1) /\ dp[j].total < Inf
        BY <2>6, <3>2
      <3>4. w.total = dp[j].total + table[<<j, i - 1>>] + Owed(j)
        BY <2>6, <3>1, <3>3
      <3>5. j \in Nat /\ j < i
        OBVIOUS
      <3>6. QED
        BY <3>1, <3>3, <3>4, <3>5
    <2>10. i # 0 /\ (w.total >= Inf => w.from < 0)
      BY <2>5
    <2>11. QED
      BY <2>4, <2>5, <2>7, <2>8, <2>9, <2>10 DEF BestCut
  <1>8. \A i \in 0..Width : i = 0 \/ i \in 1..Width
    OBVIOUS
  <1>9. QED
    BY <1>0, <1>6, <1>7, <1>8

\* What a plan for all the bits promises: none of its cost is left out, and no
\* list of usable pieces, of as many as are forced, costs less.
Optimal(p, table) ==
    /\ p.total \in Nat /\ p.total <= Inf
    /\ p.total >= Inf => p.segs = <<>>
    /\ p.total < Inf => /\ Tiles(p.segs, 0, Width) /\ FromTable(p.segs, table)
                        /\ Weight(p.segs) = p.total + Penalty
                        /\ Forced > 0 => Len(p.segs) = Forced
    /\ \A s : Tiles(s, 0, Width) /\ FromTable(s, table) /\ (Forced > 0 => Len(s) = Forced) =>
                 p.total + Penalty <= Weight(s)

\* The search's pieces.
LEMMA ChosenFits ==
    ASSUME NEW table \in Tables, NEW l \in Nat, NEW r \in Nat, l <= r, r < Width,
           Usable(table, l, r)
    PROVE  /\ Chosen(table, l, r) \in Piece /\ Fits(Chosen(table, l, r), table)
           /\ Chosen(table, l, r).seg[1] = l /\ Chosen(table, l, r).seg[2] = r
           /\ Chosen(table, l, r).cost = table[<<l, r>>]
  <1>1. <<l, r>> \in Segs
    BY SegmentBetween
  <1>2. table[<<l, r>>] \in 0..(Inf - 1)
    BY <1>1, SizeAssumption DEF Tables, Usable
  <1>3. Buildable(<<l, r>>) \in BOOLEAN
    BY DEF Buildable
  <1>4. PICK b \in BOOLEAN : b <=> Buildable(<<l, r>>)
    BY <1>3
  <1>5. Chosen(table, l, r) = [seg |-> <<l, r>>, cost |-> table[<<l, r>>], built |-> b]
    BY <1>3, <1>4 DEF Chosen
  <1>6. QED
    BY <1>1, <1>2, <1>4, <1>5 DEF Piece, Fits

\* Penalties are naturals.
LEMMA OwedIsNat ==
    ASSUME OptOK, NEW j
    PROVE  Owed(j) \in Nat /\ Penalty \in Nat
  BY DEF Owed, OptOK, Penalty

\* The plan of the lowest i bits, from plans g of fewer.
BackRow(table, dp, g) ==
    [i \in 0..Width |->
        IF i = 0 \/ dp[i].from < 0 THEN <<>>
        ELSE Append(g[dp[i].from], Chosen(table, dp[i].from, i - 1))]

\* One step back from a cut that has a finite cost.
LEMMA CutBack ==
    ASSUME OptOK, NEW table \in Tables, NEW dp, NEW i \in 1..Width, BestCut(table, dp, i),
           dp[i].from >= 0, dp[i].from \in Int
    PROVE  \E j \in 0..(i - 1) :
              /\ j = dp[i].from /\ dp[j].total < Inf
              /\ Chosen(table, j, i - 1) \in Piece /\ Fits(Chosen(table, j, i - 1), table)
              /\ Chosen(table, j, i - 1).seg[1] = j /\ Chosen(table, j, i - 1).seg[2] + 1 = i
              /\ dp[i].total = dp[j].total + Chosen(table, j, i - 1).cost + Owed(j)
  <1>1. dp[i].total < Inf
    BY SizeAssumption DEF BestCut
  <1>2. PICK j \in Nat : /\ j = dp[i].from /\ j < i /\ Usable(table, j, i - 1)
                         /\ dp[j].total < Inf
                         /\ dp[i].total = dp[j].total + table[<<j, i - 1>>] + Owed(j)
    BY <1>1 DEF BestCut
  <1>3. PICK r \in Nat : r = i - 1 /\ j <= r /\ r < Width /\ r + 1 = i
    BY <1>2, SizeAssumption
  <1>4. /\ Chosen(table, j, r) \in Piece /\ Fits(Chosen(table, j, r), table)
        /\ Chosen(table, j, r).seg[1] = j /\ Chosen(table, j, r).seg[2] = r
        /\ Chosen(table, j, r).cost = table[<<j, r>>]
    BY <1>2, <1>3, ChosenFits
  <1>5. j \in 0..(i - 1)
    BY <1>2
  <1>6. QED
    BY <1>2, <1>3, <1>4, <1>5

\* Where a cut of finite cost is recorded, backtracking has somewhere to go.
LEMMA CutFrom ==
    ASSUME NEW table, NEW dp, NEW i \in Nat, i # 0, BestCut(table, dp, i), dp[i].total < Inf
    PROVE  dp[i].from \in Nat
  <1>1. i > 0
    OBVIOUS
  <1>2. \E j \in Nat : j = dp[i].from
    BY <1>1 DEF BestCut
  <1>3. QED
    BY <1>2

\* Backtracking is what its recursion says, and the plan is read off its top.
LEMMA BackIs ==
    ASSUME OptOK, NEW table \in Tables, NEW dp, dp = DP(table)
    PROVE  LET back == CHOOSE b : b = BackRow(table, dp, b) IN
           /\ back = BackRow(table, dp, back)
           /\ DPPlan(table) = [total |-> dp[Width].total,
                               segs  |-> IF dp[Width].total >= Inf THEN <<>> ELSE back[Width]]
  <1> DEFINE D == 0..Width
             S == Seq(Piece)
             F == [g \in [D -> S] |-> BackRow(table, dp, g)]
             rank == [i \in D |-> i]
             back == CHOOSE b : b = BackRow(table, dp, b)
  <1>1. \A i \in 0..Width : BestCut(table, dp, i)
    BY DPCuts
  <1>2. \A i \in 0..Width : dp[i].from \in Int
    <2>1. \A i \in 1..Width : dp[i].total >= Inf \/ dp[i].total < Inf
      BY <1>1, SizeAssumption DEF BestCut
    <2>2. ASSUME NEW i \in 1..Width PROVE dp[i].from \in Int
      <3>1. i \in 0..Width /\ i # 0
        OBVIOUS
      <3>2. dp[i] = Winner(DPCost(table, dp, i))
        <4>1. dp = DPRow(table, dp)
          BY DPIs
        <4>2. DPRow(table, dp)[i] = Winner(DPCost(table, dp, i))
          BY <3>1 DEF DPRow
        <4>3. QED
          BY <4>1, <4>2
      <3>3. dp[i].total >= Inf => dp[i].from = -1
        BY <3>2 DEF Winner
      <3>4. CASE dp[i].total < Inf
        BY <3>1, <3>4, <1>1, CutFrom
      <3>5. QED
        BY <3>3, <3>4, <2>1
    <2>3. dp[0].from \in Int
      <3>1. dp = DPRow(table, dp) /\ 0 \in 0..Width
        BY DPIs, SizeAssumption
      <3>2. DPRow(table, dp)[0] = [total |-> 0, from |-> -1]
        BY <3>1 DEF DPRow
      <3>3. QED
        BY <3>1, <3>2
    <2>4. \A i \in 0..Width : i = 0 \/ i \in 1..Width
      OBVIOUS
    <2>5. QED
      BY <2>2, <2>3, <2>4
  <1>3. ASSUME NEW i \in D, i # 0, ~(dp[i].from < 0)
        PROVE  /\ i \in 1..Width /\ dp[i].from \in 0..(i - 1)
               /\ Chosen(table, dp[i].from, i - 1) \in Piece
    <2>1. i \in 1..Width
      BY <1>3
    <2>2. dp[i].from >= 0 /\ dp[i].from \in Int
      BY <1>2, <1>3
    <2>3. QED
      BY <2>1, <2>2, <1>1, CutBack
  <1>4. ASSUME NEW g \in [D -> S] PROVE BackRow(table, dp, g) \in [D -> S]
    <2>1. ASSUME NEW i \in D, i # 0, ~(dp[i].from < 0)
          PROVE  Append(g[dp[i].from], Chosen(table, dp[i].from, i - 1)) \in S
      <3>1. dp[i].from \in D
        <4>1. dp[i].from \in 0..(i - 1)
          BY <2>1, <1>3
        <4>2. QED
          BY <4>1, SizeAssumption
      <3>2. g[dp[i].from] \in S /\ Chosen(table, dp[i].from, i - 1) \in Piece
        BY <3>1, <2>1, <1>3
      <3>3. QED
        BY <3>2
    <2>2. <<>> \in S
      OBVIOUS
    <2> HIDE DEF S
    <2>3. QED
      BY <2>1, <2>2 DEF BackRow
  <1>5. ASSUME NEW g \in [D -> S], NEW h \in [D -> S], NEW i \in D,
               \A j \in D : j < i => g[j] = h[j]
        PROVE  BackRow(table, dp, g)[i] = BackRow(table, dp, h)[i]
    <2>1. CASE i = 0 \/ dp[i].from < 0
      BY <2>1 DEF BackRow
    <2>2. CASE i # 0 /\ ~(dp[i].from < 0)
      <3>1. dp[i].from \in D /\ dp[i].from < i
        <4>1. dp[i].from \in 0..(i - 1) /\ i \in 1..Width
          BY <2>2, <1>3
        <4>2. QED
          BY <4>1, SizeAssumption
      <3>2. g[dp[i].from] = h[dp[i].from]
        BY <3>1, <1>5
      <3>3. QED
        BY <3>2 DEF BackRow
    <2>3. QED
      BY <2>1, <2>2
  <1>6. \E g \in [D -> S] : BackRow(table, dp, g) = g
    <2>1. F \in [[D -> S] -> [D -> S]]
      BY <1>4
    <2>2. rank \in [D -> Nat] /\ Width + 1 \in Nat /\ \A i \in D : rank[i] < Width + 1
      BY SizeAssumption
    <2>3. \A g, h \in [D -> S] : \A x \in D :
             (\A y \in D : rank[y] < rank[x] => g[y] = h[y]) => F[g][x] = F[h][x]
      BY <1>5
    <2>4. Ranked(D, S, F, rank, Width + 1)
      BY <2>1, <2>2, <2>3 DEF Ranked
    <2>5. <<>> \in S
      OBVIOUS
    <2>6. \E g \in [D -> S] : F[g] = g
      <3> HIDE DEF D, S, F, rank
      <3> QED
        BY <2>4, <2>5, CourseOfValues
    <2>7. QED
      BY <2>6
  <1>7. back = BackRow(table, dp, back)
    BY <1>6
  <1>8. DPPlan(table) = [total |-> dp[Width].total,
                         segs  |-> IF dp[Width].total >= Inf THEN <<>> ELSE back[Width]]
    BY DEF DPPlan, BackRow
  <1>9. QED
    BY <1>7, <1>8

\* The dynamic programme's plan is optimal.
LEMMA DPPlanOptimal ==
    ASSUME OptOK, Forced = 0, NEW table \in Tables
    PROVE  Optimal(DPPlan(table), table)
  <1>0. PICK dp : dp = DP(table)
    OBVIOUS
  <1>1. \A i \in 0..Width : BestCut(table, dp, i)
    BY <1>0, DPCuts
  <1>2. PICK back : /\ back = BackRow(table, dp, back)
                    /\ DPPlan(table) = [total |-> dp[Width].total,
                               segs  |-> IF dp[Width].total >= Inf THEN <<>> ELSE back[Width]]
    BY <1>0, BackIs
  <1>3. Width \in Nat /\ Inf \in Nat /\ Width # 0 /\ Width \in 0..Width
    BY SizeAssumption
  <1> DEFINE P == {i \in Nat : i <= Width /\ dp[i].total < Inf =>
                      /\ Tiles(back[i], 0, i) /\ FromTable(back[i], table)
                      /\ Weight(back[i]) = dp[i].total + Owed(i)}
             Q == {i \in Nat : i <= Width =>
                      \A s : Tiles(s, 0, i) /\ FromTable(s, table) =>
                                dp[i].total + Owed(i) <= Weight(s)}
  <1>4. ASSUME NEW i \in Nat, \A j \in Nat : j < i => j \in P PROVE i \in P
    <2>1. SUFFICES ASSUME i <= Width, dp[i].total < Inf
                   PROVE  /\ Tiles(back[i], 0, i) /\ FromTable(back[i], table)
                          /\ Weight(back[i]) = dp[i].total + Owed(i)
      OBVIOUS
    <2>2. i \in 0..Width
      BY <2>1, <1>3
    <2>3. CASE i = 0
      <3>1. back[0] = <<>>
        <4>1. BackRow(table, dp, back)[0] = <<>>
          BY <2>2, <2>3 DEF BackRow
        <4>2. QED
          BY <4>1, <1>2
      <3>2. dp[0].total = 0 /\ Owed(0) = 0
        BY <2>2, <2>3, <1>1 DEF BestCut, Owed
      <3>3. QED
        BY <2>3, <3>1, <3>2, NoPieces
    <2>4. CASE i # 0
      <3>1. i \in 1..Width /\ i > 0
        BY <2>2, <2>4
      <3>2. dp[i].from >= 0 /\ dp[i].from \in Int
        BY <2>1, <2>2, <2>4, <1>1, CutFrom
      <3>3. PICK j \in 0..(i - 1) :
              /\ j = dp[i].from /\ dp[j].total < Inf
              /\ Chosen(table, j, i - 1) \in Piece /\ Fits(Chosen(table, j, i - 1), table)
              /\ Chosen(table, j, i - 1).seg[1] = j /\ Chosen(table, j, i - 1).seg[2] + 1 = i
              /\ dp[i].total = dp[j].total + Chosen(table, j, i - 1).cost + Owed(j)
        BY <2>2, <3>1, <3>2, <1>1, CutBack
      <3>4. PICK x \in Piece : x = Chosen(table, j, i - 1)
        BY <3>3
      <3>5. back[i] = Append(back[j], x)
        <4>1. BackRow(table, dp, back)[i] = Append(back[j], x)
          BY <2>2, <2>4, <3>2, <3>3, <3>4 DEF BackRow
        <4>2. QED
          BY <4>1, <1>2
      <3>6. /\ Tiles(back[j], 0, j) /\ FromTable(back[j], table)
            /\ Weight(back[j]) = dp[j].total + Owed(j)
        <4>1. j \in Nat /\ j < i /\ j <= Width
          BY <2>1, <1>3
        <4>2. QED
          BY <4>1, <1>4, <3>3
      <3>7. Tiles(Append(back[j], x), 0, i) /\ FromTable(Append(back[j], x), table)
        BY <3>3, <3>4, <3>6, TilesGrow
      <3>8. Weight(Append(back[j], x)) = Weight(back[j]) + x.cost + Penalty
        <4>1. back[j] \in Seq(Piece)
          BY <3>6 DEF Tiles
        <4>2. QED
          BY <4>1, PieceBehind
      <3>9. Owed(i) = Penalty /\ Owed(j) \in Nat /\ Penalty \in Nat /\ x.cost \in Nat
        BY <2>4, OwedIsNat, PieceParts DEF Owed
      <3>10. dp[j].total \in Nat
        <4>1. j \in 0..Width
          BY ONLY <3>1, <1>3, j \in 0..(i - 1)
        <4>2. QED
          BY <4>1, <1>1 DEF BestCut
      <3>11. Weight(back[i]) = dp[i].total + Owed(i)
        BY <3>3, <3>4, <3>5, <3>6, <3>8, <3>9, <3>10
      <3>12. QED
        BY <3>5, <3>7, <3>11
    <2>5. QED
      BY <2>3, <2>4
  <1>5. ASSUME NEW i \in Nat, \A j \in Nat : j < i => j \in Q PROVE i \in Q
    <2>1. SUFFICES ASSUME i <= Width, NEW s, Tiles(s, 0, i), FromTable(s, table)
                   PROVE  dp[i].total + Owed(i) <= Weight(s)
      OBVIOUS
    <2>2. i \in 0..Width /\ s \in Seq(Piece) /\ Weight(s) \in Nat
      BY <2>1, <1>3, WeightIsNat DEF Tiles
    <2>3. CASE i = 0
      BY <2>2, <2>3, <1>1, SizeAssumption DEF BestCut, Owed
    <2>4. CASE i # 0
      <3>1. Len(s) > 0
        BY <2>1, <2>2, <2>4 DEF Tiles
      <3>2. PICK t : \E x \in Piece :
              /\ Tiles(t, 0, x.seg[1]) /\ FromTable(t, table) /\ Fits(x, table)
              /\ Len(s) = Len(t) + 1 /\ x.seg[2] + 1 = i /\ s = Append(t, x)
              /\ Weight(s) = Weight(t) + x.cost + Penalty
        BY <2>1, <3>1, TilesLast
      <3>3. PICK x \in Piece :
              /\ Tiles(t, 0, x.seg[1]) /\ FromTable(t, table) /\ Fits(x, table)
              /\ x.seg[2] + 1 = i
              /\ Weight(s) = Weight(t) + x.cost + Penalty
        BY <3>2
      <3>4. PICK j \in Nat : j = x.seg[1] /\ j < i /\ x.seg[2] = i - 1 /\ x.seg = <<j, i - 1>>
        BY <3>3, PieceParts
      <3>5. dp[j].total + Owed(j) <= Weight(t)
        <4>1. j <= Width
          BY <2>1, <3>4, <1>3
        <4>2. QED
          BY <4>1, <1>5, <3>3, <3>4
      <3>6. Usable(table, j, i - 1) /\ x.cost = table[<<j, i - 1>>]
        BY <3>3, <3>4 DEF Fits
      <3>7. /\ Owed(i) = Penalty /\ Owed(j) \in Nat /\ Penalty \in Nat /\ x.cost \in Nat
            /\ Weight(t) \in Nat
        BY <2>4, <3>3, OwedIsNat, PieceParts, WeightIsNat DEF Owed, Tiles
      <3>8. dp[j].total \in Nat /\ dp[i].total \in Nat /\ dp[i].total <= Inf
        <4>1. j \in 0..Width
          BY ONLY <2>1, <3>4, <1>3, i \in Nat, j \in Nat
        <4>2. QED
          BY <4>1, <2>2, <1>1 DEF BestCut
      <3>9. CASE dp[j].total < Inf
        <4>1. dp[i].total <= dp[j].total + x.cost + Owed(j)
          BY <2>2, <3>4, <3>6, <3>9, <1>1 DEF BestCut
        <4>2. QED
          BY <4>1, <3>3, <3>5, <3>7, <3>8
      <3>10. CASE ~(dp[j].total < Inf)
        BY <3>10, <3>3, <3>5, <3>7, <3>8, <1>3
      <3>11. QED
        BY <3>9, <3>10
    <2>5. QED
      BY <2>3, <2>4
  <1>6. (\A i \in Nat : i \in P) /\ (\A i \in Nat : i \in Q)
    <2> HIDE DEF P, Q
    <2> QED
      BY <1>4, <1>5, StrongInduction
  <1>7. PICK p : p = DPPlan(table)
    OBVIOUS
  <1>8. p.total = dp[Width].total /\ p.segs = IF dp[Width].total >= Inf THEN <<>> ELSE back[Width]
    BY <1>2, <1>7
  <1>9. p.total \in Nat /\ p.total <= Inf
    BY <1>1, <1>3, <1>8 DEF BestCut
  <1>10. Owed(Width) = Penalty
    BY <1>3 DEF Owed
  <1>11. p.total >= Inf => p.segs = <<>>
    BY <1>8
  <1>12. ASSUME p.total < Inf
         PROVE  /\ Tiles(p.segs, 0, Width) /\ FromTable(p.segs, table)
                /\ Weight(p.segs) = p.total + Penalty
    <2>1. p.segs = back[Width]
      BY <1>8, <1>9, <1>12, <1>3
    <2>2. QED
      <3>1. Width \in P /\ dp[Width].total < Inf
        BY <1>3, <1>6, <1>8, <1>12
      <3>2. /\ Tiles(back[Width], 0, Width) /\ FromTable(back[Width], table)
            /\ Weight(back[Width]) = dp[Width].total + Owed(Width)
        BY <3>1, <1>3
      <3>3. QED
        BY <2>1, <3>2, <1>8, <1>10
  <1>13. ASSUME NEW s, Tiles(s, 0, Width), FromTable(s, table)
         PROVE  p.total + Penalty <= Weight(s)
    BY <1>13, <1>3, <1>6, <1>8, <1>10
  <1>14. ~(Forced > 0)
    OBVIOUS
  <1> HIDE DEF P, Q
  <1>15. QED
    BY <1>7, <1>9, <1>11, <1>12, <1>13, <1>14 DEF Optimal

-----------------------------------------------------------------------------
(* The dynamic programme for a forced number of segments.                  *)

\* The number of segments asked for, clamped to those that fit, is a natural.
LEMMA ForcedIsNat ==
    ASSUME OptOK
    PROVE  Forced \in Nat /\ (opt.forced = 0 => Forced = 0)
  <1>1. Width \div opt.minWidth \in Nat
    <2>1. PICK a \in Nat, b \in Nat \ {0} : a = Width /\ b = opt.minWidth
      BY SizeAssumption DEF OptOK
    <2>2. PICK q \in Int, r \in 0..(b - 1) : q = a \div b /\ r = a % b /\ a = q * b + r
      BY ONLY a \in Nat, b \in Nat \ {0}
    <2>3. q >= 0
      <3>1. SUFFICES ASSUME q <= -1 PROVE FALSE
        OBVIOUS
      <3>2. q * b <= -1 * b
        BY <3>1
      <3>3. q * b \in Int
        OBVIOUS
      <3>4. QED
        BY <2>2, <3>2, <3>3
    <2>4. QED
      BY <2>1, <2>2, <2>3
  <1>2. opt.forced \in Nat
    BY DEF OptOK
  <1>3. Min({opt.forced, Width \div opt.minWidth}) \in Nat
    <2>1. PICK m \in {opt.forced, Width \div opt.minWidth} :
             \A y \in {opt.forced, Width \div opt.minWidth} : m <= y
      BY <1>1, <1>2, LeastNatural
    <2>2. Min({opt.forced, Width \div opt.minWidth}) \in {opt.forced, Width \div opt.minWidth}
      BY <2>1 DEF Min
    <2>3. QED
      BY <1>1, <1>2, <2>2
  <1>4. QED
    BY <1>3 DEF Forced

\* What DPFixed computes for the lowest i bits in k pieces, from what g holds for
\* fewer of both.
FixedCost(table, g, i, k) ==
    [j \in 0..(i - 1) |->
        IF Usable(table, j, i - 1) /\ g[<<j, k - 1>>].total < Inf
        THEN g[<<j, k - 1>>].total + table[<<j, i - 1>>] + (IF k > 1 THEN Penalty ELSE 0)
        ELSE Inf]
\* The cells of DPFixed, from cells g.
FixedRow(table, g) ==
    [x \in (0..Width) \X (0..Forced) |->
        IF x[1] = 0 /\ x[2] = 0 THEN [total |-> 0, from |-> -1]
        ELSE IF x[1] = 0 \/ x[2] = 0 THEN [total |-> Inf, from |-> -1]
        ELSE Winner(FixedCost(table, g, x[1], x[2]))]

\* The candidates that runDynamicProgrammingFixed compares cost naturals.
LEMMA FixedCostTyped ==
    ASSUME OptOK, NEW table \in Tables, NEW i \in 1..Width, NEW k, NEW g,
           \A j \in 0..(i - 1) : g[<<j, k - 1>>].total \in Nat
    PROVE  FixedCost(table, g, i, k) \in [0..(i - 1) -> Nat]
  <1>1. ASSUME NEW j \in 0..(i - 1)
        PROVE  FixedCost(table, g, i, k)[j] \in Nat
    <2>1. <<j, i - 1>> \in Segs
      <3>1. j \in Nat /\ i - 1 \in Nat /\ j <= i - 1 /\ i - 1 < Width
        BY SizeAssumption
      <3>2. QED
        BY <3>1, SegmentBetween
    <2>2. table[<<j, i - 1>>] \in Nat
      BY <2>1, SizeAssumption DEF Tables
    <2>3. g[<<j, k - 1>>].total \in Nat /\ Inf \in Nat
      BY SizeAssumption
    <2>4. PICK p \in Nat : p = IF k > 1 THEN Penalty ELSE 0
      BY DEF OptOK, Penalty
    <2>5. FixedCost(table, g, i, k)[j] = IF Usable(table, j, i - 1) /\ g[<<j, k - 1>>].total < Inf
                                         THEN g[<<j, k - 1>>].total + table[<<j, i - 1>>] + p
                                         ELSE Inf
      BY <2>4 DEF FixedCost
    <2>6. QED
      BY <2>2, <2>3, <2>5
  <1>2. QED
    BY <1>1 DEF FixedCost

\* What Winner returns is a cell of the tables of the dynamic programmes.
LEMMA WinnerTyped ==
    ASSUME NEW i \in Nat \ {0}, NEW cost \in [0..(i - 1) -> Nat]
    PROVE  Winner(cost) \in Cells
  <1>1. 0 \in 0..(i - 1) /\ 0..(i - 1) \subseteq Nat
    OBVIOUS
  <1>2. Winner(cost).total \in Nat
    BY <1>1, WinnerWins
  <1>3. Winner(cost).from \in Int
    <2>1. Winner(cost).total >= Inf \/ Winner(cost).total < Inf
      BY <1>2, SizeAssumption
    <2>2. CASE Winner(cost).total >= Inf
      <3>1. Winner(cost).from = -1
        BY <1>1, <2>2, WinnerWins
      <3>2. QED
        BY <3>1
    <2>3. CASE Winner(cost).total < Inf
      <3>1. Winner(cost).from \in 0..(i - 1)
        BY <1>1, <2>3, WinnerWins
      <3>2. QED
        BY <3>1
    <2>4. QED
      BY <2>1, <2>2, <2>3
  <1>4. Winner(cost) = [total |-> Winner(cost).total, from |-> Winner(cost).from]
    BY DEF Winner
  <1>5. QED
    BY <1>2, <1>3, <1>4 DEF Cells

\* DPFixed is what its recursion says: k pieces depend on k - 1 pieces of fewer bits.
LEMMA FixedIs ==
    ASSUME OptOK, NEW table \in Tables
    PROVE  DPFixed(table) = FixedRow(table, DPFixed(table))
  <1> DEFINE D == (0..Width) \X (0..Forced)
             F == [g \in [D -> Cells] |-> FixedRow(table, g)]
             rank == [x \in D |-> x[2]]
  <1>0. Forced \in Nat /\ Width \in Nat /\ Inf \in Nat
    BY ForcedIsNat, SizeAssumption
  <1>1. ASSUME NEW g \in [D -> Cells] PROVE FixedRow(table, g) \in [D -> Cells]
    <2>1. ASSUME NEW x \in D, x[1] # 0, x[2] # 0 PROVE Winner(FixedCost(table, g, x[1], x[2])) \in Cells
      <3>1. PICK i \in 1..Width, k \in 1..Forced : i = x[1] /\ k = x[2]
        BY <2>1, <1>0
      <3>2. \A j \in 0..(i - 1) : g[<<j, k - 1>>].total \in Nat
        <4>1. \A j \in 0..(i - 1) : <<j, k - 1>> \in D
          <5>1. k - 1 \in 0..Forced /\ \A j \in 0..(i - 1) : j \in 0..Width
            BY <1>0
          <5>2. QED
            BY <5>1
        <4>2. QED
          BY <4>1 DEF Cells
      <3>3. PICK cost \in [0..(i - 1) -> Nat] : cost = FixedCost(table, g, i, k)
        BY <3>2, FixedCostTyped
      <3>4. Winner(cost) \in Cells
        <4>1. i \in Nat \ {0}
          OBVIOUS
        <4>2. QED
          BY <4>1, WinnerTyped
      <3>5. QED
        BY <3>1, <3>3, <3>4
    <2>2. [total |-> 0, from |-> -1] \in Cells /\ [total |-> Inf, from |-> -1] \in Cells
      BY <1>0 DEF Cells
    <2>3. QED
      BY <2>1, <2>2 DEF FixedRow
  <1>2. ASSUME NEW g \in [D -> Cells], NEW h \in [D -> Cells], NEW x \in D,
               \A y \in D : y[2] < x[2] => g[y] = h[y]
        PROVE  FixedRow(table, g)[x] = FixedRow(table, h)[x]
    <2>1. CASE x[1] = 0 \/ x[2] = 0
      BY <2>1 DEF FixedRow
    <2>2. CASE x[1] # 0 /\ x[2] # 0
      <3>1. PICK i \in 1..Width, k \in 1..Forced : i = x[1] /\ k = x[2]
        BY <2>2, <1>0
      <3>2. ASSUME NEW j \in 0..(i - 1) PROVE g[<<j, k - 1>>] = h[<<j, k - 1>>]
        <4>1. k - 1 \in 0..Forced /\ j \in 0..Width /\ k - 1 < k
          BY <1>0
        <4>2. <<j, k - 1>> \in D /\ <<j, k - 1>>[2] < x[2]
          BY <4>1, <3>1
        <4>3. QED
          BY <4>2, <1>2
      <3>3. FixedCost(table, g, i, k) = FixedCost(table, h, i, k)
        BY <3>2 DEF FixedCost
      <3>4. QED
        BY <3>1, <3>3 DEF FixedRow
    <2>3. QED
      BY <2>1, <2>2
  <1>3. \E g \in [D -> Cells] : FixedRow(table, g) = g
    <2>1. F \in [[D -> Cells] -> [D -> Cells]]
      BY <1>1
    <2>2. rank \in [D -> Nat] /\ Forced + 1 \in Nat /\ \A x \in D : rank[x] < Forced + 1
      BY <1>0
    <2>3. [total |-> 0, from |-> -1] \in Cells
      BY DEF Cells
    <2>4. \A g, h \in [D -> Cells] : \A x \in D :
             (\A y \in D : rank[y] < rank[x] => g[y] = h[y]) => F[g][x] = F[h][x]
      <3>1. ASSUME NEW g \in [D -> Cells], NEW h \in [D -> Cells], NEW x \in D,
                   \A y \in D : rank[y] < rank[x] => g[y] = h[y]
            PROVE  F[g][x] = F[h][x]
        <4>1. \A y \in D : y[2] < x[2] => g[y] = h[y]
          BY <3>1
        <4>2. QED
          BY <4>1, <1>2
      <3>2. QED
        BY <3>1
    <2>5. \E g \in [D -> Cells] : F[g] = g
      <3>1. Ranked(D, Cells, F, rank, Forced + 1)
        BY <2>1, <2>2, <2>4 DEF Ranked
      <3> HIDE DEF D, F, rank
      <3>2. QED
        BY <2>3, <3>1, CourseOfValues
    <2>6. QED
      BY <2>5
  <1>4. DPFixed(table) = CHOOSE g : g = FixedRow(table, g)
    BY DEF DPFixed, FixedRow, FixedCost
  <1>5. QED
    BY <1>3, <1>4

\* What is known of the best cut of the lowest i bits into k pieces.
BestFixed(table, dp, i, k) ==
    /\ dp[<<i, k>>].total \in Nat /\ dp[<<i, k>>].total <= Inf
    /\ i = 0 /\ k = 0 => dp[<<i, k>>].total = 0
    /\ ~(i = 0 /\ k = 0) /\ (i = 0 \/ k = 0) => dp[<<i, k>>].total = Inf
    /\ dp[<<i, k>>].total >= Inf => dp[<<i, k>>].from < 0
    /\ \A j \in Nat :
          /\ k > 0 /\ j < i /\ Usable(table, j, i - 1) /\ dp[<<j, k - 1>>].total < Inf =>
                dp[<<i, k>>].total <= dp[<<j, k - 1>>].total + table[<<j, i - 1>>] + Owed(k - 1)
    /\ i > 0 /\ k > 0 /\ dp[<<i, k>>].total < Inf =>
          \E j \in Nat : /\ j = dp[<<i, k>>].from /\ j < i /\ Usable(table, j, i - 1)
                         /\ dp[<<j, k - 1>>].total < Inf
                         /\ dp[<<i, k>>].total = dp[<<j, k - 1>>].total + table[<<j, i - 1>>]
                                                   + Owed(k - 1)

\* The cells of runDynamicProgrammingFixed: its borders, which only no bits in no
\* pieces leave finite, and its inside.
LEMMA FixedCells ==
    ASSUME OptOK, NEW table \in Tables, NEW dp, dp = DPFixed(table)
    PROVE  /\ dp[<<0, 0>>] = [total |-> 0, from |-> -1]
           /\ \A i \in 1..Width : dp[<<i, 0>>] = [total |-> Inf, from |-> -1]
           /\ \A k \in 1..Forced : dp[<<0, k>>] = [total |-> Inf, from |-> -1]
           /\ \A i \in 1..Width : \A k \in 1..Forced : dp[<<i, k>>] = Winner(FixedCost(table, dp, i, k))
           /\ \A i \in 0..Width : \A k \in 0..Forced : dp[<<i, k>>].total \in Nat
  <1>0. Forced \in Nat /\ Width \in Nat /\ Inf \in Nat
    BY ForcedIsNat, SizeAssumption
  <1>1. dp = FixedRow(table, dp)
    BY FixedIs
  <1>2. dp[<<0, 0>>] = [total |-> 0, from |-> -1]
    <2>1. <<0, 0>> \in (0..Width) \X (0..Forced)
      BY <1>0
    <2>2. FixedRow(table, dp)[<<0, 0>>] = [total |-> 0, from |-> -1]
      BY <2>1 DEF FixedRow
    <2>3. QED
      BY <1>1, <2>2
  <1>3. ASSUME NEW i \in 1..Width PROVE dp[<<i, 0>>] = [total |-> Inf, from |-> -1]
    <2>1. <<i, 0>> \in (0..Width) \X (0..Forced)
      BY <1>0
    <2>2. FixedRow(table, dp)[<<i, 0>>] = [total |-> Inf, from |-> -1]
      BY <2>1 DEF FixedRow
    <2>3. QED
      BY <1>1, <2>2
  <1>4. ASSUME NEW k \in 1..Forced PROVE dp[<<0, k>>] = [total |-> Inf, from |-> -1]
    <2>1. <<0, k>> \in (0..Width) \X (0..Forced)
      BY <1>0
    <2>2. FixedRow(table, dp)[<<0, k>>] = [total |-> Inf, from |-> -1]
      BY <2>1 DEF FixedRow
    <2>3. QED
      BY <1>1, <2>2
  <1>5. ASSUME NEW i \in 1..Width, NEW k \in 1..Forced
        PROVE  dp[<<i, k>>] = Winner(FixedCost(table, dp, i, k))
    <2>1. <<i, k>> \in (0..Width) \X (0..Forced)
      BY <1>0
    <2>2. FixedRow(table, dp)[<<i, k>>] = Winner(FixedCost(table, dp, i, k))
      BY <2>1 DEF FixedRow
    <2>3. QED
      BY <1>1, <2>2
  <1> DEFINE P == {k \in Nat : k <= Forced => \A i \in 0..Width : dp[<<i, k>>].total \in Nat}
  <1>6. 0 \in P
    <2>1. \A i \in 0..Width : i = 0 \/ i \in 1..Width
      OBVIOUS
    <2>2. QED
      BY <2>1, <1>0, <1>2, <1>3
  <1>7. ASSUME NEW m \in Nat, m \in P PROVE m + 1 \in P
    <2>1. SUFFICES ASSUME m + 1 <= Forced, NEW i \in 0..Width PROVE dp[<<i, m + 1>>].total \in Nat
      OBVIOUS
    <2>2. PICK k \in 1..Forced : k = m + 1 /\ k - 1 = m
      BY <2>1, <1>0
    <2>3. CASE i = 0
      BY <2>2, <2>3, <1>0, <1>4
    <2>4. CASE i # 0
      <3>1. i \in 1..Width /\ i \in Nat \ {0}
        BY <2>4
      <3>2. \A j \in 0..(i - 1) : dp[<<j, k - 1>>].total \in Nat
        <4>1. \A j \in 0..(i - 1) : j \in 0..Width
          BY <1>0
        <4>2. m <= Forced
          BY <2>1, <1>0
        <4>3. QED
          BY <4>1, <4>2, <1>7, <2>2
      <3>3. PICK cost \in [0..(i - 1) -> Nat] : cost = FixedCost(table, dp, i, k)
        BY <3>1, <3>2, FixedCostTyped
      <3>4. Winner(cost) \in Cells
        BY <3>1, WinnerTyped
      <3>5. QED
        BY <3>1, <3>3, <3>4, <1>5, <2>2 DEF Cells
    <2>5. QED
      BY <2>3, <2>4
  <1>8. \A k \in Nat : k \in P
    <2> HIDE DEF P
    <2> QED
      BY <1>6, <1>7, InductionOnNat
  <1>9. \A i \in 0..Width : \A k \in 0..Forced : dp[<<i, k>>].total \in Nat
    BY <1>8, <1>0
  <1>10. QED
    BY <1>2, <1>3, <1>4, <1>5, <1>9

\* Every cell of runDynamicProgrammingFixed holds the cheapest last piece on top of
\* the best cut of the bits below it into one piece less.
LEMMA FixedCuts ==
    ASSUME OptOK, NEW table \in Tables
    PROVE  \A i \in 0..Width : \A k \in 0..Forced : BestFixed(table, DPFixed(table), i, k)
  <1>0. Forced \in Nat /\ Width \in Nat /\ Inf \in Nat
    BY ForcedIsNat, SizeAssumption
  <1>1. PICK dp : dp = DPFixed(table)
    OBVIOUS
  <1>2. /\ dp[<<0, 0>>] = [total |-> 0, from |-> -1]
        /\ \A i \in 1..Width : dp[<<i, 0>>] = [total |-> Inf, from |-> -1]
        /\ \A k \in 1..Forced : dp[<<0, k>>] = [total |-> Inf, from |-> -1]
        /\ \A i \in 1..Width : \A k \in 1..Forced : dp[<<i, k>>] = Winner(FixedCost(table, dp, i, k))
        /\ \A i \in 0..Width : \A k \in 0..Forced : dp[<<i, k>>].total \in Nat
    BY <1>1, FixedCells
  <1>3. BestFixed(table, dp, 0, 0)
    <2>1. ~(0 > 0) /\ dp[<<0, 0>>].total = 0 /\ dp[<<0, 0>>].from = -1
      BY <1>2
    <2>2. QED
      BY <2>1, <1>0 DEF BestFixed
  <1>4. ASSUME NEW i \in 1..Width PROVE BestFixed(table, dp, i, 0)
    <2>1. ~(0 > 0) /\ i # 0 /\ dp[<<i, 0>>].total = Inf /\ dp[<<i, 0>>].from = -1
      BY <1>2
    <2>2. QED
      BY <2>1, <1>0 DEF BestFixed
  <1>5. ASSUME NEW k \in 1..Forced PROVE BestFixed(table, dp, 0, k)
    <2>1. ~(0 > 0) /\ k # 0 /\ dp[<<0, k>>].total = Inf /\ dp[<<0, k>>].from = -1
      BY <1>2
    <2>2. \A j \in Nat : ~(j < 0)
      OBVIOUS
    <2>3. QED
      BY <2>1, <2>2, <1>0 DEF BestFixed
  <1>6. ASSUME NEW i \in 1..Width, NEW k \in 1..Forced PROVE BestFixed(table, dp, i, k)
    <2>1. 0 \in 0..(i - 1) /\ 0..(i - 1) \subseteq Nat /\ k - 1 \in 0..Forced
      BY <1>0
    <2>2. \A j \in 0..(i - 1) : dp[<<j, k - 1>>].total \in Nat
      <3>1. \A j \in 0..(i - 1) : j \in 0..Width
        BY <1>0
      <3>2. QED
        BY <1>2, <2>1, <3>1
    <2>3. PICK cost \in [0..(i - 1) -> Nat] : cost = FixedCost(table, dp, i, k)
      BY <2>2, FixedCostTyped
    <2>4. PICK w : w = dp[<<i, k>>] /\ w = Winner(cost)
      BY <2>3, <1>2
    <2>5. /\ w.total \in Nat
          /\ \A j \in 0..(i - 1) : w.total <= cost[j]
          /\ w.total >= Inf => w.from = -1
          /\ w.total < Inf => w.from \in 0..(i - 1) /\ cost[w.from] = w.total
      BY ONLY <2>1, <2>4, cost \in [0..(i - 1) -> Nat], WinnerWins
    <2>6. \A j \in 0..(i - 1) :
             cost[j] = IF Usable(table, j, i - 1) /\ dp[<<j, k - 1>>].total < Inf
                       THEN dp[<<j, k - 1>>].total + table[<<j, i - 1>>] + Owed(k - 1) ELSE Inf
      <3>1. (IF k > 1 THEN Penalty ELSE 0) = Owed(k - 1)
        BY <1>0 DEF Owed
      <3>2. QED
        BY <2>3, <3>1 DEF FixedCost
    <2>7. w.total <= Inf
      <3>1. w.total <= cost[0]
        BY <2>1, <2>5
      <3>2. cost[0] <= Inf
        <4>1. CASE Usable(table, 0, i - 1) /\ dp[<<0, k - 1>>].total < Inf
          <5>1. cost[0] = dp[<<0, k - 1>>].total + table[<<0, i - 1>>] + Owed(k - 1)
            BY <2>1, <2>6, <4>1
          <5>2. table[<<0, i - 1>>] \in Nat /\ table[<<0, i - 1>>] < Inf
            <6>1. <<0, i - 1>> \in Segs
              <7>1. 0 \in Nat /\ i - 1 \in Nat /\ 0 <= i - 1 /\ i - 1 < Width
                BY <1>0
              <7>2. QED
                BY <7>1, SegmentBetween
            <6>2. QED
              BY <6>1, <4>1, <1>0 DEF Usable, Tables
          <5>3. k - 1 = 0
            <6>1. SUFFICES ASSUME k - 1 # 0 PROVE FALSE
              OBVIOUS
            <6>2. k - 1 \in 1..Forced
              BY <6>1, <1>0
            <6>3. dp[<<0, k - 1>>].total = Inf
              BY <6>2, <1>2
            <6>4. QED
              BY <6>3, <4>1, <1>0
          <5>4. dp[<<0, k - 1>>].total = 0 /\ Owed(k - 1) = 0
            BY <5>3, <1>2 DEF Owed
          <5>5. QED
            BY <5>1, <5>2, <5>4, <1>0
        <4>2. CASE ~(Usable(table, 0, i - 1) /\ dp[<<0, k - 1>>].total < Inf)
          <5>1. cost[0] = Inf
            BY <2>1, <2>6, <4>2
          <5>2. QED
            BY <5>1, <1>0
        <4>3. QED
          BY <4>1, <4>2
      <3>3. cost[0] \in Nat
        BY <2>1
      <3>4. QED
        BY <2>5, <3>1, <3>2, <3>3, <1>0
    <2>8. ASSUME NEW j \in Nat, j < i, Usable(table, j, i - 1), dp[<<j, k - 1>>].total < Inf
          PROVE  w.total <= dp[<<j, k - 1>>].total + table[<<j, i - 1>>] + Owed(k - 1)
      <3>1. j \in 0..(i - 1)
        BY <2>8
      <3>2. QED
        BY <3>1, <2>5, <2>6, <2>8
    <2>9. ASSUME w.total < Inf
          PROVE  \E j \in Nat : /\ j = w.from /\ j < i /\ Usable(table, j, i - 1)
                                /\ dp[<<j, k - 1>>].total < Inf
                                /\ w.total = dp[<<j, k - 1>>].total + table[<<j, i - 1>>] + Owed(k - 1)
      <3>1. PICK j \in 0..(i - 1) : j = w.from /\ cost[j] = w.total
        BY <2>5, <2>9
      <3>2. cost[j] # Inf
        BY <3>1, <2>5, <2>9, <1>0
      <3>3. Usable(table, j, i - 1) /\ dp[<<j, k - 1>>].total < Inf
        BY <2>6, <3>2
      <3>4. w.total = dp[<<j, k - 1>>].total + table[<<j, i - 1>>] + Owed(k - 1)
        BY <2>6, <3>1, <3>3
      <3>5. j \in Nat /\ j < i
        OBVIOUS
      <3>6. QED
        BY <3>1, <3>3, <3>4, <3>5
    <2>10. i # 0 /\ k # 0 /\ (w.total >= Inf => w.from < 0)
      BY <2>5
    <2>11. QED
      BY <2>4, <2>5, <2>7, <2>8, <2>9, <2>10 DEF BestFixed
  <1>7. (\A i \in 0..Width : i = 0 \/ i \in 1..Width) /\ (\A k \in 0..Forced : k = 0 \/ k \in 1..Forced)
    BY <1>0
  <1>8. QED
    BY <1>1, <1>3, <1>4, <1>5, <1>6, <1>7

\* The plan of i bits in k pieces, from plans g of fewer.
FixedBackRow(table, dp, g) ==
    [x \in (0..Width) \X (0..Forced) |->
        IF x[1] = 0 \/ x[2] = 0 \/ dp[x].from < 0 THEN <<>>
        ELSE Append(g[<<dp[x].from, x[2] - 1>>], Chosen(table, dp[x].from, x[1] - 1))]

\* The last of the k pieces begins at bit j.
FixedStep(table, dp, i, k, j) ==
    /\ j = dp[<<i, k>>].from /\ dp[<<j, k - 1>>].total < Inf
    /\ Chosen(table, j, i - 1) \in Piece /\ Fits(Chosen(table, j, i - 1), table)
    /\ Chosen(table, j, i - 1).seg[1] = j /\ Chosen(table, j, i - 1).seg[2] + 1 = i
    /\ dp[<<i, k>>].total = dp[<<j, k - 1>>].total + Chosen(table, j, i - 1).cost + Owed(k - 1)

\* Where a cell is finite, backtracking takes a piece that the table allows.
LEMMA FixedCutBack ==
    ASSUME OptOK, NEW table \in Tables, NEW dp, NEW i \in 1..Width, NEW k \in Nat \ {0},
           BestFixed(table, dp, i, k), dp[<<i, k>>].total < Inf
    PROVE  \E j \in 0..(i - 1) : FixedStep(table, dp, i, k, j)
  <1>1. i > 0 /\ k > 0
    OBVIOUS
  <1>2. PICK j \in Nat : /\ j = dp[<<i, k>>].from /\ j < i /\ Usable(table, j, i - 1)
                         /\ dp[<<j, k - 1>>].total < Inf
                         /\ dp[<<i, k>>].total = dp[<<j, k - 1>>].total + table[<<j, i - 1>>] + Owed(k - 1)
    BY <1>1 DEF BestFixed
  <1>3. PICK r \in Nat : r = i - 1 /\ j <= r /\ r < Width /\ r + 1 = i
    BY <1>2, SizeAssumption
  <1>4. /\ Chosen(table, j, r) \in Piece /\ Fits(Chosen(table, j, r), table)
        /\ Chosen(table, j, r).seg[1] = j /\ Chosen(table, j, r).seg[2] = r
        /\ Chosen(table, j, r).cost = table[<<j, r>>]
    BY <1>2, <1>3, ChosenFits
  <1>5. j \in 0..(i - 1)
    BY <1>2
  <1>6. QED
    BY <1>2, <1>3, <1>4, <1>5 DEF FixedStep

\* Where nothing was chosen, the cost is infinite; else it is finite.
LEMMA FixedFrom ==
    ASSUME OptOK, NEW table \in Tables, NEW dp, NEW i \in 1..Width, NEW k \in Nat \ {0},
           BestFixed(table, dp, i, k)
    PROVE  ~(dp[<<i, k>>].from < 0) <=> dp[<<i, k>>].total < Inf
  <1>1. dp[<<i, k>>].total \in Nat /\ Inf \in Nat
    BY SizeAssumption DEF BestFixed
  <1>2. CASE dp[<<i, k>>].total < Inf
    <2>1. PICK j \in 0..(i - 1) : FixedStep(table, dp, i, k, j)
      BY <1>2, FixedCutBack
    <2>2. QED
      BY <2>1, <1>2 DEF FixedStep
  <1>3. CASE ~(dp[<<i, k>>].total < Inf)
    <2>1. dp[<<i, k>>].total >= Inf
      BY <1>1, <1>3
    <2>2. QED
      BY <2>1, <1>3 DEF BestFixed
  <1>4. QED
    BY <1>2, <1>3

\* Backtracking over the number of pieces is what its recursion says, and the plan
\* is read off the cell of all the bits in all the pieces.
LEMMA FixedBackIs ==
    ASSUME OptOK, NEW table \in Tables, NEW dp, dp = DPFixed(table)
    PROVE  LET back == CHOOSE b : b = FixedBackRow(table, dp, b) IN
           /\ back = FixedBackRow(table, dp, back)
           /\ DPFixedPlan(table) =
                 [total |-> dp[<<Width, Forced>>].total,
                  segs  |-> IF dp[<<Width, Forced>>].total >= Inf THEN <<>> ELSE back[<<Width, Forced>>]]
  <1> DEFINE D == (0..Width) \X (0..Forced)
             S == Seq(Piece)
             F == [g \in [D -> S] |-> FixedBackRow(table, dp, g)]
             rank == [x \in D |-> x[2]]
             back == CHOOSE b : b = FixedBackRow(table, dp, b)
  <1>0. Forced \in Nat /\ Width \in Nat /\ Inf \in Nat
    BY ForcedIsNat, SizeAssumption
  <1>1. \A i \in 0..Width : \A k \in 0..Forced : BestFixed(table, dp, i, k)
    BY FixedCuts
  <1>2. ASSUME NEW x \in D, x[1] # 0, x[2] # 0, ~(dp[x].from < 0)
        PROVE  /\ <<dp[x].from, x[2] - 1>> \in D /\ <<dp[x].from, x[2] - 1>>[2] < x[2]
               /\ Chosen(table, dp[x].from, x[1] - 1) \in Piece
    <2>1. PICK i \in 1..Width, k \in 1..Forced : i = x[1] /\ k = x[2]
      BY <1>2, <1>0
    <2>2. x = <<i, k>>
      BY <2>1
    <2>3. BestFixed(table, dp, i, k) /\ k \in Nat \ {0}
      <3>1. i \in 0..Width /\ k \in 0..Forced
        BY <1>0
      <3>2. QED
        BY <3>1, <1>1
    <2>4. dp[<<i, k>>].total < Inf
      BY <2>2, <2>3, <1>2, FixedFrom
    <2>5. PICK j \in 0..(i - 1) : FixedStep(table, dp, i, k, j)
      BY <2>3, <2>4, FixedCutBack
    <2>6. j \in 0..Width /\ k - 1 \in 0..Forced /\ k - 1 < k
      BY <1>0
    <2>7. j = dp[x].from /\ Chosen(table, j, i - 1) \in Piece
      BY <2>2, <2>5 DEF FixedStep
    <2>8. QED
      BY <2>1, <2>6, <2>7
  <1>3. ASSUME NEW g \in [D -> S] PROVE FixedBackRow(table, dp, g) \in [D -> S]
    <2>1. ASSUME NEW x \in D, x[1] # 0, x[2] # 0, ~(dp[x].from < 0)
          PROVE  Append(g[<<dp[x].from, x[2] - 1>>], Chosen(table, dp[x].from, x[1] - 1)) \in S
      <3>1. g[<<dp[x].from, x[2] - 1>>] \in S /\ Chosen(table, dp[x].from, x[1] - 1) \in Piece
        BY <2>1, <1>2
      <3>2. QED
        BY <3>1
    <2>2. <<>> \in S
      OBVIOUS
    <2> HIDE DEF S
    <2>3. QED
      BY <2>1, <2>2 DEF FixedBackRow
  <1>4. ASSUME NEW g \in [D -> S], NEW h \in [D -> S], NEW x \in D,
               \A y \in D : y[2] < x[2] => g[y] = h[y]
        PROVE  FixedBackRow(table, dp, g)[x] = FixedBackRow(table, dp, h)[x]
    <2>1. CASE x[1] = 0 \/ x[2] = 0 \/ dp[x].from < 0
      BY <2>1 DEF FixedBackRow
    <2>2. CASE x[1] # 0 /\ x[2] # 0 /\ ~(dp[x].from < 0)
      <3>1. g[<<dp[x].from, x[2] - 1>>] = h[<<dp[x].from, x[2] - 1>>]
        BY <2>2, <1>2, <1>4
      <3>2. QED
        BY <3>1 DEF FixedBackRow
    <2>3. QED
      BY <2>1, <2>2
  <1>5. \E g \in [D -> S] : FixedBackRow(table, dp, g) = g
    <2>1. F \in [[D -> S] -> [D -> S]]
      BY <1>3
    <2>2. rank \in [D -> Nat] /\ Forced + 1 \in Nat /\ \A x \in D : rank[x] < Forced + 1
      BY <1>0
    <2>3. \A g, h \in [D -> S] : \A x \in D :
             (\A y \in D : rank[y] < rank[x] => g[y] = h[y]) => F[g][x] = F[h][x]
      <3>1. ASSUME NEW g \in [D -> S], NEW h \in [D -> S], NEW x \in D,
                   \A y \in D : rank[y] < rank[x] => g[y] = h[y]
            PROVE  F[g][x] = F[h][x]
        <4>1. \A y \in D : y[2] < x[2] => g[y] = h[y]
          BY <3>1
        <4>2. QED
          BY <4>1, <1>4
      <3>2. QED
        BY <3>1
    <2>4. Ranked(D, S, F, rank, Forced + 1)
      BY <2>1, <2>2, <2>3 DEF Ranked
    <2>5. <<>> \in S
      OBVIOUS
    <2>6. \E g \in [D -> S] : F[g] = g
      <3> HIDE DEF D, S, F, rank
      <3> QED
        BY <2>4, <2>5, CourseOfValues
    <2>7. QED
      BY <2>6
  <1>6. back = FixedBackRow(table, dp, back)
    BY <1>5
  <1>7. DPFixedPlan(table) =
                 [total |-> dp[<<Width, Forced>>].total,
                  segs  |-> IF dp[<<Width, Forced>>].total >= Inf THEN <<>> ELSE back[<<Width, Forced>>]]
    BY DEF DPFixedPlan, FixedBackRow
  <1>8. QED
    BY <1>6, <1>7

\* The plan of the dynamic programme for a forced number of pieces is optimal.
LEMMA DPFixedPlanOptimal ==
    ASSUME OptOK, Forced > 0, NEW table \in Tables
    PROVE  Optimal(DPFixedPlan(table), table)
  <1>0. PICK dp : dp = DPFixed(table)
    OBVIOUS
  <1>1. \A i \in 0..Width : \A k \in 0..Forced : BestFixed(table, dp, i, k)
    BY <1>0, FixedCuts
  <1>2. PICK back : /\ back = FixedBackRow(table, dp, back)
                    /\ DPFixedPlan(table) =
                          [total |-> dp[<<Width, Forced>>].total,
                           segs  |-> IF dp[<<Width, Forced>>].total >= Inf THEN <<>>
                                     ELSE back[<<Width, Forced>>]]
    BY <1>0, FixedBackIs
  <1>3. /\ Width \in Nat /\ Inf \in Nat /\ Forced \in Nat
        /\ Width \in 0..Width /\ Forced \in 0..Forced /\ Forced # 0
    BY SizeAssumption, ForcedIsNat
  <1>4. \A i \in 0..Width : \A k \in 0..Forced :
           back[<<i, k>>] = IF i = 0 \/ k = 0 \/ dp[<<i, k>>].from < 0 THEN <<>>
                            ELSE Append(back[<<dp[<<i, k>>].from, k - 1>>],
                                        Chosen(table, dp[<<i, k>>].from, i - 1))
    <2>1. ASSUME NEW i \in 0..Width, NEW k \in 0..Forced
          PROVE  FixedBackRow(table, dp, back)[<<i, k>>] =
                    IF i = 0 \/ k = 0 \/ dp[<<i, k>>].from < 0 THEN <<>>
                    ELSE Append(back[<<dp[<<i, k>>].from, k - 1>>],
                                Chosen(table, dp[<<i, k>>].from, i - 1))
      BY DEF FixedBackRow
    <2>2. QED
      BY <2>1, <1>2
  <1> DEFINE P == {k \in Nat : k <= Forced => \A i \in 0..Width :
                      dp[<<i, k>>].total < Inf =>
                         /\ Tiles(back[<<i, k>>], 0, i) /\ FromTable(back[<<i, k>>], table)
                         /\ Weight(back[<<i, k>>]) = dp[<<i, k>>].total + Owed(k)
                         /\ Len(back[<<i, k>>]) = k}
             Q == {k \in Nat : k <= Forced => \A i \in 0..Width :
                      \A s : Tiles(s, 0, i) /\ FromTable(s, table) /\ Len(s) = k =>
                                dp[<<i, k>>].total + Owed(k) <= Weight(s)}
  <1>5. 0 \in P
    <2>1. SUFFICES ASSUME NEW i \in 0..Width, dp[<<i, 0>>].total < Inf
                   PROVE  /\ Tiles(back[<<i, 0>>], 0, i) /\ FromTable(back[<<i, 0>>], table)
                          /\ Weight(back[<<i, 0>>]) = dp[<<i, 0>>].total + Owed(0)
                          /\ Len(back[<<i, 0>>]) = 0
      OBVIOUS
    <2>2. 0 \in 0..Forced
      BY <1>3
    <2>3. i = 0 /\ dp[<<i, 0>>].total = 0
      <3>1. BestFixed(table, dp, i, 0)
        BY <2>2, <1>1
      <3>2. i = 0
        <4>1. SUFFICES ASSUME i # 0 PROVE FALSE
          OBVIOUS
        <4>2. dp[<<i, 0>>].total = Inf
          BY <3>1, <4>1 DEF BestFixed
        <4>3. QED
          BY <4>2, <2>1, <1>3
      <3>3. QED
        BY <3>1, <3>2 DEF BestFixed
    <2>4. back[<<i, 0>>] = <<>>
      BY <2>2, <1>4
    <2>5. QED
      BY <2>3, <2>4, NoPieces DEF Owed
  <1>6. ASSUME NEW m \in Nat, m \in P PROVE m + 1 \in P
    <2>1. SUFFICES ASSUME m + 1 <= Forced, NEW i \in 0..Width, dp[<<i, m + 1>>].total < Inf
                   PROVE  /\ Tiles(back[<<i, m + 1>>], 0, i) /\ FromTable(back[<<i, m + 1>>], table)
                          /\ Weight(back[<<i, m + 1>>]) = dp[<<i, m + 1>>].total + Owed(m + 1)
                          /\ Len(back[<<i, m + 1>>]) = m + 1
      OBVIOUS
    <2>2. PICK k \in 1..Forced : k = m + 1 /\ k - 1 = m
      BY <2>1, <1>3
    <2>3. k \in 0..Forced /\ m \in 0..Forced /\ k \in Nat \ {0} /\ m <= Forced
      BY <2>1, <2>2, <1>3
    <2>4. BestFixed(table, dp, i, k) /\ dp[<<i, k>>].total < Inf
      BY <2>1, <2>2, <2>3, <1>1
    <2>5. i \in 1..Width
      <3>1. SUFFICES ASSUME i = 0 PROVE FALSE
        OBVIOUS
      <3>2. dp[<<i, k>>].total = Inf
        BY <2>3, <2>4, <3>1 DEF BestFixed
      <3>3. QED
        BY <3>2, <2>4, <1>3
    <2>6. PICK j \in 0..(i - 1) : FixedStep(table, dp, i, k, j)
      BY <2>3, <2>4, <2>5, FixedCutBack
    <2>7. PICK x \in Piece : /\ x = Chosen(table, j, i - 1) /\ Fits(x, table)
                             /\ x.seg[1] = j /\ x.seg[2] + 1 = i
                             /\ dp[<<i, k>>].total = dp[<<j, m>>].total + x.cost + Owed(m)
      BY <2>2, <2>6 DEF FixedStep
    <2>8. j = dp[<<i, k>>].from /\ dp[<<j, m>>].total < Inf
      BY <2>2, <2>6 DEF FixedStep
    <2>9. j \in 0..Width
      BY ONLY <1>3, <2>5, j \in 0..(i - 1)
    <2>10. back[<<i, k>>] = Append(back[<<j, m>>], x)
      <3>1. ~(i = 0 \/ k = 0 \/ dp[<<i, k>>].from < 0)
        BY <2>3, <2>5, <2>8
      <3>2. QED
        BY <3>1, <2>2, <2>3, <2>7, <2>8, <1>4
    <2>11. /\ Tiles(back[<<j, m>>], 0, j) /\ FromTable(back[<<j, m>>], table)
           /\ Weight(back[<<j, m>>]) = dp[<<j, m>>].total + Owed(m)
           /\ Len(back[<<j, m>>]) = m
      BY <2>3, <2>8, <2>9, <1>6
    <2>12. Tiles(Append(back[<<j, m>>], x), 0, i) /\ FromTable(Append(back[<<j, m>>], x), table)
      BY <2>7, <2>11, TilesGrow
    <2>13. /\ Weight(Append(back[<<j, m>>], x)) = Weight(back[<<j, m>>]) + x.cost + Penalty
           /\ Len(Append(back[<<j, m>>], x)) = m + 1
      <3>1. back[<<j, m>>] \in Seq(Piece)
        BY <2>11 DEF Tiles
      <3>2. QED
        BY <3>1, <2>11, PieceBehind
    <2>14. Owed(k) = Penalty /\ Owed(m) \in Nat /\ Penalty \in Nat /\ x.cost \in Nat
      BY <2>3, OwedIsNat, PieceParts DEF Owed
    <2>15. dp[<<j, m>>].total \in Nat
      BY <2>3, <2>9, <1>1 DEF BestFixed
    <2>16. Weight(back[<<i, k>>]) = dp[<<i, k>>].total + Owed(k)
      <3>1. PICK a \in Nat, w \in Nat, c \in Nat, z \in Nat :
               a = dp[<<j, m>>].total /\ w = Owed(m) /\ c = x.cost /\ z = Penalty
        BY <2>14, <2>15
      <3>2. Weight(back[<<i, k>>]) = Weight(back[<<j, m>>]) + c + z
        BY <2>10, <2>13, <3>1
      <3>3. Weight(back[<<j, m>>]) = a + w /\ dp[<<i, k>>].total = a + c + w /\ Owed(k) = z
        BY <2>7, <2>11, <2>14, <3>1
      <3>4. QED
        BY ONLY <3>2, <3>3, a \in Nat, w \in Nat, c \in Nat, z \in Nat
    <2>17. QED
      BY <2>2, <2>10, <2>12, <2>13, <2>16
  <1>7. 0 \in Q
    <2>1. SUFFICES ASSUME NEW i \in 0..Width, NEW s, Tiles(s, 0, i), Len(s) = 0
                   PROVE  dp[<<i, 0>>].total + Owed(0) <= Weight(s)
      OBVIOUS
    <2>2. i = 0 /\ s \in Seq(Piece)
      BY <2>1 DEF Tiles
    <2>3. BestFixed(table, dp, 0, 0)
      <3>1. 0 \in 0..Width /\ 0 \in 0..Forced
        BY <1>3
      <3>2. QED
        BY <3>1, <1>1
    <2>4. dp[<<0, 0>>].total = 0 /\ Owed(0) = 0
      BY <2>3 DEF BestFixed, Owed
    <2>5. Weight(s) \in Nat
      BY <2>2, WeightIsNat
    <2>6. QED
      BY <2>2, <2>4, <2>5
  <1>8. ASSUME NEW m \in Nat, m \in Q PROVE m + 1 \in Q
    <2>1. SUFFICES ASSUME m + 1 <= Forced, NEW i \in 0..Width,
                          NEW s, Tiles(s, 0, i), FromTable(s, table), Len(s) = m + 1
                   PROVE  dp[<<i, m + 1>>].total + Owed(m + 1) <= Weight(s)
      OBVIOUS
    <2>2. PICK k \in 1..Forced : k = m + 1 /\ k - 1 = m
      BY <2>1, <1>3
    <2>3. k \in 0..Forced /\ m \in 0..Forced /\ k > 0 /\ k # 0 /\ m <= Forced /\ Len(s) > 0
      BY <2>1, <2>2, <1>3
    <2>4. PICK t : \E x \in Piece :
              /\ Tiles(t, 0, x.seg[1]) /\ FromTable(t, table) /\ Fits(x, table)
              /\ Len(s) = Len(t) + 1 /\ x.seg[2] + 1 = i /\ s = Append(t, x)
              /\ Weight(s) = Weight(t) + x.cost + Penalty
      BY <2>1, <2>3, TilesLast
    <2>5. PICK x \in Piece :
              /\ Tiles(t, 0, x.seg[1]) /\ FromTable(t, table) /\ Fits(x, table)
              /\ Len(s) = Len(t) + 1 /\ x.seg[2] + 1 = i
              /\ Weight(s) = Weight(t) + x.cost + Penalty
      BY <2>4
    <2>6. PICK j \in Nat : j = x.seg[1] /\ j < i /\ x.seg[2] = i - 1 /\ x.seg = <<j, i - 1>>
      BY <2>5, PieceParts
    <2>7. t \in Seq(Piece) /\ Len(t) = m
      <3>1. t \in Seq(Piece) /\ Len(t) \in Nat
        BY <2>5 DEF Tiles
      <3>2. QED
        BY <3>1, <2>1, <2>5
    <2>8. j \in 0..Width
      BY ONLY <1>3, <2>6, i \in 0..Width, j \in Nat
    <2>9. dp[<<j, m>>].total + Owed(m) <= Weight(t)
      BY <2>3, <2>5, <2>6, <2>7, <2>8, <1>8
    <2>10. Usable(table, j, i - 1) /\ x.cost = table[<<j, i - 1>>]
      BY <2>5, <2>6 DEF Fits
    <2>11. /\ Owed(k) = Penalty /\ Owed(m) \in Nat /\ Penalty \in Nat /\ x.cost \in Nat
           /\ Weight(t) \in Nat
      BY <2>3, <2>7, OwedIsNat, PieceParts, WeightIsNat DEF Owed
    <2>12. BestFixed(table, dp, j, m) /\ BestFixed(table, dp, i, k)
      BY <2>3, <2>8, <1>1
    <2>13. dp[<<j, m>>].total \in Nat /\ dp[<<i, k>>].total \in Nat /\ dp[<<i, k>>].total <= Inf
      BY <2>12 DEF BestFixed
    <2>14. PICK a \in Nat, b \in Nat, w \in Nat, c \in Nat, z \in Nat, u \in Nat :
              /\ a = dp[<<j, m>>].total /\ b = dp[<<i, k>>].total /\ w = Owed(m)
              /\ c = x.cost /\ z = Penalty /\ u = Weight(t)
      BY <2>11, <2>13
    <2>15. a + w <= u /\ Weight(s) = u + c + z /\ b <= Inf /\ Owed(k) = z
      BY <2>5, <2>9, <2>11, <2>13, <2>14
    <2>16. CASE a < Inf
      <3>1. b <= a + c + w
        BY <2>2, <2>3, <2>6, <2>10, <2>12, <2>14, <2>16 DEF BestFixed
      <3>2. b + z <= u + c + z
        BY ONLY <3>1, <2>15, a \in Nat, b \in Nat, w \in Nat, c \in Nat, z \in Nat, u \in Nat
      <3>3. QED
        BY <3>2, <2>2, <2>14, <2>15
    <2>17. CASE ~(a < Inf)
      <3>1. b + z <= u + c + z
        BY ONLY <2>15, <2>17, <1>3,
                a \in Nat, b \in Nat, w \in Nat, c \in Nat, z \in Nat, u \in Nat
      <3>2. QED
        BY <3>1, <2>2, <2>14, <2>15
    <2>18. QED
      BY <2>16, <2>17
  <1>9. (\A k \in Nat : k \in P) /\ (\A k \in Nat : k \in Q)
    <2> HIDE DEF P, Q
    <2> QED
      BY <1>5, <1>6, <1>7, <1>8, InductionOnNat
  <1>10. PICK p : p = DPFixedPlan(table)
    OBVIOUS
  <1>11. PICK c : c = dp[<<Width, Forced>>].total
    OBVIOUS
  <1>12. p.total = c /\ p.segs = IF c >= Inf THEN <<>> ELSE back[<<Width, Forced>>]
    BY <1>2, <1>10, <1>11
  <1>13. p.total \in Nat /\ p.total <= Inf
    BY <1>1, <1>3, <1>11, <1>12 DEF BestFixed
  <1>14. Owed(Forced) = Penalty
    BY <1>3 DEF Owed
  <1>15. p.total >= Inf => p.segs = <<>>
    BY <1>12
  <1>16. ASSUME p.total < Inf
         PROVE  /\ Tiles(p.segs, 0, Width) /\ FromTable(p.segs, table)
                /\ Weight(p.segs) = p.total + Penalty /\ Len(p.segs) = Forced
    <2>1. p.segs = back[<<Width, Forced>>]
      BY <1>12, <1>13, <1>16, <1>3
    <2>2. Forced \in P /\ Forced <= Forced /\ dp[<<Width, Forced>>].total < Inf
      BY <1>3, <1>9, <1>11, <1>12, <1>16
    <2>3. /\ Tiles(back[<<Width, Forced>>], 0, Width) /\ FromTable(back[<<Width, Forced>>], table)
          /\ Weight(back[<<Width, Forced>>]) = dp[<<Width, Forced>>].total + Owed(Forced)
          /\ Len(back[<<Width, Forced>>]) = Forced
      BY <2>2, <1>3
    <2>4. QED
      BY <2>1, <2>3, <1>11, <1>12, <1>14
  <1>17. ASSUME NEW s, Tiles(s, 0, Width), FromTable(s, table), Len(s) = Forced
         PROVE  p.total + Penalty <= Weight(s)
    <2>1. Forced \in Q /\ Forced <= Forced
      BY <1>3, <1>9
    <2>2. dp[<<Width, Forced>>].total + Owed(Forced) <= Weight(s)
      BY <2>1, <1>3, <1>17
    <2>3. QED
      BY <2>2, <1>11, <1>12, <1>14
  <1> HIDE DEF P, Q
  <1>18. QED
    BY <1>10, <1>13, <1>15, <1>16, <1>17 DEF Optimal

-----------------------------------------------------------------------------
(* The exhaustive search.                                                  *)

\* How many pieces may follow one of k.
LeftOf(k) == IF Forced = 0 THEN 0 ELSE k - 1

\* What the exhaustive search finds for a first piece at bit l, with the rest in g.
SearchCost(table, g, l, m) ==
    [r \in l..(Width - 1) |->
        IF Usable(table, l, r) /\ g[<<r + 1, m>>].total < Inf
        THEN table[<<l, r>>] + g[<<r + 1, m>>].total + (IF r < Width - 1 THEN Penalty ELSE 0)
        ELSE Inf]
\* The best of those, in front of its rest.
SearchCell(table, g, l, m) ==
    LET w == Winner(SearchCost(table, g, l, m)) IN
    IF w.total >= Inf THEN NoPlan
    ELSE [total |-> w.total,
          segs  |-> <<Chosen(table, l, w.from)>> \o g[<<w.from + 1, m>>].segs]
\* All that it searches, from what g says of the rests.
SearchRow(table, g) ==
    [x \in (0..Width) \X (0..Forced) |->
        IF x[1] = Width THEN IF x[2] = 0 THEN [total |-> 0, segs |-> <<>>] ELSE NoPlan
        ELSE IF Forced > 0 /\ x[2] = 0 THEN NoPlan
        ELSE SearchCell(table, g, x[1], LeftOf(x[2]))]

\* Plans, with the infinite total of NoPlan among theirs.
Plans == [total : Nat, segs : Seq(Piece)]

\* w is the best piece to begin with at bit l: what it costs with what follows.
BestFirst(table, g, l, m, w) ==
    /\ w.total \in Nat
    /\ \A r \in l..(Width - 1) :
          Usable(table, l, r) /\ g[<<r + 1, m>>].total < Inf =>
             w.total <= table[<<l, r>>] + g[<<r + 1, m>>].total + Owed(Width - (r + 1))
    /\ (g[<<Width, m>>].total = 0 \/ g[<<Width, m>>].total >= Inf) => w.total <= Inf
    /\ w.total < Inf =>
          \E r \in l..(Width - 1) :
             /\ r = w.from /\ Usable(table, l, r) /\ g[<<r + 1, m>>].total < Inf
             /\ w.total = table[<<l, r>>] + g[<<r + 1, m>>].total + Owed(Width - (r + 1))

\* The exhaustive search begins with the best first piece.
LEMMA SearchWinner ==
    ASSUME OptOK, NEW table \in Tables, NEW l \in 0..(Width - 1), NEW m, NEW g,
           \A r \in l..(Width - 1) : g[<<r + 1, m>>].total \in Nat,
           NEW w, w = Winner(SearchCost(table, g, l, m))
    PROVE  BestFirst(table, g, l, m, w)
  <1>0. Width \in Nat /\ Inf \in Nat
    BY SizeAssumption
  <1>1. ASSUME NEW r \in l..(Width - 1)
        PROVE  table[<<l, r>>] \in Nat /\ Owed(Width - (r + 1)) \in Nat /\ g[<<r + 1, m>>].total \in Nat
    <2>1. <<l, r>> \in Segs
      <3>1. l \in Nat /\ r \in Nat /\ l <= r /\ r < Width
        BY <1>0
      <3>2. QED
        BY <3>1, SegmentBetween
    <2>2. QED
      BY <2>1, <1>0, OwedIsNat DEF Tables
  <1>2. PICK cost : cost = SearchCost(table, g, l, m)
    OBVIOUS
  <1>3. ASSUME NEW r \in l..(Width - 1)
        PROVE  cost[r] = IF Usable(table, l, r) /\ g[<<r + 1, m>>].total < Inf
                         THEN table[<<l, r>>] + g[<<r + 1, m>>].total + Owed(Width - (r + 1))
                         ELSE Inf
    <2>1. (IF r < Width - 1 THEN Penalty ELSE 0) = Owed(Width - (r + 1))
      BY <1>0 DEF Owed
    <2>2. QED
      BY <1>2, <2>1 DEF SearchCost
  <1>4. cost \in [l..(Width - 1) -> Nat]
    <2>1. ASSUME NEW r \in l..(Width - 1) PROVE cost[r] \in Nat
      <3>1. PICK a \in Nat, b \in Nat, c \in Nat :
               a = table[<<l, r>>] /\ b = g[<<r + 1, m>>].total /\ c = Owed(Width - (r + 1))
        BY <1>1
      <3>2. cost[r] = a + b + c \/ cost[r] = Inf
        BY <1>3, <3>1
      <3>3. QED
        BY <1>0, <3>2
    <2>2. QED
      BY <2>1, <1>2 DEF SearchCost
  <1>5. /\ w.total \in Nat
        /\ \A r \in l..(Width - 1) : w.total <= cost[r]
        /\ w.total < Inf => w.from \in l..(Width - 1) /\ cost[w.from] = w.total
    <2>1. l..(Width - 1) \subseteq Nat /\ l \in l..(Width - 1)
      BY <1>0
    <2>2. w = Winner(cost)
      BY <1>2
    <2>3. QED
      BY ONLY <2>1, <2>2, <1>4, WinnerWins
  <1>6. ASSUME NEW r \in l..(Width - 1), Usable(table, l, r), g[<<r + 1, m>>].total < Inf
        PROVE  w.total <= table[<<l, r>>] + g[<<r + 1, m>>].total + Owed(Width - (r + 1))
    BY <1>3, <1>5, <1>6
  <1>7. ASSUME g[<<Width, m>>].total = 0 \/ g[<<Width, m>>].total >= Inf
        PROVE  w.total <= Inf
    <2>1. PICK r \in l..(Width - 1) : r + 1 = Width /\ Width - (r + 1) = 0
      <3>1. Width - 1 \in l..(Width - 1) /\ (Width - 1) + 1 = Width /\ Width - ((Width - 1) + 1) = 0
        BY <1>0
      <3>2. QED
        BY <3>1
    <2>2. w.total <= cost[r] /\ cost[r] \in Nat
      BY <1>4, <1>5
    <2>3. cost[r] <= Inf
      <3>1. CASE Usable(table, l, r) /\ g[<<r + 1, m>>].total < Inf
        <4>1. cost[r] = table[<<l, r>>] + g[<<r + 1, m>>].total + Owed(0)
          BY <2>1, <3>1, <1>3
        <4>2. g[<<r + 1, m>>].total = 0
          BY <2>1, <3>1, <1>0, <1>1, <1>7
        <4>3. table[<<l, r>>] < Inf /\ Owed(0) = 0
          BY <3>1 DEF Usable, Owed
        <4>4. QED
          BY <4>1, <4>2, <4>3, <1>0, <1>1
      <3>2. CASE ~(Usable(table, l, r) /\ g[<<r + 1, m>>].total < Inf)
        <4>1. cost[r] = Inf
          BY <3>2, <1>3
        <4>2. QED
          BY <4>1, <1>0
      <3>3. QED
        BY <3>1, <3>2
    <2>4. QED
      BY <2>2, <2>3, <1>0, <1>5
  <1>8. ASSUME w.total < Inf
        PROVE  \E r \in l..(Width - 1) :
                  /\ r = w.from /\ Usable(table, l, r) /\ g[<<r + 1, m>>].total < Inf
                  /\ w.total = table[<<l, r>>] + g[<<r + 1, m>>].total + Owed(Width - (r + 1))
    <2>1. PICK r \in l..(Width - 1) : r = w.from /\ cost[r] = w.total
      BY <1>5, <1>8
    <2>2. cost[r] # Inf
      BY <2>1, <1>0, <1>5, <1>8
    <2>3. Usable(table, l, r) /\ g[<<r + 1, m>>].total < Inf
      BY <2>2, <1>3
    <2>4. cost[r] = table[<<l, r>>] + g[<<r + 1, m>>].total + Owed(Width - (r + 1))
      BY <2>3, <1>3
    <2>5. QED
      BY <2>1, <2>3, <2>4
  <1>9. QED
    BY <1>5, <1>6, <1>7, <1>8 DEF BestFirst

\* One piece less is left to the rest of the bits, when a number is forced.
LEMMA LeftIn ==
    ASSUME OptOK, NEW k \in 0..Forced, ~(Forced > 0 /\ k = 0)
    PROVE  LeftOf(k) \in 0..Forced /\ (Forced > 0 => LeftOf(k) + 1 = k)
  <1>1. Forced \in Nat
    BY ForcedIsNat
  <1>2. CASE Forced = 0
    BY <1>2 DEF LeftOf
  <1>3. CASE Forced # 0
    <2>1. LeftOf(k) = k - 1 /\ k # 0
      BY <1>1, <1>3 DEF LeftOf
    <2>2. QED
      BY <2>1, <1>1
  <1>4. QED
    BY <1>2, <1>3

\* The exhaustive search is what its recursion says: bits from r on depend on the
\* bits behind the piece that begins there.
LEMMA SearchIs ==
    ASSUME OptOK, NEW table \in Tables
    PROVE  LET dfs == CHOOSE g : g = SearchRow(table, g) IN
           /\ dfs = SearchRow(table, dfs)
           /\ ExhaustivePlan(table) = dfs[<<0, Forced>>]
  <1> DEFINE D == (0..Width) \X (0..Forced)
             F == [g \in [D -> Plans] |-> SearchRow(table, g)]
             rank == [x \in D |-> Width - x[1]]
             dfs == CHOOSE g : g = SearchRow(table, g)
  <1>0. Forced \in Nat /\ Width \in Nat /\ Inf \in Nat
    BY ForcedIsNat, SizeAssumption
  <1>1. NoPlan \in Plans /\ [total |-> 0, segs |-> <<>>] \in Plans
    BY <1>0 DEF NoPlan, Plans
  <1>2. ASSUME NEW x \in D, x[1] # Width, ~(Forced > 0 /\ x[2] = 0)
        PROVE  /\ x[1] \in 0..(Width - 1) /\ LeftOf(x[2]) \in 0..Forced
               /\ \A r \in x[1]..(Width - 1) :
                     <<r + 1, LeftOf(x[2])>> \in D /\ <<r + 1, LeftOf(x[2])>>[1] > x[1]
    <2>1. PICK l \in 0..(Width - 1), k \in 0..Forced : l = x[1] /\ k = x[2]
      BY <1>2, <1>0
    <2>2. LeftOf(k) \in 0..Forced
      BY <2>1, <1>2, LeftIn
    <2>3. \A r \in l..(Width - 1) : r + 1 \in 0..Width /\ r + 1 > l
      BY <1>0
    <2>4. QED
      BY <2>1, <2>2, <2>3
  <1>3. ASSUME NEW g \in [D -> Plans] PROVE SearchRow(table, g) \in [D -> Plans]
    <2>1. ASSUME NEW x \in D, x[1] # Width, ~(Forced > 0 /\ x[2] = 0)
          PROVE  SearchCell(table, g, x[1], LeftOf(x[2])) \in Plans
      <3>1. PICK l, m : l = x[1] /\ m = LeftOf(x[2])
        OBVIOUS
      <3>2. /\ l \in 0..(Width - 1) /\ m \in 0..Forced
            /\ \A r \in l..(Width - 1) : <<r + 1, m>> \in D
        BY <2>1, <3>1, <1>2
      <3>3. \A r \in l..(Width - 1) : /\ g[<<r + 1, m>>].total \in Nat
                                      /\ g[<<r + 1, m>>].segs \in Seq(Piece)
        BY <3>2 DEF Plans
      <3>4. PICK w : w = Winner(SearchCost(table, g, l, m))
        OBVIOUS
      <3>5. BestFirst(table, g, l, m, w)
        BY <3>2, <3>3, <3>4, SearchWinner
      <3>6. SearchCell(table, g, l, m) = IF w.total >= Inf THEN NoPlan
               ELSE [total |-> w.total,
                     segs  |-> <<Chosen(table, l, w.from)>> \o g[<<w.from + 1, m>>].segs]
        BY <3>4 DEF SearchCell
      <3>7. CASE w.total >= Inf
        BY <3>1, <3>6, <3>7, <1>1
      <3>8. CASE ~(w.total >= Inf)
        <4>1. w.total \in Nat /\ w.total < Inf
          BY <3>5, <3>8, <1>0 DEF BestFirst
        <4>2. PICK r \in l..(Width - 1) : r = w.from /\ Usable(table, l, r)
          BY <3>5, <4>1 DEF BestFirst
        <4>3. l \in Nat /\ r \in Nat /\ l <= r /\ r < Width
          BY <3>2, <1>0
        <4>4. Chosen(table, l, r) \in Piece
          BY <4>2, <4>3, ChosenFits
        <4>5. <<Chosen(table, l, r)>> \o g[<<r + 1, m>>].segs \in Seq(Piece)
          BY <3>3, <4>4
        <4>6. PICK q \in Seq(Piece) : q = <<Chosen(table, l, r)>> \o g[<<r + 1, m>>].segs
          BY <4>5
        <4>7. SearchCell(table, g, l, m) = [total |-> w.total, segs |-> q]
          BY <3>6, <3>8, <4>2, <4>6
        <4>8. [total |-> w.total, segs |-> q] \in Plans
          BY <4>1 DEF Plans
        <4>9. QED
          BY <3>1, <4>7, <4>8
      <3>9. QED
        BY <3>7, <3>8
    <2>2. QED
      BY <2>1, <1>1 DEF SearchRow
  <1>4. ASSUME NEW g \in [D -> Plans], NEW h \in [D -> Plans], NEW x \in D,
               \A y \in D : y[1] > x[1] => g[y] = h[y]
        PROVE  SearchRow(table, g)[x] = SearchRow(table, h)[x]
    <2>1. CASE x[1] = Width \/ (Forced > 0 /\ x[2] = 0)
      BY <2>1 DEF SearchRow
    <2>2. CASE x[1] # Width /\ ~(Forced > 0 /\ x[2] = 0)
      <3>1. PICK l, m : l = x[1] /\ m = LeftOf(x[2])
        OBVIOUS
      <3>2. /\ l \in 0..(Width - 1)
            /\ \A r \in l..(Width - 1) : <<r + 1, m>> \in D /\ g[<<r + 1, m>>] = h[<<r + 1, m>>]
        BY <2>2, <3>1, <1>2, <1>4
      <3>3. SearchCost(table, g, l, m) = SearchCost(table, h, l, m)
        BY <3>2 DEF SearchCost
      <3>4. PICK w : w = Winner(SearchCost(table, g, l, m)) /\ w = Winner(SearchCost(table, h, l, m))
        BY <3>3
      <3>5. w.total >= Inf \/ w.from \in l..(Width - 1)
        <4>1. \A r \in l..(Width - 1) : g[<<r + 1, m>>].total \in Nat
          BY <3>2 DEF Plans
        <4>2. BestFirst(table, g, l, m, w)
          <5>1. w = Winner(SearchCost(table, g, l, m)) /\ l \in 0..(Width - 1)
            BY <3>2, <3>4
          <5>2. QED
            BY <4>1, <5>1, SearchWinner
        <4>3. w.total \in Nat /\ (w.total < Inf => w.from \in l..(Width - 1))
          BY <4>2 DEF BestFirst
        <4>4. QED
          BY <4>3, <1>0
      <3>6. SearchCell(table, g, l, m) = SearchCell(table, h, l, m)
        <4>1. CASE w.total >= Inf
          BY <3>4, <4>1 DEF SearchCell
        <4>2. CASE w.from \in l..(Width - 1)
          <5>1. g[<<w.from + 1, m>>] = h[<<w.from + 1, m>>]
            BY <4>2, <3>2
          <5>2. QED
            BY <5>1, <3>4 DEF SearchCell
        <4>3. QED
          BY <3>5, <4>1, <4>2
      <3>7. QED
        BY <2>2, <3>1, <3>6 DEF SearchRow
    <2>3. QED
      BY <2>1, <2>2
  <1>5. \E g \in [D -> Plans] : SearchRow(table, g) = g
    <2>1. F \in [[D -> Plans] -> [D -> Plans]]
      BY <1>3
    <2>2. rank \in [D -> Nat] /\ Width + 1 \in Nat /\ \A x \in D : rank[x] < Width + 1
      BY <1>0
    <2>3. ASSUME NEW g \in [D -> Plans], NEW h \in [D -> Plans], NEW x \in D,
                 \A y \in D : rank[y] < rank[x] => g[y] = h[y]
          PROVE  F[g][x] = F[h][x]
      <3>1. \A y \in D : y[1] > x[1] => rank[y] < rank[x]
        BY <1>0
      <3>2. \A y \in D : y[1] > x[1] => g[y] = h[y]
        BY <2>3, <3>1
      <3>3. QED
        BY <3>2, <1>4
    <2>4. Ranked(D, Plans, F, rank, Width + 1)
      BY <2>1, <2>2, <2>3 DEF Ranked
    <2>5. \E g \in [D -> Plans] : F[g] = g
      <3> HIDE DEF D, F, rank
      <3> QED
        BY <2>4, <1>1, CourseOfValues
    <2>6. QED
      BY <2>5
  <1>6. dfs = SearchRow(table, dfs)
    BY <1>5
  <1>7. ExhaustivePlan(table) = dfs[<<0, Forced>>]
    BY DEF ExhaustivePlan, SearchRow, SearchCell, SearchCost, LeftOf
  <1>8. QED
    BY <1>6, <1>7

\* p is the best plan of the bits from l on, in k pieces when a number is forced.
BestRest(table, p, l, k) ==
    /\ p.total \in Nat /\ p.total <= Inf
    /\ p.total >= Inf => p.segs = <<>>
    /\ p.total < Inf => /\ Tiles(p.segs, l, Width) /\ FromTable(p.segs, table)
                        /\ Weight(p.segs) = p.total + Owed(Width - l)
                        /\ Forced > 0 => Len(p.segs) = k
    /\ \A s : Tiles(s, l, Width) /\ FromTable(s, table) /\ (Forced > 0 => Len(s) = k) =>
                 p.total + Owed(Width - l) <= Weight(s)

\* Nothing is left, or no piece is.
LEMMA RestAtEnd ==
    ASSUME OptOK, NEW table, NEW k \in 0..Forced
    PROVE  /\ BestRest(table, [total |-> 0, segs |-> <<>>], Width, 0)
           /\ k # 0 => BestRest(table, NoPlan, Width, k)
           /\ \A l \in 0..(Width - 1) : Forced > 0 => BestRest(table, NoPlan, l, 0)
  <1>0. Forced \in Nat /\ Width \in Nat /\ Inf \in Nat
    BY ForcedIsNat, SizeAssumption
  <1>1. BestRest(table, [total |-> 0, segs |-> <<>>], Width, 0)
    <2>1. Owed(Width - Width) = 0
      BY <1>0 DEF Owed
    <2>2. \A s : Tiles(s, Width, Width) => Weight(s) \in Nat
      BY WeightIsNat DEF Tiles
    <2>3. /\ Tiles(<<>>, Width, Width) /\ FromTable(<<>>, table)
          /\ Len(<<>>) = 0 /\ Weight(<<>>) = 0
      BY NoPieces
    <2>4. PICK p : p = [total |-> 0, segs |-> <<>>]
      OBVIOUS
    <2>5. p.total = 0 /\ p.segs = <<>>
      BY <2>4
    <2>6. BestRest(table, p, Width, 0)
      BY <1>0, <2>1, <2>2, <2>3, <2>5 DEF BestRest
    <2>7. QED
      BY <2>4, <2>6
  <1>2. ASSUME k # 0 PROVE BestRest(table, NoPlan, Width, k)
    <2>1. ASSUME NEW s, Tiles(s, Width, Width), Len(s) = k PROVE FALSE
      <3>1. s \in Seq(Piece) /\ Len(s) > 0 /\ s[1].seg[1] = Width
        BY <2>1, <1>0, <1>2 DEF Tiles
      <3>2. s[1] \in Piece
        BY <3>1
      <3>3. s[1].seg[1] \in Nat /\ s[1].seg[2] \in Nat
            /\ s[1].seg[1] <= s[1].seg[2] /\ s[1].seg[2] < Width
        BY <3>2, PieceParts
      <3>4. QED
        BY <3>1, <3>3, <1>0
    <2>2. Forced > 0
      BY <1>0, <1>2
    <2>3. NoPlan.total = Inf /\ NoPlan.segs = <<>>
      BY DEF NoPlan
    <2>4. QED
      BY <2>1, <2>2, <2>3, <1>0 DEF BestRest
  <1>3. ASSUME NEW l \in 0..(Width - 1), Forced > 0 PROVE BestRest(table, NoPlan, l, 0)
    <2>1. ASSUME NEW s, Tiles(s, l, Width), Len(s) = 0 PROVE FALSE
      BY <2>1, <1>0 DEF Tiles
    <2>2. NoPlan.total = Inf /\ NoPlan.segs = <<>>
      BY DEF NoPlan
    <2>3. QED
      BY <2>1, <2>2, <1>0, <1>3 DEF BestRest
  <1>4. QED
    BY <1>1, <1>2, <1>3

\* The best piece, with the best rest behind it, is the best rest before it.
LEMMA RestHere ==
    ASSUME OptOK, NEW table \in Tables, NEW l \in 0..(Width - 1), NEW k \in 0..Forced,
           ~(Forced > 0 /\ k = 0), NEW m, m = LeftOf(k), NEW g,
           \A r \in l..(Width - 1) : BestRest(table, g[<<r + 1, m>>], r + 1, m),
           g[<<Width, m>>].total = 0 \/ g[<<Width, m>>].total >= Inf
    PROVE  BestRest(table, SearchCell(table, g, l, m), l, k)
  <1>0. Forced \in Nat /\ Width \in Nat /\ Inf \in Nat
    BY ForcedIsNat, SizeAssumption
  <1>1. \A r \in l..(Width - 1) : g[<<r + 1, m>>].total \in Nat
    BY DEF BestRest
  <1>2. PICK w : w = Winner(SearchCost(table, g, l, m))
    OBVIOUS
  <1>3. BestFirst(table, g, l, m, w)
    BY <1>1, <1>2, SearchWinner
  <1>4. w.total \in Nat /\ w.total <= Inf
    BY <1>3 DEF BestFirst
  <1>5. m \in 0..Forced /\ (Forced > 0 => m + 1 = k)
    BY LeftIn
  <1>6. PICK z \in Nat : z = Penalty /\ Owed(Width - l) = z
    <2>1. Width - l # 0
      BY <1>0
    <2>2. QED
      BY <2>1, OwedIsNat DEF Owed
  <1>7. PICK p : p = SearchCell(table, g, l, m)
    OBVIOUS
  <1>8. p = IF w.total >= Inf THEN NoPlan
            ELSE [total |-> w.total,
                  segs  |-> <<Chosen(table, l, w.from)>> \o g[<<w.from + 1, m>>].segs]
    BY <1>2, <1>7 DEF SearchCell
  <1>9. p.total = w.total /\ (p.total >= Inf => p.segs = <<>>)
    <2>1. CASE w.total >= Inf
      <3>1. w.total = Inf /\ p = NoPlan
        BY <2>1, <1>0, <1>4, <1>8
      <3>2. QED
        BY <3>1 DEF NoPlan
    <2>2. CASE ~(w.total >= Inf)
      BY <2>2, <1>8
    <2>3. QED
      BY <2>1, <2>2
  <1>10. ASSUME p.total < Inf
         PROVE  /\ Tiles(p.segs, l, Width) /\ FromTable(p.segs, table)
                /\ Weight(p.segs) = p.total + z
                /\ Forced > 0 => Len(p.segs) = k
    <2>1. PICK r \in l..(Width - 1) :
             /\ r = w.from /\ Usable(table, l, r) /\ g[<<r + 1, m>>].total < Inf
             /\ w.total = table[<<l, r>>] + g[<<r + 1, m>>].total + Owed(Width - (r + 1))
      BY <1>3, <1>9, <1>10 DEF BestFirst
    <2>2. l \in Nat /\ r \in Nat /\ l <= r /\ r < Width
      BY <1>0
    <2>3. PICK x \in Piece : /\ x = Chosen(table, l, r) /\ Fits(x, table)
                             /\ x.seg[1] = l /\ x.seg[2] = r /\ x.cost = table[<<l, r>>]
      BY <2>1, <2>2, ChosenFits
    <2>4. PICK s : s = g[<<r + 1, m>>].segs
      OBVIOUS
    <2>5. /\ Tiles(s, r + 1, Width) /\ FromTable(s, table)
          /\ Weight(s) = g[<<r + 1, m>>].total + Owed(Width - (r + 1))
          /\ Forced > 0 => Len(s) = m
      BY <2>1, <2>4 DEF BestRest
    <2>6. p.segs = <<x>> \o s
      <3>1. ~(w.total >= Inf)
        BY <1>0, <1>4, <1>9, <1>10
      <3>2. p.segs = <<Chosen(table, l, w.from)>> \o g[<<w.from + 1, m>>].segs
        BY <3>1, <1>8
      <3>3. QED
        BY <3>2, <2>1, <2>3, <2>4
    <2>7. Tiles(p.segs, l, Width) /\ FromTable(p.segs, table)
      BY <2>3, <2>5, <2>6, TilesGrow
    <2>8. s \in Seq(Piece) /\ Len(p.segs) = Len(s) + 1 /\ Weight(p.segs) = Weight(s) + x.cost + Penalty
      <3>1. s \in Seq(Piece)
        BY <2>5 DEF Tiles
      <3>2. QED
        BY <3>1, <2>6, PieceBefore
    <2>9. PICK a \in Nat, c \in Nat, o \in Nat :
             a = g[<<r + 1, m>>].total /\ c = x.cost /\ o = Owed(Width - (r + 1))
      BY <1>1, <2>3, PieceParts, OwedIsNat
    <2>10. Weight(p.segs) = p.total + z
      <3>1. Weight(p.segs) = Weight(s) + c + z /\ Weight(s) = a + o /\ p.total = c + a + o
        BY <1>6, <1>9, <2>1, <2>3, <2>5, <2>8, <2>9
      <3>2. QED
        BY ONLY <3>1, a \in Nat, c \in Nat, o \in Nat, z \in Nat
    <2>11. QED
      BY <2>5, <2>7, <2>8, <2>10, <1>5
  <1>11. ASSUME NEW s, Tiles(s, l, Width), FromTable(s, table), Forced > 0 => Len(s) = k
         PROVE  p.total + z <= Weight(s)
    <2>1. s \in Seq(Piece) /\ Len(s) > 0
      BY <1>0, <1>11 DEF Tiles
    <2>2. PICK t : \E x \in Piece :
             /\ Tiles(t, x.seg[2] + 1, Width) /\ FromTable(t, table) /\ Fits(x, table)
             /\ Len(s) = Len(t) + 1 /\ x.seg[1] = l
             /\ Weight(s) = Weight(t) + x.cost + Penalty
      BY <2>1, <1>11, TilesFirst
    <2>3. PICK x \in Piece :
             /\ Tiles(t, x.seg[2] + 1, Width) /\ FromTable(t, table) /\ Fits(x, table)
             /\ Len(s) = Len(t) + 1 /\ x.seg[1] = l
             /\ Weight(s) = Weight(t) + x.cost + Penalty
      BY <2>2
    <2>4. PICK r \in l..(Width - 1) : r = x.seg[2] /\ x.seg = <<l, r>>
      <3>1. x.seg[2] \in l..(Width - 1) /\ x.seg = <<l, x.seg[2]>>
        BY <1>0, <2>3, PieceParts
      <3>2. QED
        BY <3>1
    <2>5. t \in Seq(Piece) /\ (Forced > 0 => Len(t) = m)
      <3>1. t \in Seq(Piece) /\ Len(t) \in Nat
        BY <2>3 DEF Tiles
      <3>2. QED
        BY <3>1, <1>5, <1>11, <2>3
    <2>6. PICK a \in Nat, o \in Nat, u \in Nat, c \in Nat :
             /\ a = g[<<r + 1, m>>].total /\ o = Owed(Width - (r + 1))
             /\ u = Weight(t) /\ c = x.cost
      BY <1>1, <2>5, PieceParts, OwedIsNat, WeightIsNat
    <2>7. a + o <= u
      BY <2>3, <2>4, <2>5, <2>6 DEF BestRest
    <2>8. Weight(s) = u + c + z
      BY <2>3, <2>6, <1>6
    <2>9. a < Inf => w.total <= c + a + o
      BY <2>3, <2>4, <2>6, <1>3 DEF BestFirst, Fits
    <2>10. PICK b \in Nat : b = w.total /\ b <= Inf
      BY <1>4
    <2>11. b + z <= u + c + z
      BY ONLY <2>7, <2>9, <2>10, <1>0, a \in Nat, o \in Nat, u \in Nat, c \in Nat, z \in Nat, b \in Nat
    <2>12. QED
      BY <1>9, <2>8, <2>10, <2>11
  <1>12. BestRest(table, p, l, k)
    BY <1>4, <1>6, <1>9, <1>10, <1>11 DEF BestRest
  <1>13. QED
    BY <1>7, <1>12

\* The plan of the exhaustive search is optimal.
LEMMA ExhaustivePlanOptimal ==
    ASSUME OptOK, NEW table \in Tables
    PROVE  Optimal(ExhaustivePlan(table), table)
  <1>0. Forced \in Nat /\ Width \in Nat /\ Inf \in Nat /\ Width # 0
    BY ForcedIsNat, SizeAssumption
  <1>1. PICK g : g = SearchRow(table, g) /\ ExhaustivePlan(table) = g[<<0, Forced>>]
    BY SearchIs
  <1>2. ASSUME NEW l \in 0..Width, NEW k \in 0..Forced
        PROVE  g[<<l, k>>] = IF l = Width THEN IF k = 0 THEN [total |-> 0, segs |-> <<>>] ELSE NoPlan
                             ELSE IF Forced > 0 /\ k = 0 THEN NoPlan
                             ELSE SearchCell(table, g, l, LeftOf(k))
    <2>1. <<l, k>> \in (0..Width) \X (0..Forced)
      OBVIOUS
    <2>2. SearchRow(table, g)[<<l, k>>] =
             IF l = Width THEN IF k = 0 THEN [total |-> 0, segs |-> <<>>] ELSE NoPlan
             ELSE IF Forced > 0 /\ k = 0 THEN NoPlan
             ELSE SearchCell(table, g, l, LeftOf(k))
      BY <2>1 DEF SearchRow
    <2>3. QED
      BY <2>2, <1>1
  <1>3. \A k \in 0..Forced : g[<<Width, k>>].total = 0 \/ g[<<Width, k>>].total >= Inf
    <2>1. Width \in 0..Width
      BY <1>0
    <2>2. ASSUME NEW k \in 0..Forced PROVE g[<<Width, k>>].total = 0 \/ g[<<Width, k>>].total = Inf
      BY <2>1, <1>2 DEF NoPlan
    <2>3. QED
      BY <2>2, <1>0
  <1> DEFINE P == {n \in Nat : \A l \in 0..Width : Width - l = n =>
                      \A k \in 0..Forced : BestRest(table, g[<<l, k>>], l, k)}
  <1>4. ASSUME NEW n \in Nat, \A i \in Nat : i < n => i \in P PROVE n \in P
    <2>1. SUFFICES ASSUME NEW l \in 0..Width, Width - l = n, NEW k \in 0..Forced
                   PROVE  BestRest(table, g[<<l, k>>], l, k)
      OBVIOUS
    <2>2. CASE l = Width
      BY <2>2, <1>2, RestAtEnd
    <2>3. CASE l # Width /\ Forced > 0 /\ k = 0
      <3>1. l \in 0..(Width - 1)
        BY <2>3, <1>0
      <3>2. QED
        BY <2>3, <3>1, <1>2, RestAtEnd
    <2>4. CASE l # Width /\ ~(Forced > 0 /\ k = 0)
      <3>1. l \in 0..(Width - 1)
        BY <2>4, <1>0
      <3>2. PICK m \in 0..Forced : m = LeftOf(k)
        BY <2>4, LeftIn
      <3>3. ASSUME NEW r \in l..(Width - 1) PROVE BestRest(table, g[<<r + 1, m>>], r + 1, m)
        <4>1. PICK i \in Nat : i = Width - (r + 1) /\ i < n /\ r + 1 \in 0..Width
          BY ONLY <2>1, <1>0, l \in 0..Width, r \in l..(Width - 1)
        <4>2. i \in P
          BY <4>1, <1>4
        <4>3. QED
          BY <4>1, <4>2
      <3>4. BestRest(table, SearchCell(table, g, l, m), l, k)
        BY <3>1, <3>2, <3>3, <1>3, <2>4, RestHere
      <3>5. g[<<l, k>>] = SearchCell(table, g, l, m)
        BY <2>4, <3>2, <1>2
      <3>6. QED
        BY <3>4, <3>5
    <2>5. QED
      BY <2>2, <2>3, <2>4
  <1>5. \A n \in Nat : n \in P
    <2> HIDE DEF P
    <2> QED
      BY <1>4, StrongInduction
  <1>6. BestRest(table, g[<<0, Forced>>], 0, Forced)
    <2>1. Width \in P /\ 0 \in 0..Width /\ Forced \in 0..Forced /\ Width - 0 = Width
      BY <1>0, <1>5
    <2>2. QED
      BY <2>1
  <1>7. Owed(Width - 0) = Penalty
    BY <1>0 DEF Owed
  <1>8. QED
    BY <1>1, <1>6, <1>7 DEF BestRest, Optimal

\* Whichever way it searches, select finds an optimal plan of its table.
LEMMA FoundOptimal ==
    ASSUME OptOK, NEW table \in Tables
    PROVE  Optimal(Found(table), table)
  <1>1. Forced \in Nat
    BY ForcedIsNat
  <1>2. CASE opt.exhaustive
    BY <1>2, ExhaustivePlanOptimal DEF Found
  <1>3. CASE ~opt.exhaustive /\ Forced > 0
    BY <1>3, DPFixedPlanOptimal DEF Found
  <1>4. CASE ~opt.exhaustive /\ ~(Forced > 0)
    <2>1. Forced = 0
      BY <1>1, <1>4
    <2>2. QED
      BY <2>1, <1>4, DPPlanOptimal DEF Found
  <1>5. QED
    BY <1>2, <1>3, <1>4

-----------------------------------------------------------------------------
(* Lists of pieces and sets of cuts are the same thing.                    *)

\* The bits where pieces end: where a list of pieces cuts.
Ends(s) == {s[i].seg[2] : i \in 1..Len(s)}

\* A later piece lies above an earlier one; only the first begins at bit lo.
LEMMA TilesRise ==
    ASSUME NEW s, NEW lo \in Nat, NEW hi, Tiles(s, lo, hi)
    PROVE  /\ \A j \in 1..Len(s) : \A i \in 1..(j - 1) : s[i].seg[2] < s[j].seg[1]
           /\ \A i \in 1..Len(s) : /\ s[i] \in Piece
                                   /\ s[i].seg[1] >= lo /\ s[i].seg[2] < hi
                                   /\ s[i].seg[1] = lo => i = 1
  <1>1. PICK n \in Nat : n = Len(s)
    BY DEF Tiles
  <1>2. /\ s \in Seq(Piece)
        /\ n > 0 => s[1].seg[1] = lo /\ s[n].seg[2] + 1 = hi
        /\ \A i \in 1..(n - 1) : s[i + 1].seg[1] = s[i].seg[2] + 1
    BY <1>1 DEF Tiles
  <1>3. \A i \in 1..n : s[i] \in Piece
    BY <1>1, <1>2
  <1>4. \A i \in 1..n : /\ s[i].seg[1] \in Nat /\ s[i].seg[2] \in Nat
                        /\ s[i].seg[1] <= s[i].seg[2]
    BY <1>3, PieceParts
  <1> DEFINE P == {j \in Nat : j <= n => \A i \in 1..(j - 1) : s[i].seg[2] < s[j].seg[1]}
  <1>5. 0 \in P
    OBVIOUS
  <1>6. ASSUME NEW j \in Nat, j \in P PROVE j + 1 \in P
    <2>1. SUFFICES ASSUME j + 1 <= n, NEW i \in 1..((j + 1) - 1) PROVE s[i].seg[2] < s[j + 1].seg[1]
      OBVIOUS
    <2>2. j \in 1..(n - 1) /\ j \in 1..n /\ j + 1 \in 1..n /\ i \in 1..n /\ i \in 1..j
      BY <2>1
    <2>3. s[j + 1].seg[1] = s[j].seg[2] + 1
      BY <2>2, <1>2
    <2>4. CASE i = j
      BY <2>2, <2>3, <2>4, <1>4
    <2>5. CASE i # j
      <3>1. i \in 1..(j - 1) /\ j <= n
        BY <2>2, <2>5
      <3>2. s[i].seg[2] < s[j].seg[1]
        BY <3>1, <1>6
      <3>3. QED
        BY <3>2, <2>2, <2>3, <1>4
    <2>6. QED
      BY <2>4, <2>5
  <1>7. \A j \in Nat : j \in P
    <2> HIDE DEF P
    <2> QED
      BY <1>5, <1>6, InductionOnNat
  <1>8. \A j \in 1..n : \A i \in 1..(j - 1) : s[i].seg[2] < s[j].seg[1]
    BY <1>7
  <1>9. ASSUME NEW i \in 1..n
        PROVE  /\ s[i].seg[1] >= lo /\ s[i].seg[2] < hi
               /\ s[i].seg[1] = lo => i = 1
    <2>1. 1 \in 1..n /\ n \in 1..n /\ n > 0
      OBVIOUS
    <2>2. i = 1 \/ s[1].seg[2] < s[i].seg[1]
      <3>1. i # 1 => 1 \in 1..(i - 1)
        OBVIOUS
      <3>2. QED
        BY <3>1, <1>8
    <2>3. i = n \/ s[i].seg[2] < s[n].seg[1]
      <3>1. i # n => i \in 1..(n - 1)
        OBVIOUS
      <3>2. QED
        BY <3>1, <2>1, <1>8
    <2>4. s[1].seg[1] = lo /\ s[n].seg[2] + 1 = hi
      BY <2>1, <1>2
    <2>5. s[i].seg[1] >= lo /\ (s[i].seg[1] = lo => i = 1)
      BY <2>1, <2>2, <2>4, <1>4
    <2>6. s[i].seg[2] < hi
      BY <2>1, <2>3, <2>4, <1>4
    <2>7. QED
      BY <2>5, <2>6
  <1>10. QED
    BY <1>1, <1>3, <1>8, <1>9

\* The segments of a list without gaps are those that its ends cut.
LEMMA TilingSegments ==
    ASSUME NEW s, Tiles(s, 0, Width)
    PROVE  /\ Ends(s) \in Cuts
           /\ SegmentsOf(Ends(s)) = {s[i].seg : i \in 1..Len(s)}
           /\ Len(s) \in Nat \ {0}
  <1>0. Width \in Nat /\ Width # 0
    BY SizeAssumption
  <1>1. PICK n \in Nat : n = Len(s) /\ n > 0 /\ s[n].seg[2] + 1 = Width /\ s[1].seg[1] = 0
    BY <1>0 DEF Tiles
  <1>2. /\ \A j \in 1..n : \A i \in 1..(j - 1) : s[i].seg[2] < s[j].seg[1]
        /\ \A i \in 1..n : s[i] \in Piece
    BY <1>1, TilesRise
  <1>3. \A i \in 1..n : /\ s[i].seg \in Segs /\ s[i].seg = <<s[i].seg[1], s[i].seg[2]>>
                        /\ s[i].seg[1] \in Nat /\ s[i].seg[2] \in Nat
                        /\ s[i].seg[1] <= s[i].seg[2] /\ s[i].seg[2] < Width
    BY <1>2, PieceParts
  <1>4. PICK C : C = Ends(s) /\ C = {s[i].seg[2] : i \in 1..n}
    BY <1>1 DEF Ends
  <1>5. C \in Cuts
    <2>1. n \in 1..n /\ s[n].seg[2] = Width - 1
      BY <1>0, <1>1, <1>3
    <2>2. C \subseteq 0..(Width - 1)
      BY <1>0, <1>3, <1>4
    <2>3. QED
      BY <2>1, <2>2, <1>4 DEF Cuts
  <1>6. ASSUME NEW i \in 1..n, NEW b \in s[i].seg[1]..(s[i].seg[2] - 1) PROVE b \notin C
    <2>1. SUFFICES ASSUME NEW j \in 1..n, b = s[j].seg[2] PROVE FALSE
      BY <1>4
    <2>2. j = i \/ j \in 1..(i - 1) \/ i \in 1..(j - 1)
      OBVIOUS
    <2>3. j = i \/ s[j].seg[2] < s[i].seg[1] \/ s[i].seg[2] < s[j].seg[1]
      BY <2>2, <1>2
    <2>4. QED
      BY <2>1, <2>3, <1>3
  <1>7. \A i \in 1..n : i = 1 \/ \E j \in 1..n : s[i].seg[1] - 1 = s[j].seg[2]
    <2>1. ASSUME NEW i \in 1..n, i # 1 PROVE \E j \in 1..n : s[i].seg[1] - 1 = s[j].seg[2]
      <3>1. PICK j \in 1..(n - 1) : j + 1 = i
        <4>1. i - 1 \in 1..(n - 1) /\ (i - 1) + 1 = i
          BY <2>1
        <4>2. QED
          BY <4>1
      <3>2. s[i].seg[1] = s[j].seg[2] + 1
        BY <3>1, <1>1 DEF Tiles
      <3>3. j \in 1..n
        OBVIOUS
      <3>4. QED
        BY <3>2, <3>3, <1>3
    <2>2. QED
      BY <2>1
  <1>8. ASSUME NEW i \in 1..n PROVE s[i].seg \in SegmentsOf(C)
    <2>1. s[i].seg[2] \in C
      BY <1>4
    <2>2. s[i].seg[1] = 0 \/ s[i].seg[1] - 1 \in C
      BY <1>1, <1>4, <1>7
    <2>3. QED
      BY <2>1, <2>2, <1>3, <1>6 DEF SegmentsOf
  <1>9. ASSUME NEW x \in SegmentsOf(C) PROVE \E i \in 1..n : x = s[i].seg
    <2>1. /\ x \in Segs /\ x[2] \in C /\ (x[1] = 0 \/ x[1] - 1 \in C)
          /\ \A b \in x[1]..(x[2] - 1) : b \notin C
      BY DEF SegmentsOf
    <2>2. PICK i \in 1..n : x[2] = s[i].seg[2]
      BY <2>1, <1>4
    <2>3. x = <<x[1], x[2]>> /\ x[1] \in Nat /\ x[2] \in Nat /\ x[1] <= x[2]
      BY <2>1, SegmentEnds
    <2>4. ~(x[1] < s[i].seg[1])
      <3>1. SUFFICES ASSUME x[1] < s[i].seg[1] PROVE FALSE
        OBVIOUS
      <3>2. i # 1
        BY <3>1, <2>3, <1>1
      <3>3. s[i].seg[1] - 1 \in C
        BY <3>2, <1>4, <1>7
      <3>4. s[i].seg[1] - 1 \in x[1]..(x[2] - 1)
        BY <3>1, <2>2, <2>3, <1>3
      <3>5. QED
        BY <3>3, <3>4, <2>1
    <2>5. ~(x[1] > s[i].seg[1])
      <3>1. SUFFICES ASSUME x[1] > s[i].seg[1] PROVE FALSE
        OBVIOUS
      <3>2. x[1] - 1 \in C
        BY <3>1, <2>1, <2>3, <1>3
      <3>3. x[1] - 1 \in s[i].seg[1]..(s[i].seg[2] - 1)
        BY <3>1, <2>2, <2>3, <1>3
      <3>4. QED
        BY <3>2, <3>3, <1>6
    <2>6. x[1] = s[i].seg[1]
      BY <2>3, <2>4, <2>5, <1>3
    <2>7. QED
      BY <2>2, <2>3, <2>6, <1>3
  <1>10. SegmentsOf(C) = {s[i].seg : i \in 1..n}
    BY <1>8, <1>9
  <1>11. QED
    BY <1>1, <1>4, <1>5, <1>10

\* The penalties of a weight, summed apart from the costs.
LEMMA WeightTotal ==
    ASSUME OptOK, NEW s \in Seq(Piece)
    PROVE  /\ Weight(s) = SumTo(CostsOf(s), Len(s)) + Penalty * Len(s)
           /\ SumTo(CostsOf(s), Len(s)) \in Nat
           /\ TotalOf(s) = Weight(s) - Penalty
           /\ Weight(s) - Penalty = SumTo(CostsOf(s), Len(s)) + Penalty * (Len(s) - 1)
  <1>1. PICK n \in Nat : n = Len(s)
    OBVIOUS
  <1>2. PICK z \in Nat : z = Penalty
    BY OwedIsNat
  <1>3. PICK c : c = CostsOf(s)
    OBVIOUS
  <1>4. \A i \in 1..n : c[i] \in Nat /\ Owing(s)[i] = c[i] + z /\ Owing(s)[i] \in Nat
    <2>1. ASSUME NEW i \in 1..n PROVE s[i].cost \in Nat /\ c[i] = s[i].cost
      <3>1. s[i] \in Piece /\ i \in DOMAIN s
        BY <1>1
      <3>2. QED
        BY <3>1, <1>3, PieceParts DEF CostsOf
    <2>2. QED
      BY <2>1, <1>1, <1>2, WeightIsNat
  <1>5. c \in Seq(Nat) /\ Len(c) = n
    <2>1. DOMAIN s = 1..n
      BY <1>1
    <2>2. c = [i \in 1..n |-> s[i].cost]
      BY <2>1, <1>3 DEF CostsOf
    <2>3. \A i \in 1..n : s[i].cost \in Nat
      BY <1>4, <2>2
    <2>4. QED
      BY <2>2, <2>3
  <1> DEFINE P == {m \in Nat : m <= n => SumTo(Owing(s), m) = SumTo(c, m) + z * m}
  <1>6. /\ SumTo(c, 0) = 0 /\ SumTo(Owing(s), 0) = 0
        /\ \A m \in 0..n : SumTo(c, m) \in Nat
        /\ \A m \in 1..n : SumTo(c, m) = SumTo(c, m - 1) + c[m]
        /\ \A m \in 1..n : SumTo(Owing(s), m) = SumTo(Owing(s), m - 1) + Owing(s)[m]
    BY <1>4, SumToStep
  <1>7. 0 \in P
    BY <1>6
  <1>8. ASSUME NEW m \in Nat, m \in P PROVE m + 1 \in P
    <2>1. SUFFICES ASSUME m + 1 <= n PROVE SumTo(Owing(s), m + 1) = SumTo(c, m + 1) + z * (m + 1)
      OBVIOUS
    <2>2. PICK j \in 1..n : j = m + 1 /\ j - 1 = m
      BY <2>1
    <2>3. /\ SumTo(c, j) = SumTo(c, m) + c[j]
          /\ SumTo(Owing(s), j) = SumTo(Owing(s), m) + (c[j] + z)
          /\ SumTo(Owing(s), m) = SumTo(c, m) + z * m
      BY <1>4, <1>6, <1>8, <2>1, <2>2
    <2>4. PICK a \in Nat, d \in Nat : a = SumTo(c, m) /\ d = c[j]
      <3>1. m \in 0..n
        BY <2>1
      <3>2. QED
        BY <3>1, <1>4, <1>6
    <2>5. z * (m + 1) = z * m + z
      OBVIOUS
    <2>6. PICK e \in Nat : e = z * m
      OBVIOUS
    <2>7. SumTo(Owing(s), j) = SumTo(c, j) + (e + z)
      BY <2>3, <2>4, <2>6
    <2>8. QED
      BY <2>2, <2>5, <2>6, <2>7
  <1>9. \A m \in Nat : m \in P
    <2> HIDE DEF P
    <2> QED
      BY <1>7, <1>8, InductionOnNat
  <1>10. Weight(s) = SumTo(c, n) + z * n
    <2>1. n \in P /\ n <= n
      BY <1>9
    <2>2. SumTo(Owing(s), n) = SumTo(c, n) + z * n
      BY <2>1
    <2>3. QED
      BY <2>2, <1>1 DEF Weight
  <1>11. PICK a \in Nat : a = SumTo(c, n)
    <2>1. n \in 0..n
      OBVIOUS
    <2>2. QED
      BY <2>1, <1>6
  <1>12. TotalOf(s) = a + z * (n - 1)
    BY <1>1, <1>2, <1>3, <1>5, <1>11 DEF TotalOf, Total
  <1>13. PICK e \in Nat : e = z * n
    OBVIOUS
  <1>14. z * (n - 1) = e - z
    BY <1>13
  <1>15. QED
    BY <1>1, <1>2, <1>3, <1>10, <1>11, <1>12, <1>13, <1>14

\* Every piece ends elsewhere: the cut has as many ends as the list has pieces.
LEMMA TilingLength ==
    ASSUME NEW s, Tiles(s, 0, Width)
    PROVE  /\ Cardinality(Ends(s)) = Len(s)
           /\ \A i, j \in 1..Len(s) : s[i].seg[2] = s[j].seg[2] => i = j
  <1>1. PICK n \in Nat \ {0} : n = Len(s)
    BY TilingSegments
  <1>2. PICK C : C = Ends(s)
    OBVIOUS
  <1>3. /\ \A i \in 1..n : s[i] \in Piece
        /\ \A j \in 1..n : \A i \in 1..(j - 1) : s[i].seg[2] < s[j].seg[1]
    BY <1>1, TilesRise
  <1>4. \A i \in 1..n : /\ s[i].seg[1] \in Nat /\ s[i].seg[2] \in Nat
                        /\ s[i].seg[1] <= s[i].seg[2]
    BY <1>3, PieceParts
  <1>5. \A i, j \in 1..n : s[i].seg[2] = s[j].seg[2] => i = j
    <2>1. \A i, j \in 1..n : i = j \/ i \in 1..(j - 1) \/ j \in 1..(i - 1)
      OBVIOUS
    <2>2. \A j \in 1..n : \A i \in 1..(j - 1) : i \in 1..n
      OBVIOUS
    <2>3. \A j \in 1..n : \A i \in 1..(j - 1) : s[i].seg[2] < s[j].seg[2]
      BY <1>3, <1>4, <2>2
    <2>4. QED
      BY <1>4, <2>1, <2>3
  <1>6. Cardinality(C) = n
    <2> DEFINE f == [i \in 1..n |-> s[i].seg[2]]
    <2>1. C = {s[i].seg[2] : i \in 1..n}
      BY <1>1, <1>2 DEF Ends
    <2>2. f \in Bijection(1..n, C)
      <3>1. f \in [1..n -> C]
        BY <2>1
      <3>2. \A a, b \in 1..n : f[a] = f[b] => a = b
        BY <1>5
      <3>3. \A t \in C : \E i \in 1..n : f[i] = t
        BY <2>1
      <3>4. QED
        <4>1. f \in Injection(1..n, C)
          BY ONLY <3>1, <3>2 DEF Injection, IsInjective
        <4>2. f \in Surjection(1..n, C)
          BY ONLY <3>1, <3>3 DEF Surjection
        <4>3. QED
          BY <4>1, <4>2 DEF Bijection
    <2>3. ExistsBijection(1..n, C)
      BY <2>2 DEF ExistsBijection
    <2>4. IsFiniteSet(1..n) /\ Cardinality(1..n) = n
      BY FS_Interval
    <2>5. QED
      BY <2>3, <2>4, FS_Bijection
  <1>7. QED
    BY <1>1, <1>2, <1>5, <1>6

\* A list without gaps of usable pieces is an allowed cut, at the cost of its weight.
LEMMA TilingIsCut ==
    ASSUME OptOK, NEW table \in Tables, NEW s, Tiles(s, 0, Width), FromTable(s, table),
           Forced > 0 => Len(s) = Forced
    PROVE  /\ Ends(s) \in Cuts /\ Allowed(Ends(s), table)
           /\ CostOf(Ends(s), table) = Weight(s) - Penalty
  <1>1. PICK n \in Nat \ {0} : n = Len(s)
    BY TilingSegments
  <1>2. PICK C : C = Ends(s) /\ C \in Cuts /\ SegmentsOf(C) = {s[i].seg : i \in 1..n}
    BY <1>1, TilingSegments
  <1>3. /\ s \in Seq(Piece) /\ \A i \in 1..n : s[i] \in Piece
    BY <1>1, TilesRise DEF Tiles
  <1>4. \A i \in 1..n : /\ s[i].seg \in Segs /\ s[i].cost \in Nat
                        /\ s[i].seg[1] \in Nat /\ s[i].seg[2] \in Nat
                        /\ s[i].seg[1] <= s[i].seg[2]
                        /\ s[i].seg = <<s[i].seg[1], s[i].seg[2]>>
    BY <1>3, PieceParts
  <1>5. \A i, j \in 1..n : s[i].seg[2] = s[j].seg[2] => i = j
    BY <1>1, TilingLength
  <1>6. Cardinality(C) = n
    BY <1>1, <1>2, TilingLength
  <1>7. \A i \in 1..n : Usable(table, s[i].seg[1], s[i].seg[2]) /\ s[i].cost = table[s[i].seg]
    BY <1>1 DEF FromTable
  <1>8. Allowed(C, table)
    <2>1. ASSUME NEW x \in SegmentsOf(C) PROVE WidthOf(x) >= opt.minWidth /\ table[x] < Inf
      <3>1. PICK i \in 1..n : x = s[i].seg
        BY <1>2
      <3>2. x = <<x[1], x[2]>>
        BY <3>1, <1>4
      <3>3. QED
        BY <3>1, <3>2, <1>7 DEF Usable, WidthOf
    <2>2. QED
      BY <2>1, <1>1, <1>6 DEF Allowed
  <1>9. MapThenSumSet(LAMBDA x : table[x], SegmentsOf(C)) = SumTo(CostsOf(s), n)
    <2> DEFINE S == SegmentsOf(C)
               e == [i \in 1..n |-> s[i].seg]
               q == [i \in 1..n |-> table[e[i]]]
    <2>1. Enumerates(e, n, S)
      <3>1. e \in [1..n -> S] /\ \A x \in S : \E i \in 1..n : e[i] = x
        BY <1>2
      <3>2. \A i, j \in 1..n : e[i] = e[j] => i = j
        BY <1>5
      <3>3. QED
        BY <3>1, <3>2 DEF Enumerates
    <2>2. \A x \in S : table[x] \in Nat
      BY SizeAssumption DEF SegmentsOf, Tables
    <2>3. SetSum(table, S) = SumTo(q, n)
      <3>1. n \in Nat
        OBVIOUS
      <3> HIDE DEF S, e
      <3>2. QED
        BY <3>1, <2>1, <2>2, SetSumEnumerates
    <2>4. SumTo(q, n) = SumTo(CostsOf(s), n)
      <3>1. n \in Nat /\ DOMAIN s = 1..n
        BY <1>1, <1>3
      <3>2. \A i \in 1..n : q[i] \in Nat /\ CostsOf(s)[i] = q[i]
        BY <3>1, <1>4, <1>7 DEF CostsOf
      <3>3. QED
        BY ONLY <3>1, <3>2, SumToSame
    <2>5. SetSum(table, S) = MapThenSumSet(LAMBDA x : table[x], S)
      BY SetSumMap
    <2>6. QED
      BY <2>3, <2>4, <2>5
  <1>10. CostOf(C, table) = Weight(s) - Penalty
    <2>1. CostOf(C, table) = SumTo(CostsOf(s), n) + Penalty * (n - 1)
      BY <1>6, <1>9 DEF CostOf, Penalty
    <2>2. QED
      BY <2>1, <1>1, <1>3, WeightTotal
  <1>11. QED
    BY <1>2, <1>8, <1>10

\* One more piece has one more end.
LEMMA EndsGrow ==
    ASSUME OptOK, NEW s \in Seq(Piece), NEW x \in Piece
    PROVE  Ends(Append(s, x)) = Ends(s) \cup {x.seg[2]}
  <1>1. PICK n \in Nat : n = Len(s)
    OBVIOUS
  <1>2. PICK t : t = Append(s, x)
    OBVIOUS
  <1>3. Len(t) = n + 1 /\ t[n + 1] = x /\ \A i \in 1..n : t[i] = s[i]
    BY <1>1, <1>2, PieceBehind
  <1>4. \A i : i \in 1..(n + 1) <=> (i \in 1..n \/ i = n + 1)
    OBVIOUS
  <1>5. Ends(t) = {t[i].seg[2] : i \in 1..(n + 1)} /\ Ends(s) = {s[i].seg[2] : i \in 1..n}
    BY <1>1, <1>3 DEF Ends
  <1>6. {t[i].seg[2] : i \in 1..(n + 1)} = {s[i].seg[2] : i \in 1..n} \cup {x.seg[2]}
    BY <1>3, <1>4
  <1>7. QED
    BY <1>2, <1>5, <1>6

\* An allowed cut has a list without gaps of usable pieces.
LEMMA CutHasTiling ==
    ASSUME OptOK, NEW table \in Tables, NEW c \in Cuts, Allowed(c, table)
    PROVE  \E s : Tiles(s, 0, Width) /\ FromTable(s, table) /\ Ends(s) = c
  <1>0. Width \in Nat /\ Width # 0 /\ Inf \in Nat
    BY SizeAssumption
  <1>1. c \subseteq 0..(Width - 1) /\ Width - 1 \in c
    BY DEF Cuts
  <1> DEFINE P == {i \in Nat : i <= Width /\ (i = 0 \/ i - 1 \in c) =>
                      \E s : /\ Tiles(s, 0, i) /\ FromTable(s, table)
                             /\ Ends(s) = {b \in c : b < i}}
  <1>2. ASSUME NEW i \in Nat, \A j \in Nat : j < i => j \in P PROVE i \in P
    <2>1. SUFFICES ASSUME i <= Width, i = 0 \/ i - 1 \in c
                   PROVE  \E s : /\ Tiles(s, 0, i) /\ FromTable(s, table)
                                 /\ Ends(s) = {b \in c : b < i}
      OBVIOUS
    <2>2. CASE i = 0
      <3>1. Tiles(<<>>, 0, i) /\ FromTable(<<>>, table) /\ Len(<<>>) = 0
        BY <2>2, NoPieces
      <3>2. {b \in c : b < i} = {}
        <4>1. \A b \in c : ~(b < 0)
          BY <1>0, <1>1
        <4>2. QED
          BY <4>1, <2>2
      <3>3. Ends(<<>>) = {}
        BY <3>1 DEF Ends
      <3>4. QED
        BY <3>1, <3>2, <3>3
    <2>3. CASE i # 0
      <3>1. PICK e \in Nat : e = i - 1 /\ e + 1 = i /\ e \in c /\ e < Width
        BY <1>0, <2>1, <2>3
      <3> DEFINE T == {j \in 0..e : \A b \in j..(e - 1) : b \notin c}
      <3>2. T \subseteq Nat /\ e \in T
        OBVIOUS
      <3>3. PICK j \in T : \A m \in T : j <= m
        <4> HIDE DEF T
        <4> QED
          BY <3>2, LeastNatural
      <3>4. j \in 0..e /\ \A b \in j..(e - 1) : b \notin c
        OBVIOUS
      <3>5. j = 0 \/ j - 1 \in c
        <4>1. SUFFICES ASSUME j # 0, j - 1 \notin c PROVE FALSE
          OBVIOUS
        <4>2. j - 1 \in 0..e
          BY <3>4, <4>1
        <4>3. \A b \in (j - 1)..(e - 1) : b = j - 1 \/ b \in j..(e - 1)
          BY <3>4
        <4>4. j - 1 \in T
          BY <4>1, <4>2, <4>3, <3>4
        <4>5. QED
          BY <4>4, <3>3, <3>4
      <3> HIDE DEF T
      <3>6. j \in Nat /\ j < i /\ j <= Width /\ j <= e
        BY <1>0, <2>1, <3>1, <3>4
      <3>7. PICK s : Tiles(s, 0, j) /\ FromTable(s, table) /\ Ends(s) = {b \in c : b < j}
        <4>1. j \in P
          BY <1>2, <3>6
        <4>2. QED
          BY <4>1, <3>5, <3>6
      <3>8. <<j, e>> \in SegmentsOf(c)
        <4>1. <<j, e>> \in Segs
          BY <3>1, <3>6, SegmentBetween
        <4>2. QED
          BY <4>1, <3>1, <3>4, <3>5 DEF SegmentsOf
      <3>9. Usable(table, j, e)
        BY <3>8 DEF Allowed, Usable, WidthOf
      <3>10. PICK x \in Piece : /\ Fits(x, table) /\ x.seg[1] = j /\ x.seg[2] = e
        <4>1. PICK l \in Nat : l = j /\ l <= e /\ e < Width /\ Usable(table, l, e)
          BY <3>1, <3>6, <3>9
        <4>2. /\ Chosen(table, l, e) \in Piece /\ Fits(Chosen(table, l, e), table)
              /\ Chosen(table, l, e).seg[1] = l /\ Chosen(table, l, e).seg[2] = e
              /\ Chosen(table, l, e).cost = table[<<l, e>>]
          BY <4>1, ChosenFits
        <4>3. QED
          BY <4>1, <4>2
      <3>11. Tiles(Append(s, x), 0, i) /\ FromTable(Append(s, x), table)
        BY <3>1, <3>7, <3>10, TilesGrow
      <3>12. Ends(Append(s, x)) = {b \in c : b < j} \cup {e}
        <4>1. s \in Seq(Piece)
          BY <3>7 DEF Tiles
        <4>2. QED
          BY <4>1, <3>7, <3>10, EndsGrow
      <3>13. {b \in c : b < j} \cup {e} = {b \in c : b < i}
        <4>1. ASSUME NEW b \in c, b < i PROVE b < j \/ b = e
          <5>1. b \in Nat
            BY <1>1, <1>0
          <5>2. b \notin j..(e - 1)
            BY <3>4
          <5>3. QED
            BY <5>1, <5>2, <4>1, <3>1, <3>6
        <4>2. ASSUME NEW b \in c, b < j \/ b = e PROVE b < i
          <5>1. b \in Nat
            BY <1>1, <1>0
          <5>2. QED
            BY <5>1, <4>2, <3>1, <3>6
        <4>3. QED
          BY <4>1, <4>2, <3>1
      <3>14. QED
        BY <3>11, <3>12, <3>13
    <2>4. QED
      BY <2>2, <2>3
  <1>3. \A i \in Nat : i \in P
    <2> HIDE DEF P
    <2> QED
      BY <1>2, StrongInduction
  <1>4. PICK s : Tiles(s, 0, Width) /\ FromTable(s, table) /\ Ends(s) = {b \in c : b < Width}
    <2>1. Width \in P /\ Width <= Width
      BY <1>0, <1>3
    <2>2. QED
      BY <2>1, <1>1
  <1>5. {b \in c : b < Width} = c
    <2>1. \A b \in c : b < Width
      BY <1>0, <1>1
    <2>2. QED
      BY <2>1
  <1>6. QED
    BY <1>4, <1>5

\* An optimal plan costs as little as any allowed cut.
LEMMA OptimalIsLeast ==
    ASSUME OptOK, NEW table \in Tables, NEW p, Optimal(p, table)
    PROVE  p.total = LeastCost(table)
  <1>0. Inf \in Nat
    BY SizeAssumption
  <1>1. PICK T : T = {CostOf(c, table) : c \in {x \in Cuts : Allowed(x, table)}} \cup {Inf}
    OBVIOUS
  <1>2. PICK a \in Nat : a = p.total /\ a <= Inf
    BY DEF Optimal
  <1>3. PICK z \in Nat : z = Penalty
    BY OwedIsNat
  <1>4. ASSUME NEW c \in Cuts, Allowed(c, table)
        PROVE  CostOf(c, table) \in Int /\ a <= CostOf(c, table)
    <2>1. PICK s : Tiles(s, 0, Width) /\ FromTable(s, table) /\ Ends(s) = c
      BY <1>4, CutHasTiling
    <2>2. PICK n \in Nat \ {0} : n = Len(s)
      BY <2>1, TilingSegments
    <2>3. Forced > 0 => Len(s) = Forced
      <3>1. Forced > 0 => Cardinality(c) = Forced
        BY <1>4 DEF Allowed
      <3>2. Cardinality(c) = n
        BY <2>1, <2>2, TilingLength
      <3>3. QED
        BY <3>1, <3>2, <2>2
    <2>4. CostOf(c, table) = Weight(s) - z
      BY <2>1, <2>3, <1>3, TilingIsCut
    <2>5. Weight(s) \in Nat
      BY <2>1, WeightIsNat DEF Tiles
    <2>6. a + z <= Weight(s)
      BY <2>1, <2>3, <1>2, <1>3 DEF Optimal
    <2>7. QED
      BY <2>4, <2>5, <2>6
  <1>5. a \in T
    <2>1. CASE a = Inf
      BY <2>1, <1>1
    <2>2. CASE a # Inf
      <3>1. p.total < Inf
        BY <2>2, <1>0, <1>2
      <3>2. /\ Tiles(p.segs, 0, Width) /\ FromTable(p.segs, table)
            /\ Weight(p.segs) = a + z
            /\ Forced > 0 => Len(p.segs) = Forced
        BY <3>1, <1>2, <1>3 DEF Optimal
      <3>3. /\ Ends(p.segs) \in Cuts /\ Allowed(Ends(p.segs), table)
            /\ CostOf(Ends(p.segs), table) = Weight(p.segs) - z
        BY <3>2, <1>3, TilingIsCut
      <3>4. Weight(p.segs) - z = a
        BY <3>2
      <3>5. QED
        BY <3>3, <3>4, <1>1
    <2>3. QED
      BY <2>1, <2>2
  <1>6. \A y \in T : y \in Int /\ a <= y
    BY <1>0, <1>1, <1>2, <1>4
  <1>7. Min(T) = a
    <2>1. PICK m : m = Min(T)
      OBVIOUS
    <2>2. m \in T /\ \A y \in T : m <= y
      BY <2>1, <1>5, <1>6 DEF Min
    <2>3. QED
      BY <2>1, <2>2, <1>5, <1>6
  <1>8. QED
    BY <1>1, <1>2, <1>7 DEF LeastCost

-----------------------------------------------------------------------------
(* The encoder: the segments are in the order of the sections already.     *)

\* A list without gaps has at most as many pieces as there are bits.
LEMMA TilingShort ==
    ASSUME NEW s, Tiles(s, 0, Width)
    PROVE  Len(s) \in Nat /\ Len(s) <= Width
  <1>0. Width \in Nat
    BY SizeAssumption
  <1>1. PICK n \in Nat \ {0} : n = Len(s)
    BY TilingSegments
  <1>2. Cardinality(Ends(s)) = n /\ Ends(s) \in SUBSET (0..(Width - 1))
    BY <1>1, TilingSegments, TilingLength DEF Cuts
  <1>3. IsFiniteSet(0..(Width - 1)) /\ Cardinality(0..(Width - 1)) <= Width
    <2>1. 0 \in Int /\ Width - 1 \in Int
      BY <1>0
    <2>2. /\ IsFiniteSet(0..(Width - 1))
          /\ Cardinality(0..(Width - 1)) = IF 0 > Width - 1 THEN 0 ELSE (Width - 1) - 0 + 1
      BY <2>1, FS_Interval
    <2>3. QED
      BY <2>2, <1>0
  <1>4. Cardinality(Ends(s)) <= Cardinality(0..(Width - 1))
    BY <1>2, <1>3, FS_Subset
  <1>5. Cardinality(0..(Width - 1)) \in Nat
    BY <1>3, FS_CardinalityType
  <1>6. QED
    BY <1>0, <1>1, <1>2, <1>3, <1>4, <1>5

\* The ends of the segment that the encoder makes of a piece.
LEMMA SegmentsAre ==
    ASSUME OptOK, NEW s, s = plan.segs, Tiles(s, 0, Width), NEW n, n = Len(s)
    PROVE  /\ n \in Nat \ {0} /\ DOMAIN Segments = 1..n /\ Len(Segments) = n
           /\ Segments = [i \in 1..n |-> Segments[i]]
           /\ \A i \in 1..n :
                 Segments[i] = IF Mirrored THEN <<Width - 1 - s[i].seg[2], Width - 1 - s[i].seg[1]>>
                               ELSE <<s[i].seg[1], s[i].seg[2]>>
           /\ Order = "MSB_TO_LSB" <=> Mirrored
  <1>1. n \in Nat \ {0} /\ s \in Seq(Piece)
    BY TilingSegments DEF Tiles
  <1>2. DOMAIN Segments = 1..n /\ Segments = [i \in 1..n |-> Remapped(s[i].seg)]
    BY <1>1 DEF Segments
  <1>3. Len(Segments) = n
    BY <1>1, <1>2
  <1>4. \A i \in 1..n : s[i] \in Piece
    BY <1>1
  <1>5. \A i \in 1..n :
           Segments[i] = IF Mirrored THEN <<Width - 1 - s[i].seg[2], Width - 1 - s[i].seg[1]>>
                         ELSE <<s[i].seg[1], s[i].seg[2]>>
    BY <1>2, <1>4, PieceParts DEF Remapped
  <1>6. ASSUME ~Mirrored, opt.order = "none" PROVE InferredOrder = "LSB_TO_MSB"
    <2>1. ASSUME NEW i \in 2..n PROVE Segments[i][1] >= Segments[i - 1][1]
      <3>1. PICK j \in 1..(i - 1) : j = i - 1 /\ j \in 1..n /\ i \in 1..n
        OBVIOUS
      <3>2. s[j].seg[2] < s[i].seg[1]
        BY <3>1, TilesRise
      <3>3. Segments[i][1] = s[i].seg[1] /\ Segments[j][1] = s[j].seg[1]
        BY <3>1, <1>5, <1>6
      <3>4. s[i] \in Piece /\ s[j] \in Piece
        BY <3>1, <1>4
      <3>5. Segments[j][1] <= Segments[i][1]
        <4>1. /\ s[j].seg[1] \in Nat /\ s[j].seg[2] \in Nat /\ s[i].seg[1] \in Nat
              /\ s[j].seg[1] <= s[j].seg[2]
          BY <3>4, PieceParts
        <4>2. PICK a \in Nat, b \in Nat, c \in Nat :
                 a = s[j].seg[1] /\ b = s[j].seg[2] /\ c = s[i].seg[1]
          BY <4>1
        <4>3. a <= b /\ b < c
          BY <3>2, <4>1, <4>2
        <4>4. a <= c
          BY ONLY <4>3, a \in Nat, b \in Nat, c \in Nat
        <4>5. QED
          BY <3>3, <4>2, <4>4
      <3>6. QED
        BY <3>1, <3>3, <3>4, <3>5, PieceParts
    <2>2. QED
      BY <2>1, <1>3 DEF InferredOrder
  <1>7. Order = "MSB_TO_LSB" <=> Mirrored
    BY <1>6 DEF Order, Mirrored, OptOK
  <1>8. QED
    BY <1>1, <1>2, <1>3, <1>5, <1>7

\* Sorting them changes nothing, and they meet in the order of the sections.
LEMMA SegmentsSorted ==
    ASSUME OptOK, NEW s, s = plan.segs, Tiles(s, 0, Width)
    PROVE  Sorted(Segments) = Segments /\ Contiguous(Segments)
  <1>0. Width \in Nat
    BY SizeAssumption
  <1>1. PICK n \in Nat \ {0} : n = Len(s)
    BY TilingSegments
  <1>2. PICK g : g = Segments
    OBVIOUS
  <1>3. /\ DOMAIN g = 1..n /\ Len(g) = n /\ g = [i \in 1..n |-> g[i]]
        /\ \A i \in 1..n :
              g[i] = IF Mirrored THEN <<Width - 1 - s[i].seg[2], Width - 1 - s[i].seg[1]>>
                     ELSE <<s[i].seg[1], s[i].seg[2]>>
        /\ Order = "MSB_TO_LSB" <=> Mirrored
    BY <1>1, <1>2, SegmentsAre
  <1>4. /\ \A i \in 1..n : s[i] \in Piece
        /\ \A j \in 1..n : \A i \in 1..(j - 1) : s[i].seg[2] < s[j].seg[1]
    BY <1>1, TilesRise
  <1>5. \A i \in 1..n : /\ s[i].seg[1] \in Nat /\ s[i].seg[2] \in Nat
                        /\ s[i].seg[1] <= s[i].seg[2]
    BY <1>4, PieceParts
  <1>6. ASSUME NEW i \in 1..n, NEW j \in 1..n, i < j
        PROVE  InOrder(g[i], g[j]) /\ ~InOrder(g[j], g[i])
    <2>1. i \in 1..(j - 1)
      BY <1>6
    <2>2. s[i].seg[2] < s[j].seg[1]
      BY <2>1, <1>4
    <2>3. CASE Mirrored
      <3>1. g[i][1] = Width - 1 - s[i].seg[2] /\ g[j][1] = Width - 1 - s[j].seg[2]
        BY <2>3, <1>3
      <3>2. g[i][1] > g[j][1] /\ ~(g[j][1] > g[i][1])
        BY <3>1, <2>2, <1>0, <1>5
      <3>3. QED
        BY <2>3, <3>2, <1>3 DEF InOrder
    <2>4. CASE ~Mirrored
      <3>1. g[i][1] = s[i].seg[1] /\ g[j][1] = s[j].seg[1]
        BY <2>4, <1>3
      <3>2. g[i][1] < g[j][1] /\ ~(g[j][1] < g[i][1])
        BY <3>1, <2>2, <1>5
      <3>3. QED
        BY <2>4, <3>2, <1>3 DEF InOrder
    <2>5. QED
      BY <2>3, <2>4
  <1> DEFINE Orders(p) == /\ p \in [1..n -> 1..n]
                          /\ \A i \in 1..n : \E j \in 1..n : p[j] = i
                          /\ \A i, j \in 1..n : i < j => ~InOrder(g[p[j]], g[p[i]])
  <1>7. ASSUME NEW p, Orders(p) PROVE p = [i \in 1..n |-> i]
    <2>1. p \in [1..n -> 1..n] /\ n \in Nat
      BY <1>7
    <2>2. ASSUME NEW i \in 1..n, NEW j \in 1..n, i < j PROVE p[i] <= p[j]
      <3>1. p[i] \in 1..n /\ p[j] \in 1..n /\ ~InOrder(g[p[j]], g[p[i]])
        BY <1>7, <2>1, <2>2
      <3>2. ~(p[j] < p[i])
        BY <3>1, <1>6
      <3>3. QED
        BY <3>1, <3>2
    <2>3. \A i \in 1..n : \E j \in 1..n : p[j] = i
      BY <1>7
    <2>4. \A i \in 1..n : p[i] = i
      BY ONLY <2>1, <2>2, <2>3, RisingOnto
    <2>5. QED
      BY <2>1, <2>4
  <1>8. Orders([i \in 1..n |-> i])
    BY <1>6
  <1>9. Sorted(g) = g
    <2>1. PICK p : p = CHOOSE q \in [DOMAIN g -> DOMAIN g] :
                    /\ \A i \in DOMAIN g : \E j \in DOMAIN g : q[j] = i
                    /\ \A i, j \in DOMAIN g : i < j => ~InOrder(g[q[j]], g[q[i]])
      OBVIOUS
    <2>2. Orders(p)
      <3>1. DOMAIN g = 1..n
        BY <1>3
      <3>2. p = CHOOSE q \in [1..n -> 1..n] :
                    /\ \A i \in 1..n : \E j \in 1..n : q[j] = i
                    /\ \A i, j \in 1..n : i < j => ~InOrder(g[q[j]], g[q[i]])
        BY ONLY <2>1, <3>1
      <3>3. QED
        BY ONLY <3>2, <1>8
    <2>3. p = [i \in 1..n |-> i]
      <3> HIDE DEF Orders
      <3> QED
        BY <2>2, <1>7
    <2>4. Sorted(g) = [i \in DOMAIN g |-> g[p[i]]]
      BY <2>1 DEF Sorted
    <2>5. Sorted(g) = [i \in 1..n |-> g[i]]
      BY <2>3, <2>4, <1>3
    <2>6. QED
      BY <2>5, <1>3
  <1>10. /\ s[1].seg[1] = 0 /\ s[n].seg[2] = Width - 1
         /\ \A i \in 2..n : s[i].seg[1] = s[i - 1].seg[2] + 1
    <2>1. n > 0 /\ n \in 1..n
      OBVIOUS
    <2>2. s[1].seg[1] = 0 /\ s[n].seg[2] + 1 = Width
      BY <2>1, <1>1 DEF Tiles
    <2>3. ASSUME NEW i \in 2..n PROVE s[i].seg[1] = s[i - 1].seg[2] + 1
      <3>1. PICK j \in 1..(n - 1) : j = i - 1 /\ j + 1 = i
        <4>1. i - 1 \in 1..(n - 1) /\ (i - 1) + 1 = i
          OBVIOUS
        <4>2. QED
          BY <4>1
      <3>2. s[j + 1].seg[1] = s[j].seg[2] + 1
        BY <1>1 DEF Tiles
      <3>3. QED
        BY <3>1, <3>2
    <2>4. QED
      BY <2>1, <2>2, <2>3, <1>0, <1>5
  <1>11. Contiguous(g)
    <2>1. 1 \in 1..n /\ n \in 1..n /\ \A i \in 2..n : i \in 1..n /\ i - 1 \in 1..n
      OBVIOUS
    <2>2. CASE Mirrored
      <3>1. g[1][2] = Width - 1 /\ g[n][1] = 0
        BY <2>1, <2>2, <1>0, <1>3, <1>10
      <3>2. ASSUME NEW i \in 2..n PROVE g[i][2] = g[i - 1][1] - 1
        <4>1. PICK j \in 1..n : j = i - 1
          BY <2>1
        <4>2. g[i][2] = Width - 1 - s[i].seg[1] /\ g[j][1] = Width - 1 - s[j].seg[2]
          BY <2>1, <2>2, <1>3
        <4>3. s[i].seg[1] = s[j].seg[2] + 1 /\ s[j].seg[2] \in Nat
          BY <4>1, <1>5, <1>10
        <4>4. QED
          BY <4>1, <4>2, <4>3, <1>0
      <3>3. QED
        BY <2>2, <3>1, <3>2, <1>3 DEF Contiguous
    <2>3. CASE ~Mirrored
      <3>1. g[1][1] = 0 /\ g[n][2] = Width - 1
        BY <2>1, <2>3, <1>3, <1>10
      <3>2. ASSUME NEW i \in 2..n PROVE g[i][1] = g[i - 1][2] + 1
        <4>1. PICK j \in 1..n : j = i - 1 /\ i \in 1..n
          BY <2>1
        <4>2. g[i][1] = s[i].seg[1] /\ g[j][2] = s[j].seg[2]
          BY <4>1, <2>3, <1>3
        <4>3. s[i].seg[1] = s[j].seg[2] + 1
          BY <4>1, <1>10
        <4>4. QED
          BY <4>1, <4>2, <4>3
      <3>3. QED
        BY <2>3, <3>1, <3>2, <1>3 DEF Contiguous
    <2>4. QED
      BY <2>2, <2>3
  <1>12. QED
    BY <1>2, <1>9, <1>11

\* The widths add up to where each segment lies.
LEMMA SegmentsTaken ==
    ASSUME OptOK, NEW s, s = plan.segs, Tiles(s, 0, Width),
           NEW bits, bits = [i \in DOMAIN Segments |-> WidthOf(Segments[i])]
    PROVE  /\ bits \in Seq(1..Width) /\ DOMAIN bits = DOMAIN Segments
           /\ \A i \in DOMAIN bits :
                 IF Order = "MSB_TO_LSB"
                 THEN Segments[i] = <<Width - SumTo(bits, i), Width - SumTo(bits, i - 1) - 1>>
                 ELSE Segments[i] = <<SumTo(bits, i - 1), SumTo(bits, i) - 1>>
  <1>0. Width \in Nat
    BY SizeAssumption
  <1>1. PICK n \in Nat \ {0} : n = Len(s)
    BY TilingSegments
  <1>2. /\ DOMAIN Segments = 1..n
        /\ \A i \in 1..n :
              Segments[i] = IF Mirrored THEN <<Width - 1 - s[i].seg[2], Width - 1 - s[i].seg[1]>>
                            ELSE <<s[i].seg[1], s[i].seg[2]>>
        /\ Order = "MSB_TO_LSB" <=> Mirrored
    BY <1>1, SegmentsAre
  <1>3. \A i \in 1..n : s[i] \in Piece
    BY <1>1, TilesRise
  <1>4. \A i \in 1..n : /\ s[i].seg[1] \in Nat /\ s[i].seg[2] \in Nat
                        /\ s[i].seg[1] <= s[i].seg[2] /\ s[i].seg[2] < Width
    BY <1>3, PieceParts
  <1>5. ASSUME NEW i \in 1..n
        PROVE  bits[i] = s[i].seg[2] - s[i].seg[1] + 1 /\ bits[i] \in 1..Width /\ bits[i] \in Nat
    <2>1. PICK a \in Nat, b \in Nat : a = s[i].seg[1] /\ b = s[i].seg[2] /\ a <= b /\ b < Width
      BY <1>4
    <2>2. WidthOf(Segments[i]) = b - a + 1
      <3>1. CASE Mirrored
        <4>1. Segments[i] = <<Width - 1 - b, Width - 1 - a>>
          BY <3>1, <2>1, <1>2
        <4>2. WidthOf(Segments[i]) = (Width - 1 - a) - (Width - 1 - b) + 1
          BY <4>1 DEF WidthOf
        <4>3. QED
          BY <4>2, <1>0
      <3>2. CASE ~Mirrored
        <4>1. Segments[i] = <<a, b>>
          BY <3>2, <2>1, <1>2
        <4>2. QED
          BY <4>1 DEF WidthOf
      <3>3. QED
        BY <3>1, <3>2
    <2>3. bits[i] = b - a + 1
      BY <2>2, <1>2
    <2>4. QED
      BY <2>1, <2>3, <1>0
  <1>6. bits \in Seq(1..Width) /\ DOMAIN bits = 1..n
    <2>1. bits = [i \in 1..n |-> bits[i]]
      BY <1>2
    <2>2. QED
      BY <2>1, <1>5
  <1> DEFINE P == {i \in Nat : i \in 1..n => /\ SumTo(bits, i - 1) = s[i].seg[1]
                                             /\ SumTo(bits, i) = s[i].seg[2] + 1}
  <1>7. /\ SumTo(bits, 0) = 0
        /\ \A i \in 1..n : SumTo(bits, i) = SumTo(bits, i - 1) + bits[i]
    BY <1>5, SumToStep
  <1>8. 0 \in P
    OBVIOUS
  <1>9. ASSUME NEW i \in Nat, i \in P PROVE i + 1 \in P
    <2>1. SUFFICES ASSUME i + 1 \in 1..n
                   PROVE  /\ SumTo(bits, (i + 1) - 1) = s[i + 1].seg[1]
                          /\ SumTo(bits, i + 1) = s[i + 1].seg[2] + 1
      OBVIOUS
    <2>2. PICK j \in 1..n : j = i + 1 /\ j - 1 = i
      BY <2>1
    <2>3. SumTo(bits, i) = s[j].seg[1]
      <3>1. CASE i = 0
        <4>1. s[1].seg[1] = 0
          BY <1>1 DEF Tiles
        <4>2. QED
          BY <3>1, <4>1, <2>2, <1>7
      <3>2. CASE i # 0
        <4>1. i \in 1..(n - 1) /\ i \in 1..n
          BY <2>1, <3>2
        <4>2. SumTo(bits, i) = s[i].seg[2] + 1
          BY <4>1, <1>9
        <4>3. s[i + 1].seg[1] = s[i].seg[2] + 1
          BY <4>1, <1>1 DEF Tiles
        <4>4. QED
          BY <4>2, <4>3, <2>2
      <3>3. QED
        BY <3>1, <3>2
    <2>4. SumTo(bits, j) = SumTo(bits, i) + bits[j]
      BY <2>2, <1>7
    <2>5. SumTo(bits, j) = s[j].seg[2] + 1
      BY <2>3, <2>4, <1>4, <1>5
    <2>6. QED
      BY <2>2, <2>3, <2>5
  <1>10. \A i \in Nat : i \in P
    <2> HIDE DEF P
    <2> QED
      BY <1>8, <1>9, InductionOnNat
  <1>11. ASSUME NEW i \in 1..n
         PROVE  IF Mirrored
                THEN Segments[i] = <<Width - SumTo(bits, i), Width - SumTo(bits, i - 1) - 1>>
                ELSE Segments[i] = <<SumTo(bits, i - 1), SumTo(bits, i) - 1>>
    <2>1. i \in P
      <3>1. i \in Nat
        OBVIOUS
      <3>2. QED
        BY <3>1, <1>10
    <2>2. SumTo(bits, i - 1) = s[i].seg[1] /\ SumTo(bits, i) = s[i].seg[2] + 1
      BY <2>1
    <2>3. PICK a \in Nat, b \in Nat : a = s[i].seg[1] /\ b = s[i].seg[2]
      BY <1>4
    <2>4. Width - (b + 1) = Width - 1 - b /\ Width - a - 1 = Width - 1 - a /\ (b + 1) - 1 = b
      BY <1>0
    <2>5. QED
      BY <2>2, <2>3, <2>4, <1>2
  <1>12. QED
    BY <1>2, <1>6, <1>11

-----------------------------------------------------------------------------
(* The invariant of the selector.                                          *)

\* The configuration and what the models say of the sample.
InputsOK == OptOK /\ plain \in [Segs -> 0..Inf] /\ saved \in [Segs -> Nat]

\* Where select may be.
PhaseOK ==
    /\ pc \in {"fill", "search", "check", "merge", "selected", "configured", "threw"}
    /\ merged \in BOOLEAN

\* A plan has no gaps, and costs no more than its total; what it costs, outside the
\* merge phase.
PlanOK ==
    /\ plan.segs \in Seq(Piece) /\ plan.total \in 0..Inf
    /\ plan.segs # <<>> =>
          /\ Tiles(plan.segs, 0, Width) /\ plan.total < Inf
          /\ Weight(plan.segs) <= plan.total + Penalty
          /\ pc # "merge" => Weight(plan.segs) = plan.total + Penalty

\* The table is the one that was asked for, and the plan is the best of it.
SearchOK ==
    /\ best \in Tables
    /\ pc = "fill" \/ pc = "search" => plan = NoPlan
    /\ pc = "search" => best = Table(opt.prune)
    /\ pc = "check" => best = Table(opt.prune) /\ Optimal(plan, best)
    /\ pc = "selected" /\ Degenerate /\ ~opt.merge => Optimal(plan, Table(FALSE))

\* Where the piece that the merge phase looks at next begins.
StartOf(i) == IF i <= Len(plan.segs) THEN plan.segs[i].seg[1] ELSE Width

\* What is merged so far covers the pieces that were looked at, for no more.
MergeOK ==
    /\ pc # "merge" => at = 1 /\ merging = <<>> /\ merged = FALSE
    /\ pc = "merge" =>
          /\ opt.merge /\ plan.segs # <<>> /\ at \in 1..(Len(plan.segs) + 1)
          /\ Tiles(merging, 0, StartOf(at))
          /\ Weight(merging) <= SumTo(Owing(plan.segs), at - 1)

\* The configuration is that of the segments.
ConfigOK ==
    /\ pc # "configured" => config = NoConfig
    /\ pc = "threw" => plan.segs = <<>> \/ \E i \in DOMAIN plan.segs : ~plan.segs[i].built
    /\ pc = "configured" =>
          /\ plan.segs # <<>> /\ config.order = Order
          /\ config.bits = [i \in DOMAIN Segments |-> WidthOf(Segments[i])]

\* The inductive invariant of the selector.
SelectorInv == InputsOK /\ PhaseOK /\ PlanOK /\ SearchOK /\ MergeOK /\ ConfigOK

\* What depends on the inputs alone does not change.
LEMMA SameInputs ==
    ASSUME UNCHANGED inputs
    PROVE  /\ opt' = opt /\ plain' = plain /\ saved' = saved
           /\ Penalty' = Penalty
           /\ InputsOK => InputsOK'
           /\ \A s : Owing(s)' = Owing(s)
           /\ \A s : Weight(s)' = Weight(s)
           /\ \A p, t : Optimal(p, t) => Optimal(p, t)'
           /\ \A b : Table(b)' = Table(b)
           /\ uncased' = uncased
  <1>1. /\ opt' = opt /\ plain' = plain /\ saved' = saved /\ noisy' = noisy /\ spread' = spread
        /\ uncased' = uncased /\ tied' = tied
    BY DEF inputs
  <1>2. Penalty' = Penalty /\ (InputsOK => InputsOK')
    BY <1>1 DEF Penalty, InputsOK, OptOK
  <1>3. \A s : Owing(s)' = Owing(s)
    BY <1>2 DEF Owing
  <1>4. \A s : Weight(s)' = Weight(s)
    BY <1>3 DEF Weight
  <1>5. \A p, t : Optimal(p, t) => Optimal(p, t)'
    <2>1. Forced' = Forced
      BY <1>1 DEF Forced
    <2>2. \A s, t : FromTable(s, t)' <=> FromTable(s, t)
      <3>1. \A x : Buildable(x)' <=> Buildable(x)
        BY <1>1 DEF Buildable, Reordered, HasCase, Cheapest
      <3>2. QED
        BY <3>1, <1>1 DEF FromTable, Usable
    <2>3. QED
      BY <1>2, <1>4, <2>1, <2>2 DEF Optimal
  <1>6. \A b : Table(b)' = Table(b)
    BY <1>1 DEF Table, Pruned, Cheapest
  <1>7. QED
    BY <1>1, <1>2, <1>3, <1>4, <1>5, <1>6

\* Nor does what the encoder makes of a plan that stays.
LEMMA SameSegments ==
    ASSUME UNCHANGED inputs, UNCHANGED plan
    PROVE  Segments' = Segments /\ Order' = Order
  BY DEF inputs, InferredOrder, Segments, Remapped, Mirrored, Order

\* The tables of the selector hold costs up to the infinite one.
LEMMA TableTyped ==
    ASSUME InputsOK
    PROVE  \A b : Table(b) \in Tables
  <1>1. ASSUME NEW s \in Segs PROVE Cheapest(s) \in 0..Inf
    <2>1. PICK a \in 0..Inf, c \in Nat : a = plain[s] /\ c = saved[s]
      BY DEF InputsOK
    <2>2. Cheapest(s) = IF a >= Inf \/ c > a THEN a ELSE a - c
      BY <2>1 DEF Cheapest
    <2>3. QED
      BY <2>2, SizeAssumption
  <1>2. Inf \in 0..Inf
    BY SizeAssumption
  <1>3. QED
    BY <1>1, <1>2 DEF Table, Tables

\* An optimal plan is one the selector may hold.
LEMMA OptimalPlan ==
    ASSUME NEW p, NEW table, Optimal(p, table)
    PROVE  /\ p.segs \in Seq(Piece) /\ p.total \in 0..Inf
           /\ p.segs # <<>> => /\ Tiles(p.segs, 0, Width) /\ p.total < Inf
                               /\ Weight(p.segs) = p.total + Penalty
  <1>1. Inf \in Nat
    BY SizeAssumption
  <1>2. p.total \in Nat /\ p.total <= Inf
    BY DEF Optimal
  <1>3. CASE p.total >= Inf
    <2>1. p.segs = <<>>
      BY <1>3 DEF Optimal
    <2>2. QED
      BY <2>1, <1>1, <1>2
  <1>4. CASE p.total < Inf
    <2>1. Tiles(p.segs, 0, Width) /\ Weight(p.segs) = p.total + Penalty
      BY <1>4 DEF Optimal
    <2>2. QED
      BY <2>1, <1>1, <1>2, <1>4 DEF Tiles
  <1>5. QED
    BY <1>1, <1>2, <1>3, <1>4

\* The invariant holds when select is called.
LEMMA SelectorStarts ==
    ASSUME Init
    PROVE  SelectorInv
  <1>1. InputsOK
    <2>1. PICK f \in Families : opt \in f.opts /\ plain \in f.plains /\ saved \in f.saveds
      BY DEF Init
    <2>2. f.plains \subseteq [Segs -> 0..Inf] /\ f.saveds \subseteq [Segs -> Nat]
      BY FamiliesAssumption
    <2>3. /\ opt.minWidth \in Nat \ {0} /\ opt.penalty \in Nat /\ opt.forced \in Nat
          /\ {opt.exhaustive, opt.prune, opt.merge} \subseteq BOOLEAN
          /\ opt.order \in {"none", "LSB_TO_MSB", "MSB_TO_LSB"}
      BY <2>1, FamiliesAssumption
    <2>4. QED
      BY <2>1, <2>2, <2>3 DEF InputsOK, OptOK
  <1>2. plan = NoPlan /\ plan.segs = <<>> /\ plan.total = Inf
    BY DEF Init, NoPlan
  <1>3. PhaseOK /\ MergeOK /\ ConfigOK
    BY DEF Init, PhaseOK, MergeOK, ConfigOK
  <1>4. PlanOK
    BY <1>2, SizeAssumption DEF PlanOK
  <1>5. SearchOK
    BY <1>2, SizeAssumption DEF Init, SearchOK, Tables
  <1>6. QED
    BY <1>1, <1>3, <1>4, <1>5 DEF SelectorInv

\* Filling the table keeps it: the table is the one that pruning asks for.
LEMMA FillKeeps ==
    ASSUME SelectorInv, Fill
    PROVE  SelectorInv'
  <1>1. /\ pc = "fill" /\ pc' = "search" /\ best' = Table(opt.prune)
        /\ UNCHANGED inputs /\ plan' = plan /\ at' = at /\ merging' = merging /\ merged' = merged
        /\ config' = config
    BY DEF Fill, phase
  <1>2. /\ opt' = opt /\ InputsOK' /\ Penalty' = Penalty
        /\ \A s : Weight(s)' = Weight(s)
        /\ \A b : Table(b)' = Table(b)
    BY <1>1, SameInputs DEF SelectorInv
  <1>3. PhaseOK' /\ MergeOK' /\ ConfigOK'
    BY <1>1 DEF SelectorInv, PhaseOK, MergeOK, ConfigOK
  <1>4. PlanOK'
    BY <1>1, <1>2 DEF SelectorInv, PlanOK
  <1>5. SearchOK'
    <2>1. best' \in Tables
      BY <1>1, TableTyped DEF SelectorInv
    <2>2. plan' = NoPlan
      BY <1>1 DEF SelectorInv, SearchOK
    <2>3. best' = Table(opt.prune)'
      BY <1>1, <1>2
    <2>4. QED
      BY <1>1, <2>1, <2>2, <2>3 DEF SearchOK
  <1>6. QED
    BY <1>2, <1>3, <1>4, <1>5 DEF SelectorInv

\* The search keeps it: its plan is optimal for the table it was given.
LEMMA SearchKeeps ==
    ASSUME SelectorInv, Search
    PROVE  SelectorInv'
  <1>1. /\ pc = "search" /\ pc' = "check" /\ plan' = Found(best) /\ best' = best
        /\ UNCHANGED inputs /\ at' = at /\ merging' = merging /\ merged' = merged
        /\ config' = config
    BY DEF Search, phase
  <1>2. /\ opt' = opt /\ InputsOK' /\ Penalty' = Penalty
        /\ \A s : Weight(s)' = Weight(s)
        /\ \A p, t : Optimal(p, t) => Optimal(p, t)'
        /\ \A b : Table(b)' = Table(b)
    BY <1>1, SameInputs DEF SelectorInv
  <1>3. PhaseOK' /\ MergeOK' /\ ConfigOK'
    BY <1>1 DEF SelectorInv, PhaseOK, MergeOK, ConfigOK
  <1>4. best \in Tables /\ best = Table(opt.prune) /\ OptOK
    BY <1>1 DEF SelectorInv, SearchOK, InputsOK
  <1>5. Optimal(plan', best)
    BY <1>1, <1>4, FoundOptimal
  <1>6. PlanOK'
    <2>1. PICK p : p = plan'
      OBVIOUS
    <2>2. /\ p.segs \in Seq(Piece) /\ p.total \in 0..Inf
          /\ p.segs # <<>> => /\ Tiles(p.segs, 0, Width) /\ p.total < Inf
                              /\ Weight(p.segs) = p.total + Penalty
      BY <1>5, <2>1, OptimalPlan
    <2>3. p.segs # <<>> => Weight(p.segs) <= p.total + Penalty
      <3>1. p.segs # <<>> => Weight(p.segs) \in Nat
        BY <2>2, <1>4, WeightIsNat
      <3>2. QED
        BY <3>1, <2>2
    <2>4. QED
      BY <1>2, <2>1, <2>2, <2>3 DEF PlanOK
  <1>7. SearchOK'
    <2>1. Optimal(plan, best)'
      BY <1>1, <1>2, <1>5
    <2>2. best' = Table(opt.prune)'
      BY <1>1, <1>2, <1>4
    <2>3. QED
      BY <1>1, <1>4, <2>1, <2>2 DEF SearchOK
  <1>8. QED
    BY <1>2, <1>3, <1>6, <1>7 DEF SelectorInv

\* The check for a suspect plan keeps it: what the second search finds is optimal
\* for the table without pruning.
LEMMA CheckKeeps ==
    ASSUME SelectorInv, Check
    PROVE  SelectorInv'
  <1>1. /\ pc = "check" /\ pc' = IF WantsMerge(plan') THEN "merge" ELSE "selected"
        /\ UNCHANGED inputs /\ at' = at /\ merging' = merging /\ merged' = merged
        /\ config' = config
    BY DEF Check, phase
  <1>2. /\ opt' = opt /\ InputsOK' /\ Penalty' = Penalty
        /\ \A s : Weight(s)' = Weight(s)
        /\ \A s : Owing(s)' = Owing(s)
        /\ \A p, t : Optimal(p, t) => Optimal(p, t)'
        /\ \A b : Table(b)' = Table(b)
    BY <1>1, SameInputs DEF SelectorInv
  <1>3. best \in Tables /\ best = Table(opt.prune) /\ Optimal(plan, best) /\ OptOK
    BY <1>1 DEF SelectorInv, SearchOK, InputsOK
  <1>4. Table(FALSE) \in Tables /\ opt.prune \in BOOLEAN
    BY <1>3, TableTyped DEF SelectorInv, OptOK
  <1>5. PICK p, t : /\ p = plan' /\ t = best' /\ t \in Tables /\ Optimal(p, t)
                    /\ t = Table(FALSE) \/ (p = plan /\ ~Suspect)
    <2>1. CASE opt.prune /\ Suspect
      <3>1. best' = Table(FALSE) /\ plan' = Found(Table(FALSE))
        BY <2>1 DEF Check
      <3>2. QED
        BY <3>1, <1>3, <1>4, FoundOptimal
    <2>2. CASE ~(opt.prune /\ Suspect)
      <3>1. best' = best /\ plan' = plan
        BY <2>2 DEF Check
      <3>2. best = Table(FALSE) \/ ~Suspect
        <4>1. ~opt.prune => opt.prune = FALSE
          BY <1>4
        <4>2. QED
          BY <4>1, <2>2, <1>3
      <3>3. QED
        BY <3>1, <3>2, <1>3
    <2>3. QED
      BY <2>1, <2>2
  <1>6. /\ p.segs \in Seq(Piece) /\ p.total \in 0..Inf
        /\ p.segs # <<>> => /\ Tiles(p.segs, 0, Width) /\ p.total < Inf
                            /\ Weight(p.segs) = p.total + Penalty
    BY <1>5, OptimalPlan
  <1>7. p.segs # <<>> => Weight(p.segs) <= p.total + Penalty
    <2>1. p.segs # <<>> => Weight(p.segs) \in Nat
      BY <1>3, <1>6, WeightIsNat
    <2>2. QED
      BY <2>1, <1>6
  <1>8. PlanOK'
    BY <1>2, <1>5, <1>6, <1>7 DEF PlanOK
  <1>9. PhaseOK' /\ ConfigOK'
    BY <1>1 DEF SelectorInv, PhaseOK, ConfigOK
  <1>10. SearchOK'
    <2>1. pc' # "fill" /\ pc' # "search" /\ pc' # "check" /\ best' \in Tables
      BY <1>1, <1>5
    <2>2. ASSUME Degenerate' PROVE Optimal(plan, Table(FALSE))'
      <3>1. t = Table(FALSE)
        <4>1. SUFFICES ASSUME p = plan, ~Suspect PROVE FALSE
          BY <1>5
        <4>2. Degenerate
          BY <1>5, <2>2, <4>1 DEF Degenerate
        <4>3. QED
          BY <4>1, <4>2 DEF Suspect
      <3>2. Optimal(p, Table(FALSE))'
        BY <3>1, <1>2, <1>5
      <3>3. QED
        BY <3>2, <1>5
    <2>3. QED
      BY <2>1, <2>2 DEF SearchOK
  <1>11. MergeOK'
    <2>1. at = 1 /\ merging = <<>> /\ merged = FALSE
      BY <1>1 DEF SelectorInv, MergeOK
    <2>2. CASE WantsMerge(p)
      <3>1. opt.merge /\ Len(p.segs) > 1 /\ p.segs # <<>>
        BY <2>2, <1>6 DEF WantsMerge
      <3>2. PICK n \in Nat : n = Len(p.segs) /\ n > 1
        BY <3>1, <1>6
      <3>3. 1 \in 1..(n + 1) /\ 1 <= n
        BY <3>2
      <3>4. p.segs[1].seg[1] = 0
        BY <3>1, <3>2, <1>6 DEF Tiles
      <3>5. Tiles(<<>>, 0, 0) /\ Weight(<<>>) = 0
        BY <1>3, NoPieces
      <3>6. SumTo(Owing(p.segs), 0) = 0
        <4>1. \A i \in 1..n : Owing(p.segs)[i] \in Nat
          BY <3>2, <1>3, <1>6, WeightIsNat
        <4>2. QED
          BY ONLY <4>1, n \in Nat, SumToStep
      <3>7. StartOf(1)' = 0
        BY <3>2, <3>3, <3>4, <1>5 DEF StartOf
      <3>8. Tiles(merging', 0, StartOf(at)')
        BY <3>5, <3>7, <2>1, <1>1
      <3>9. Weight(merging)' = 0 /\ SumTo(Owing(plan.segs), at - 1)' = 0
        <4>1. at' - 1 = 0
          BY <2>1, <1>1
        <4>2. SumTo(Owing(plan'.segs), 0) = 0
          BY <3>6, <1>5
        <4>3. QED
          BY <4>1, <4>2, <3>5, <2>1, <1>1, <1>2
      <3>10. QED
        BY <3>1, <3>2, <3>3, <3>8, <3>9, <2>1, <2>2, <1>1, <1>2, <1>5 DEF MergeOK
    <2>3. CASE ~WantsMerge(p)
      BY <2>1, <2>3, <1>1, <1>5 DEF MergeOK
    <2>4. QED
      BY <2>2, <2>3
  <1>12. QED
    BY <1>2, <1>8, <1>9, <1>10, <1>11 DEF SelectorInv

\* What the merge phase knows of its plan.
LEMMA MergeBefore ==
    ASSUME SelectorInv, pc = "merge", NEW s, s = plan.segs
    PROVE  /\ OptOK /\ opt.merge /\ s # <<>> /\ Tiles(s, 0, Width) /\ s \in Seq(Piece)
           /\ Len(s) \in Nat \ {0} /\ at \in 1..(Len(s) + 1)
           /\ Tiles(merging, 0, StartOf(at)) /\ merging \in Seq(Piece)
           /\ Weight(merging) \in Nat /\ Weight(s) \in Nat
           /\ Weight(merging) <= SumTo(Owing(s), at - 1)
           /\ Weight(s) <= plan.total + Penalty
           /\ plan.total \in Nat /\ plan.total < Inf
  <1>1. /\ OptOK /\ opt.merge /\ s # <<>> /\ at \in 1..(Len(s) + 1)
        /\ Tiles(merging, 0, StartOf(at))
        /\ Weight(merging) <= SumTo(Owing(s), at - 1)
    BY DEF SelectorInv, InputsOK, MergeOK
  <1>2. /\ Tiles(s, 0, Width) /\ s \in Seq(Piece)
        /\ plan.total < Inf /\ plan.total \in 0..Inf
        /\ Weight(s) <= plan.total + Penalty
    BY <1>1 DEF SelectorInv, PlanOK
  <1>3. Len(s) \in Nat \ {0}
    BY <1>2, TilingSegments
  <1>4. merging \in Seq(Piece)
    BY <1>1 DEF Tiles
  <1>5. Weight(merging) \in Nat /\ Weight(s) \in Nat
    BY <1>1, <1>2, <1>4, WeightIsNat
  <1>6. plan.total \in Nat
    BY <1>2, SizeAssumption
  <1>7. QED
    BY <1>1, <1>2, <1>3, <1>4, <1>5, <1>6

\* Where the next pieces begin.
LEMMA StartsAt ==
    ASSUME NEW s, s = plan.segs, Tiles(s, 0, Width), NEW i \in 1..Len(s)
    PROVE  /\ s[i] \in Piece /\ StartOf(i) = s[i].seg[1] /\ StartOf(i + 1) = s[i].seg[2] + 1
  <1>1. PICK n \in Nat : n = Len(s) /\ s \in Seq(Piece) /\ i \in 1..n
    BY DEF Tiles
  <1>2. s[i] \in Piece /\ StartOf(i) = s[i].seg[1]
    BY <1>1 DEF StartOf
  <1>3. CASE i = n
    <2>1. ~(i + 1 <= n) /\ n > 0
      BY <1>1, <1>3
    <2>2. StartOf(i + 1) = Width /\ s[i].seg[2] + 1 = Width
      BY <2>1, <1>1, <1>3 DEF StartOf, Tiles
    <2>3. QED
      BY <2>2, <1>2
  <1>4. CASE i # n
    <2>1. i + 1 <= n /\ i \in 1..(n - 1)
      BY <1>1, <1>4
    <2>2. StartOf(i + 1) = s[i + 1].seg[1] /\ s[i + 1].seg[1] = s[i].seg[2] + 1
      BY <2>1, <1>1 DEF StartOf, Tiles
    <2>3. QED
      BY <2>2, <1>2
  <1>5. QED
    BY <1>3, <1>4

\* The steps of a pass keep everything but what is merged.
LEMMA PassKeeps ==
    ASSUME SelectorInv, pc = "merge", pc' = pc, UNCHANGED <<inputs, best, plan, config>>,
           merged' \in BOOLEAN, at' \in 1..(Len(plan.segs) + 1),
           Tiles(merging', 0, StartOf(at')),
           Weight(merging') <= SumTo(Owing(plan.segs), at' - 1)
    PROVE  SelectorInv'
  <1>1. UNCHANGED inputs /\ best' = best /\ plan' = plan /\ config' = config
    OBVIOUS
  <1>2. /\ opt' = opt /\ InputsOK' /\ Penalty' = Penalty
        /\ \A s : Weight(s)' = Weight(s)
        /\ \A s : Owing(s)' = Owing(s)
    BY <1>1, SameInputs DEF SelectorInv
  <1>3. PhaseOK' /\ ConfigOK' /\ SearchOK'
    BY <1>1 DEF SelectorInv, PhaseOK, ConfigOK, SearchOK
  <1>4. PlanOK'
    BY <1>1, <1>2 DEF SelectorInv, PlanOK
  <1>5. MergeOK'
    <2>1. opt.merge /\ plan.segs # <<>>
      BY DEF SelectorInv, MergeOK
    <2>2. \A i : StartOf(i)' = StartOf(i)
      BY <1>1 DEF StartOf
    <2>3. Tiles(merging', 0, StartOf(at)')
      BY <2>2
    <2>4. Weight(merging)' <= SumTo(Owing(plan.segs), at - 1)'
      BY <1>1, <1>2
    <2>5. QED
      BY <2>1, <2>3, <2>4, <1>1, <1>2 DEF MergeOK
  <1>6. QED
    BY <1>2, <1>3, <1>4, <1>5 DEF SelectorInv

\* The sums over the first pieces.
LEMMA OwingSteps ==
    ASSUME OptOK, NEW s \in Seq(Piece), NEW i \in 1..Len(s)
    PROVE  /\ SumTo(Owing(s), i - 1) \in Nat /\ SumTo(Owing(s), i) \in Nat
           /\ SumTo(Owing(s), i) = SumTo(Owing(s), i - 1) + s[i].cost + Penalty
           /\ SumTo(Owing(s), i) <= Weight(s)
           /\ s[i].cost \in Nat /\ Penalty \in Nat
  <1>1. PICK n \in Nat : n = Len(s) /\ i \in 1..n
    OBVIOUS
  <1>2. PICK o : o = Owing(s)
    OBVIOUS
  <1>3. \A j \in 1..n : o[j] \in Nat /\ o[j] = s[j].cost + Penalty
    BY <1>1, <1>2, WeightIsNat
  <1>4. /\ \A j \in 0..n : SumTo(o, j) \in Nat
        /\ \A j \in 1..n : SumTo(o, j) = SumTo(o, j - 1) + o[j]
    BY ONLY <1>3, n \in Nat, SumToStep
  <1>5. i - 1 \in 0..n /\ i \in 0..n /\ n \in 0..n /\ i <= n
    BY <1>1
  <1>6. SumTo(o, i) <= SumTo(o, n)
    <2>1. \A j \in 1..n : o[j] \in Nat
      BY <1>3
    <2>2. \A j \in 0..n : i <= j => SumTo(o, i) <= SumTo(o, j)
      BY ONLY <2>1, n \in Nat, <1>5, SumToGrows
    <2>3. QED
      BY <2>2, <1>5
  <1>7. s[i].cost \in Nat /\ Penalty \in Nat
    <2>1. s[i] \in Piece
      OBVIOUS
    <2>2. QED
      BY <2>1, PieceParts, OwedIsNat
  <1>8. SumTo(o, i) = SumTo(o, i - 1) + s[i].cost + Penalty
    <2>1. PICK a \in Nat, c \in Nat, z \in Nat : a = SumTo(o, i - 1) /\ c = s[i].cost /\ z = Penalty
      BY <1>4, <1>5, <1>7
    <2>2. SumTo(o, i) = a + (c + z)
      BY <2>1, <1>1, <1>3, <1>4
    <2>3. QED
      BY <2>1, <2>2
  <1>9. QED
    BY <1>1, <1>2, <1>4, <1>5, <1>6, <1>7, <1>8 DEF Weight

\* A piece that is taken over unmerged keeps it.
LEMMA MergeNoneKeeps ==
    ASSUME SelectorInv, MergeNone
    PROVE  SelectorInv'
  <1>1. /\ pc = "merge" /\ pc' = pc /\ at <= Len(plan.segs) /\ at' = at + 1
        /\ merging' = Append(merging, plan.segs[at]) /\ merged' = merged
        /\ UNCHANGED <<inputs, best, plan, config>>
    BY DEF MergeNone
  <1>2. PICK s : s = plan.segs
    OBVIOUS
  <1>3. /\ OptOK /\ Tiles(s, 0, Width) /\ s \in Seq(Piece)
        /\ Len(s) \in Nat \ {0} /\ at \in 1..(Len(s) + 1)
        /\ Tiles(merging, 0, StartOf(at)) /\ merging \in Seq(Piece)
        /\ Weight(merging) \in Nat
        /\ Weight(merging) <= SumTo(Owing(s), at - 1)
    BY <1>1, <1>2, MergeBefore
  <1>0. PICK n \in Nat \ {0} : n = Len(s)
    BY <1>3
  <1>4. PICK i \in 1..n : n = Len(s) /\ i = at
    BY <1>0, <1>1, <1>2, <1>3
  <1>5. PICK x \in Piece : x = s[i] /\ StartOf(i) = x.seg[1] /\ StartOf(i + 1) = x.seg[2] + 1
    BY <1>2, <1>3, <1>4, StartsAt
  <1>6. Tiles(Append(merging, x), 0, StartOf(i + 1))
    BY <1>3, <1>4, <1>5, TilesGrow
  <1>7. Weight(Append(merging, x)) <= SumTo(Owing(s), i)
    <2>1. Weight(Append(merging, x)) = Weight(merging) + x.cost + Penalty
      BY <1>3, PieceBehind
    <2>2. /\ SumTo(Owing(s), i - 1) \in Nat
          /\ SumTo(Owing(s), i) = SumTo(Owing(s), i - 1) + x.cost + Penalty
          /\ x.cost \in Nat /\ Penalty \in Nat
      BY <1>3, <1>4, <1>5, OwingSteps
    <2>3. PICK w \in Nat, a \in Nat, c \in Nat, z \in Nat :
             w = Weight(merging) /\ a = SumTo(Owing(s), i - 1) /\ c = x.cost /\ z = Penalty
      BY <1>3, <2>2
    <2>4. w <= a
      BY <2>3, <1>3, <1>4
    <2>5. w + c + z <= a + c + z
      BY ONLY <2>4, w \in Nat, a \in Nat, c \in Nat, z \in Nat
    <2>6. QED
      BY <2>1, <2>2, <2>3, <2>5
  <1>8. /\ merged' \in BOOLEAN /\ at' \in 1..(Len(plan.segs) + 1)
        /\ Tiles(merging', 0, StartOf(at'))
        /\ Weight(merging') <= SumTo(Owing(plan.segs), at' - 1)
    <2>1. at' = i + 1 /\ at' - 1 = i /\ at' \in 1..(n + 1) /\ merging' = Append(merging, x)
      BY <1>1, <1>2, <1>4, <1>5
    <2>2. merged' \in BOOLEAN
      BY <1>1 DEF SelectorInv, PhaseOK
    <2>3. QED
      BY <2>1, <2>2, <1>2, <1>4, <1>6, <1>7
  <1>9. QED
    BY <1>1, <1>8, PassKeeps

\* Two pieces that are merged keep it: the piece over both is cheaper than the two
\* and the penalty between them.
LEMMA MergeTwoKeeps ==
    ASSUME SelectorInv, MergeTwo
    PROVE  SelectorInv'
  <1>1. /\ pc = "merge" /\ pc' = pc /\ at < Len(plan.segs) /\ at' = at + 2
        /\ merging' = Append(merging, Union2(plan.segs[at], plan.segs[at + 1])) /\ merged' = TRUE
        /\ PaysOff(plan.segs[at], plan.segs[at + 1])
        /\ UNCHANGED <<inputs, best, plan, config>>
    BY DEF MergeTwo
  <1>2. PICK s : s = plan.segs
    OBVIOUS
  <1>3. /\ OptOK /\ Tiles(s, 0, Width) /\ s \in Seq(Piece)
        /\ Len(s) \in Nat \ {0} /\ at \in 1..(Len(s) + 1)
        /\ Tiles(merging, 0, StartOf(at)) /\ merging \in Seq(Piece)
        /\ Weight(merging) \in Nat /\ Weight(s) \in Nat
        /\ Weight(merging) <= SumTo(Owing(s), at - 1)
        /\ Weight(s) <= plan.total + Penalty
        /\ plan.total \in Nat /\ plan.total < Inf
    BY <1>1, <1>2, MergeBefore
  <1>4. PICK n \in Nat \ {0} : n = Len(s)
    BY <1>3
  <1>5. PICK i \in 1..n, j \in 1..n : i = at /\ j = i + 1 /\ j - 1 = i
    <2>1. at \in 1..(n + 1) /\ at < n
      BY <1>1, <1>2, <1>3, <1>4
    <2>2. at \in 1..n /\ at + 1 \in 1..n /\ (at + 1) - 1 = at
      BY ONLY <2>1, n \in Nat \ {0}
    <2>3. QED
      BY <2>2
  <1>6. PICK x \in Piece : x = s[i] /\ StartOf(i) = x.seg[1] /\ StartOf(j) = x.seg[2] + 1
    BY <1>2, <1>3, <1>4, <1>5, StartsAt
  <1>7. PICK y \in Piece : y = s[j] /\ StartOf(j) = y.seg[1] /\ StartOf(j + 1) = y.seg[2] + 1
    BY <1>2, <1>3, <1>4, <1>5, StartsAt
  <1>8. PICK u : u = Union2(x, y)
    OBVIOUS
  <1>9. /\ x.seg[1] \in Nat /\ x.seg[2] \in Nat /\ y.seg[1] \in Nat /\ y.seg[2] \in Nat
        /\ x.seg[1] <= x.seg[2] /\ y.seg[1] <= y.seg[2] /\ y.seg[2] < Width
        /\ x.cost \in Nat /\ y.cost \in Nat
    BY PieceParts
  <1>10. PICK a \in Nat, c \in Nat, d \in Nat, z \in Nat :
            a = SumTo(Owing(s), i - 1) /\ c = x.cost /\ d = y.cost /\ z = Penalty
    BY <1>3, <1>4, <1>5, <1>6, <1>9, OwingSteps
  <1>11. SumTo(Owing(s), j) = a + c + z + d + z /\ SumTo(Owing(s), j) <= Weight(s)
    <2>1. SumTo(Owing(s), i) = a + c + z
      BY <1>3, <1>4, <1>5, <1>6, <1>10, OwingSteps
    <2>2. /\ SumTo(Owing(s), j) = SumTo(Owing(s), j - 1) + y.cost + Penalty
          /\ SumTo(Owing(s), j) <= Weight(s)
      BY <1>3, <1>4, <1>5, <1>7, OwingSteps
    <2>3. QED
      BY <2>1, <2>2, <1>5, <1>10
  <1>12. <<x.seg[1], y.seg[2]>> \in Segs
    <2>1. x.seg[1] <= y.seg[2]
      BY <1>6, <1>7, <1>9
    <2>2. QED
      BY <2>1, <1>9, SegmentBetween
  <1>13. PICK e \in 0..Inf, b \in BOOLEAN :
            /\ e = u.cost
            /\ u = [seg |-> <<x.seg[1], y.seg[2]>>, cost |-> e, built |-> b]
    <2>1. plain[<<x.seg[1], y.seg[2]>>] \in 0..Inf
      BY <1>12 DEF SelectorInv, InputsOK
    <2>2. HasCase(<<x.seg[1], y.seg[2]>>) \in BOOLEAN
      BY DEF HasCase
    <2>3. QED
      BY <2>1, <2>2, <1>8 DEF Union2
  <1>14. e < c + d + z
    BY <1>1, <1>2, <1>5, <1>6, <1>7, <1>8, <1>10, <1>13 DEF PaysOff
  <1>15. e \in Nat /\ e < Inf
    <2>1. PICK p \in Nat, w \in Nat : p = plan.total /\ w = Weight(s)
      BY <1>3
    <2>2. a + c + z + d + z <= w /\ w <= p + z /\ p < Inf
      BY <2>1, <1>3, <1>10, <1>11
    <2>3. Inf \in Nat
      BY SizeAssumption
    <2>4. QED
      BY ONLY <2>2, <2>3, <1>14, a \in Nat, c \in Nat, d \in Nat, z \in Nat, p \in Nat, w \in Nat,
              e \in 0..Inf
  <1>16. u \in Piece /\ u.seg[1] = x.seg[1] /\ u.seg[2] = y.seg[2]
    <2>1. e \in 0..(Inf - 1)
      BY <1>15, SizeAssumption
    <2>2. QED
      BY <2>1, <1>12, <1>13 DEF Piece
  <1>17. Tiles(Append(merging, u), 0, StartOf(j + 1))
    <2>1. Tiles(merging, 0, u.seg[1])
      BY <1>3, <1>5, <1>6, <1>16
    <2>2. StartOf(j + 1) = u.seg[2] + 1
      BY <1>7, <1>16
    <2>3. QED
      BY <2>1, <2>2, <1>3, <1>16, TilesGrow
  <1>18. Weight(Append(merging, u)) <= SumTo(Owing(s), j)
    <2>1. Weight(Append(merging, u)) = Weight(merging) + e + z
      BY <1>3, <1>10, <1>13, <1>16, PieceBehind
    <2>2. PICK w \in Nat : w = Weight(merging) /\ w <= a
      BY <1>3, <1>5, <1>10
    <2>3. w + e + z <= a + c + z + d + z
      BY ONLY <2>2, <1>14, <1>15, a \in Nat, c \in Nat, d \in Nat, z \in Nat, w \in Nat
    <2>4. QED
      BY <2>1, <2>2, <2>3, <1>11
  <1>19. /\ merged' \in BOOLEAN /\ at' \in 1..(Len(plan.segs) + 1)
         /\ Tiles(merging', 0, StartOf(at'))
         /\ Weight(merging') <= SumTo(Owing(plan.segs), at' - 1)
    <2>1. at' = j + 1 /\ at' - 1 = j /\ at' \in 1..(n + 1)
      BY <1>1, <1>5
    <2>2. merging' = Append(merging, u)
      BY <1>1, <1>2, <1>5, <1>6, <1>7, <1>8
    <2>3. QED
      BY <2>1, <2>2, <1>1, <1>2, <1>4, <1>17, <1>18
  <1>20. QED
    BY <1>1, <1>19, PassKeeps

\* The end of a pass: what was merged covers all the bits, for no more.
LEMMA MergedPlan ==
    ASSUME SelectorInv, MergePassDone
    PROVE  /\ Tiles(merging, 0, Width) /\ merging \in Seq(Piece) /\ merging # <<>>
           /\ Weight(merging) \in Nat /\ Weight(merging) <= plan.total + Penalty
           /\ Penalty \in Nat /\ plan.total \in Nat /\ plan.total < Inf
           /\ TotalOf(merging) \in Nat /\ Weight(merging) = TotalOf(merging) + Penalty
  <1>1. pc = "merge" /\ at > Len(plan.segs)
    BY DEF MergePassDone
  <1>2. PICK s : s = plan.segs
    OBVIOUS
  <1>3. /\ OptOK /\ Tiles(s, 0, Width) /\ s \in Seq(Piece)
        /\ Len(s) \in Nat \ {0} /\ at \in 1..(Len(s) + 1)
        /\ Tiles(merging, 0, StartOf(at)) /\ merging \in Seq(Piece)
        /\ Weight(merging) \in Nat /\ Weight(s) \in Nat
        /\ Weight(merging) <= SumTo(Owing(s), at - 1)
        /\ Weight(s) <= plan.total + Penalty
        /\ plan.total \in Nat /\ plan.total < Inf
    BY <1>1, <1>2, MergeBefore
  <1>4. PICK n \in Nat \ {0} : n = Len(s) /\ at = n + 1 /\ at - 1 = n
    <2>1. PICK n \in Nat \ {0} : n = Len(s)
      BY <1>3
    <2>2. at \in 1..(n + 1) /\ at > n
      BY <2>1, <1>1, <1>2, <1>3
    <2>3. at = n + 1 /\ at - 1 = n
      BY ONLY <2>2, n \in Nat \ {0}
    <2>4. QED
      BY <2>1, <2>3
  <1>5. StartOf(at) = Width
    <2>1. ~(n + 1 <= n)
      OBVIOUS
    <2>2. QED
      BY <2>1, <1>2, <1>4 DEF StartOf
  <1>6. Tiles(merging, 0, Width)
    BY <1>3, <1>5
  <1>7. Len(merging) \in Nat \ {0} /\ merging # <<>>
    BY <1>6, TilingSegments
  <1>8. Penalty \in Nat
    BY <1>3, OwedIsNat
  <1>9. Weight(merging) <= plan.total + Penalty
    <2>1. Weight(merging) <= Weight(s)
      BY <1>3, <1>4 DEF Weight
    <2>2. PICK a \in Nat, b \in Nat, c \in Nat, d \in Nat :
             a = Weight(merging) /\ b = Weight(s) /\ c = plan.total /\ d = Penalty
      BY <1>3, <1>8
    <2>3. a <= b /\ b <= c + d
      BY <2>1, <2>2, <1>3
    <2>4. QED
      BY <2>2, <2>3
  <1>10. TotalOf(merging) \in Nat /\ Weight(merging) = TotalOf(merging) + Penalty
    <2>1. /\ TotalOf(merging) = Weight(merging) - Penalty
          /\ Weight(merging) - Penalty = SumTo(CostsOf(merging), Len(merging)) + Penalty * (Len(merging) - 1)
          /\ SumTo(CostsOf(merging), Len(merging)) \in Nat
      BY <1>3, WeightTotal
    <2>2. PICK a \in Nat, m \in Nat, z \in Nat :
             /\ a = SumTo(CostsOf(merging), Len(merging)) /\ m = Len(merging) - 1 /\ z = Penalty
      <3>1. Len(merging) - 1 \in Nat
        BY <1>7
      <3>2. QED
        BY <3>1, <2>1, <1>8
    <2>3. TotalOf(merging) = a + z * m /\ z * m \in Nat
      BY <2>1, <2>2
    <2>4. TotalOf(merging) \in Nat
      BY <2>3
    <2>5. QED
      BY <2>1, <2>4, <1>3, <1>8
  <1>11. QED
    BY <1>3, <1>6, <1>7, <1>8, <1>9, <1>10

\* The end of a pass keeps it, and never reports a larger total.
LEMMA MergePassDoneKeeps ==
    ASSUME SelectorInv, MergePassDone
    PROVE  SelectorInv' /\ plan'.total <= plan.total
  <1>1. /\ pc = "merge" /\ pc' = (IF merged THEN pc ELSE "selected")
        /\ plan'.segs = merging
        /\ plan'.total = (IF merged THEN plan.total ELSE TotalOf(merging))
        /\ at' = 1 /\ merging' = <<>> /\ merged' = FALSE
        /\ UNCHANGED inputs /\ best' = best /\ config' = config
    BY DEF MergePassDone, GoesOn
  <1>2. /\ opt' = opt /\ InputsOK' /\ Penalty' = Penalty
        /\ \A s : Weight(s)' = Weight(s)
        /\ \A s : Owing(s)' = Owing(s)
    BY <1>1, SameInputs DEF SelectorInv
  <1>3. /\ Tiles(merging, 0, Width) /\ merging \in Seq(Piece) /\ merging # <<>>
        /\ Weight(merging) \in Nat /\ Weight(merging) <= plan.total + Penalty
        /\ Penalty \in Nat /\ plan.total \in Nat /\ plan.total < Inf
        /\ TotalOf(merging) \in Nat /\ Weight(merging) = TotalOf(merging) + Penalty
    BY MergedPlan
  <1>4. TotalOf(merging) <= plan.total
    BY <1>3
  <1>5. PICK t \in Nat : /\ t = plan'.total /\ t <= plan.total /\ t < Inf
                         /\ Weight(merging) <= t + Penalty
                         /\ ~merged => Weight(merging) = t + Penalty
    <2>1. CASE merged
      BY <2>1, <1>1, <1>3
    <2>2. CASE ~merged
      <3>1. TotalOf(merging) < Inf
        BY <1>3, <1>4, SizeAssumption
      <3>2. Weight(merging) <= TotalOf(merging) + Penalty
        BY <1>3
      <3>3. QED
        BY <3>1, <3>2, <2>2, <1>1, <1>3, <1>4
    <2>3. QED
      BY <2>1, <2>2
  <1>6. merged \in BOOLEAN /\ opt.merge /\ OptOK
    BY <1>1 DEF SelectorInv, PhaseOK, MergeOK, InputsOK
  <1>7. PhaseOK' /\ ConfigOK'
    BY <1>1, <1>6 DEF SelectorInv, PhaseOK, ConfigOK
  <1>8. PlanOK'
    <2>1. t \in 0..Inf
      BY <1>5, SizeAssumption
    <2>2. pc' # "merge" => ~merged
      BY <1>1
    <2>3. Weight(plan.segs)' = Weight(merging)
      BY <1>1, <1>2
    <2>4. QED
      BY <2>1, <2>2, <2>3, <1>1, <1>2, <1>3, <1>5 DEF PlanOK
  <1>9. SearchOK'
    <2>1. /\ pc' # "fill" /\ pc' # "search" /\ pc' # "check" /\ best' \in Tables /\ opt'.merge
      BY <1>1, <1>2, <1>6 DEF SelectorInv, SearchOK
    <2>2. QED
      BY <2>1 DEF SearchOK
  <1>10. MergeOK'
    <2>1. PICK s \in Seq(Piece) : s = plan'.segs /\ s = merging /\ Tiles(s, 0, Width) /\ s # <<>>
      BY <1>1, <1>3
    <2>2. PICK n \in Nat \ {0} : n = Len(s)
      BY <2>1, TilingSegments
    <2>3. 1 \in 1..(n + 1) /\ 1 <= n /\ n > 0
      OBVIOUS
    <2>4. s[1].seg[1] = 0
      BY <2>1, <2>2, <2>3 DEF Tiles
    <2>5. StartOf(1)' = 0
      BY <2>1, <2>2, <2>3, <2>4 DEF StartOf
    <2>6. Tiles(<<>>, 0, 0) /\ Weight(<<>>) = 0
      BY <1>6, NoPieces
    <2>7. SumTo(Owing(s), 0) = 0
      <3>1. \A i \in 1..n : Owing(s)[i] \in Nat
        BY <2>1, <2>2, <1>6, WeightIsNat
      <3>2. QED
        BY ONLY <3>1, n \in Nat \ {0}, SumToStep
    <2>8. Tiles(merging', 0, StartOf(at)')
      BY <2>5, <2>6, <1>1
    <2>9. Weight(merging)' = 0 /\ SumTo(Owing(plan.segs), at - 1)' = 0
      <3>1. at' - 1 = 0
        BY <1>1
      <3>2. SumTo(Owing(plan'.segs), 0) = 0
        BY <2>1, <2>7
      <3>3. QED
        BY <3>1, <3>2, <2>6, <1>1, <1>2
    <2>10. at' \in 1..(Len(plan'.segs) + 1) /\ plan'.segs # <<>>
      BY <2>1, <2>2, <2>3, <1>1
    <2>11. opt'.merge
      BY <1>2, <1>6
    <2>12. QED
      BY <2>8, <2>9, <2>10, <2>11, <1>1 DEF MergeOK
  <1>11. QED
    BY <1>2, <1>5, <1>7, <1>8, <1>9, <1>10 DEF SelectorInv

\* ensureEncoder keeps it: sorting the segments of a plan changes nothing, and they
\* meet, so fromSegments throws for an empty plan and for what it cannot build only.
LEMMA ConfigureKeeps ==
    ASSUME SelectorInv, Configure
    PROVE  SelectorInv'
  <1>1. /\ pc = "selected" /\ pc' \in {"configured", "threw"}
        /\ UNCHANGED inputs /\ best' = best /\ plan' = plan
        /\ at' = at /\ merging' = merging /\ merged' = merged
    BY DEF Configure, phase
  <1>2. /\ opt' = opt /\ InputsOK' /\ Penalty' = Penalty
        /\ \A s : Weight(s)' = Weight(s)
    BY <1>1, SameInputs DEF SelectorInv
  <1>3. PhaseOK' /\ MergeOK' /\ SearchOK'
    BY <1>1 DEF SelectorInv, PhaseOK, MergeOK, SearchOK
  <1>4. PlanOK'
    BY <1>1, <1>2 DEF SelectorInv, PlanOK
  <1>5. ConfigOK'
    <2>1. OptOK
      BY DEF SelectorInv, InputsOK
    <2>2. CASE plan.segs = <<>>
      <3>1. pc' = "threw" /\ config' = config
        BY <2>2 DEF Configure
      <3>2. QED
        BY <3>1, <2>2, <1>1 DEF SelectorInv, ConfigOK
    <2>3. CASE plan.segs # <<>>
      <3>1. Tiles(plan.segs, 0, Width)
        BY <2>3 DEF SelectorInv, PlanOK
      <3>2. Sorted(Segments) = Segments /\ Contiguous(Segments)
        BY <3>1, <2>1, SegmentsSorted
      <3>3. CASE \A i \in DOMAIN plan.segs : plan.segs[i].built
        <4>1. /\ pc' = "configured"
              /\ config' = [order |-> Order,
                            bits  |-> [i \in DOMAIN Segments |-> WidthOf(Segments[i])]]
          BY <3>2, <3>3, <2>3 DEF Configure
        <4>2. Segments' = Segments /\ Order' = Order
          BY <1>1, SameSegments
        <4>3. QED
          BY <4>1, <4>2, <2>3, <1>1 DEF ConfigOK
      <3>4. CASE ~(\A i \in DOMAIN plan.segs : plan.segs[i].built)
        <4>1. pc' = "threw" /\ config' = config
          BY <3>4 DEF Configure
        <4>2. QED
          BY <4>1, <3>4, <1>1 DEF SelectorInv, ConfigOK
      <3>5. QED
        BY <3>3, <3>4
    <2>4. QED
      BY <2>2, <2>3
  <1>6. QED
    BY <1>2, <1>3, <1>4, <1>5 DEF SelectorInv

\* Steps that change nothing keep it.
LEMMA SelectorStutters ==
    ASSUME SelectorInv, UNCHANGED vars
    PROVE  SelectorInv'
  <1>1. /\ pc' = pc /\ UNCHANGED inputs /\ best' = best /\ plan' = plan
        /\ at' = at /\ merging' = merging /\ merged' = merged /\ config' = config
    BY DEF vars, phase
  <1>2. /\ opt' = opt /\ InputsOK' /\ Penalty' = Penalty
        /\ \A s : Weight(s)' = Weight(s)
        /\ \A s : Owing(s)' = Owing(s)
        /\ \A p, t : Optimal(p, t) => Optimal(p, t)'
        /\ \A b : Table(b)' = Table(b)
    BY <1>1, SameInputs DEF SelectorInv
  <1>3. PhaseOK'
    BY <1>1 DEF SelectorInv, PhaseOK
  <1>4. PlanOK'
    BY <1>1, <1>2 DEF SelectorInv, PlanOK
  <1>5. SearchOK'
    <2>1. Degenerate' <=> Degenerate
      BY <1>1 DEF Degenerate
    <2>2. pc = "check" => Optimal(plan, best)'
      BY <1>1, <1>2 DEF SelectorInv, SearchOK
    <2>3. pc = "selected" /\ Degenerate /\ ~opt.merge => Optimal(plan, Table(FALSE))'
      <3>1. SUFFICES ASSUME Optimal(plan, Table(FALSE)) PROVE Optimal(plan, Table(FALSE))'
        BY DEF SelectorInv, SearchOK
      <3>2. PICK t : t = Table(FALSE)
        OBVIOUS
      <3>3. Optimal(plan, t)'
        BY <3>1, <3>2, <1>1, <1>2
      <3>4. QED
        BY <3>2, <3>3, <1>2
    <2>4. QED
      BY <2>1, <2>2, <2>3, <1>1, <1>2 DEF SelectorInv, SearchOK
  <1>6. MergeOK'
    <2>1. \A i : StartOf(i)' = StartOf(i)
      BY <1>1 DEF StartOf
    <2>2. QED
      BY <2>1, <1>1, <1>2 DEF SelectorInv, MergeOK
  <1>7. ConfigOK'
    <2>1. Segments' = Segments /\ Order' = Order
      BY <1>1, SameSegments
    <2>2. QED
      BY <2>1, <1>1 DEF SelectorInv, ConfigOK
  <1>8. QED
    BY <1>2, <1>3, <1>4, <1>5, <1>6, <1>7 DEF SelectorInv

\* Every step of select and ensureEncoder keeps it.
LEMMA SelectorSteps ==
    ASSUME SelectorInv, [Next]_vars
    PROVE  SelectorInv'
  <1>1. CASE Fill
    BY <1>1, FillKeeps
  <1>2. CASE Search
    BY <1>2, SearchKeeps
  <1>3. CASE Check
    BY <1>3, CheckKeeps
  <1>4. CASE MergeTwo
    BY <1>4, MergeTwoKeeps
  <1>5. CASE MergeNone
    BY <1>5, MergeNoneKeeps
  <1>6. CASE MergePassDone
    BY <1>6, MergePassDoneKeeps
  <1>7. CASE Configure
    BY <1>7, ConfigureKeeps
  <1>8. CASE UNCHANGED vars
    BY <1>8, SelectorStutters
  <1>9. QED
    BY <1>1, <1>2, <1>3, <1>4, <1>5, <1>6, <1>7, <1>8 DEF Next, Merging

\* The invariant holds throughout.
LEMMA SelectorHolds == Spec => []SelectorInv
  <1>1. Init => SelectorInv
    BY SelectorStarts
  <1>2. SelectorInv /\ [Next]_vars => SelectorInv'
    BY SelectorSteps
  <1>3. QED
    BY <1>1, <1>2, PTL DEF Spec

\* What fromSegments cannot build is a segment whose cheapest codec by itself has no
\* case in it.
Known(s) == \A i \in DOMAIN s : s[i].built \/ s[i].seg \in uncased
CasesKnown == Known(plan.segs) /\ Known(merging)

\* What the search takes from the table is so.
LEMMA OptimalKnown ==
    ASSUME NEW p, NEW table, Optimal(p, table)
    PROVE  Known(p.segs)
  <1>1. CASE p.segs = <<>>
    <2>1. DOMAIN p.segs = {}
      BY <1>1
    <2>2. QED
      BY <2>1 DEF Known
  <1>2. CASE p.segs # <<>>
    <2>1. Tiles(p.segs, 0, Width) /\ FromTable(p.segs, table)
      BY <1>2, SizeAssumption DEF Optimal
    <2>2. PICK s \in Seq(Piece) : s = p.segs
      BY <2>1 DEF Tiles
    <2>3. ASSUME NEW i \in DOMAIN s PROVE s[i].built \/ s[i].seg \in uncased
      <3>1. i \in 1..Len(s) /\ s[i] \in Piece
        BY <2>2
      <3>2. s[i].built <=> Buildable(s[i].seg)
        BY <3>1, <2>1, <2>2 DEF FromTable
      <3>3. QED
        BY <3>2 DEF Buildable, HasCase
    <2>4. QED
      BY <2>2, <2>3 DEF Known
  <1>3. QED
    BY <1>1, <1>2

\* One more piece is so, if it is.
LEMMA KnownGrows ==
    ASSUME NEW s \in Seq(Piece), NEW x \in Piece, Known(s), x.built \/ x.seg \in uncased
    PROVE  Known(Append(s, x))
  <1>1. PICK n \in Nat : n = Len(s)
    OBVIOUS
  <1>2. PICK t : t = Append(s, x)
    OBVIOUS
  <1>3. DOMAIN t = 1..(n + 1) /\ t[n + 1] = x /\ \A i \in 1..n : t[i] = s[i] /\ i \in DOMAIN s
    BY <1>1, <1>2
  <1>4. ASSUME NEW i \in 1..(n + 1) PROVE t[i].built \/ t[i].seg \in uncased
    <2>1. i = n + 1 \/ i \in 1..n
      OBVIOUS
    <2>2. QED
      BY <2>1, <1>3 DEF Known
  <1>5. QED
    BY <1>2, <1>3, <1>4 DEF Known

\* A merge keeps it: the piece over both is chosen without reorderers.
LEMMA MergeTwoKnown ==
    ASSUME SelectorInv, CasesKnown, MergeTwo
    PROVE  Known(merging')
  <1>1. /\ pc = "merge" /\ at < Len(plan.segs) /\ PaysOff(plan.segs[at], plan.segs[at + 1])
        /\ merging' = Append(merging, Union2(plan.segs[at], plan.segs[at + 1]))
    BY DEF MergeTwo
  <1>2. PICK u : u = Union2(plan.segs[at], plan.segs[at + 1])
    OBVIOUS
  <1>3. PICK s : s = merging' /\ s = Append(merging, u)
    BY <1>1, <1>2
  <1>4. merging \in Seq(Piece)
    BY <1>1, MergeBefore
  <1>5. PICK n \in Nat : n = Len(merging)
    BY <1>4
  <1>6. DOMAIN s = 1..(n + 1) /\ s[n + 1] = u /\ \A i \in 1..n : s[i] = merging[i] /\ i \in DOMAIN merging
    BY <1>3, <1>4, <1>5
  <1>7. u.built \/ u.seg \in uncased
    BY <1>2 DEF Union2, HasCase
  <1>8. ASSUME NEW i \in 1..(n + 1) PROVE s[i].built \/ s[i].seg \in uncased
    <2>1. i = n + 1 \/ i \in 1..n
      OBVIOUS
    <2>2. QED
      BY <2>1, <1>6, <1>7 DEF Known, CasesKnown
  <1>9. QED
    BY <1>3, <1>6, <1>8 DEF Known

\* A piece taken over unmerged keeps it.
LEMMA MergeNoneKnown ==
    ASSUME SelectorInv, CasesKnown, MergeNone
    PROVE  Known(merging')
  <1>1. /\ pc = "merge" /\ at <= Len(plan.segs)
        /\ merging' = Append(merging, plan.segs[at])
    BY DEF MergeNone
  <1>2. PICK s : s = plan.segs
    OBVIOUS
  <1>3. /\ s \in Seq(Piece) /\ Len(s) \in Nat \ {0} /\ at \in 1..(Len(s) + 1)
        /\ merging \in Seq(Piece)
    BY <1>1, <1>2, MergeBefore
  <1>4. at \in 1..Len(s) /\ at \in DOMAIN s /\ s[at] \in Piece
    BY <1>1, <1>2, <1>3
  <1>5. s[at].built \/ s[at].seg \in uncased
    BY <1>2, <1>4 DEF CasesKnown, Known
  <1>6. Known(merging)
    BY DEF CasesKnown
  <1>7. QED
    BY <1>1, <1>2, <1>3, <1>4, <1>5, <1>6, KnownGrows

\* Every step keeps it.
LEMMA CasesSteps ==
    ASSUME SelectorInv, CasesKnown, [Next]_vars
    PROVE  CasesKnown'
  <1>1. uncased' = uncased
    BY SameInputs DEF Next, Merging, Fill, Search, Check, MergeTwo, MergeNone, MergePassDone,
                      Configure, vars, inputs
  <1>2. \A s : Known(s)' <=> Known(s)
    BY <1>1 DEF Known
  <1>3. Known(plan.segs) /\ Known(merging) /\ Known(<<>>)
    <2>1. DOMAIN <<>> = {}
      OBVIOUS
    <2>2. QED
      BY <2>1 DEF CasesKnown, Known
  <1>4. Known(plan'.segs) /\ Known(merging')
    <2>1. CASE UNCHANGED <<plan, merging>>
      BY <2>1, <1>3
    <2>2. CASE Search
      <3>1. plan' = Found(best) /\ merging' = merging /\ pc = "search"
        BY <2>2 DEF Search, phase
      <3>2. best \in Tables /\ OptOK
        BY DEF SelectorInv, SearchOK, InputsOK
      <3>3. QED
        BY <3>1, <3>2, <1>3, FoundOptimal, OptimalKnown
    <2>3. CASE Check
      <3>1. merging' = merging /\ (plan' = plan \/ plan' = Found(Table(FALSE)))
        BY <2>3 DEF Check, phase
      <3>2. Table(FALSE) \in Tables /\ OptOK
        BY TableTyped DEF SelectorInv, InputsOK
      <3>3. QED
        BY <3>1, <3>2, <1>3, FoundOptimal, OptimalKnown
    <2>4. CASE MergeTwo
      <3>1. plan' = plan
        BY <2>4 DEF MergeTwo
      <3>2. QED
        BY <2>4, <3>1, <1>3, MergeTwoKnown
    <2>5. CASE MergeNone
      <3>1. plan' = plan
        BY <2>5 DEF MergeNone
      <3>2. QED
        BY <2>5, <3>1, <1>3, MergeNoneKnown
    <2>6. CASE MergePassDone
      <3>1. plan'.segs = merging /\ merging' = <<>>
        BY <2>6 DEF MergePassDone
      <3>2. QED
        BY <3>1, <1>3
    <2>7. CASE Fill \/ Configure \/ UNCHANGED vars
      BY <2>1, <2>7 DEF Fill, Configure, vars, phase
    <2>8. QED
      BY <2>2, <2>3, <2>4, <2>5, <2>6, <2>7 DEF Next, Merging
  <1>5. QED
    BY <1>2, <1>4 DEF CasesKnown

\* It holds throughout.
LEMMA CasesHold == Spec => []CasesKnown
  <1>1. Init => CasesKnown
    <2>1. SUFFICES ASSUME Init PROVE CasesKnown
      OBVIOUS
    <2>2. plan.segs = <<>> /\ merging = <<>> /\ DOMAIN <<>> = {}
      BY <2>1 DEF Init, NoPlan
    <2>3. QED
      BY <2>2 DEF CasesKnown, Known
  <1>2. SelectorInv /\ CasesKnown /\ [Next]_vars => CasesKnown'
    BY CasesSteps
  <1>3. QED
    BY <1>1, <1>2, SelectorHolds, PTL DEF Spec

\* Every variable of select has its type; in particular the plan holds segments of
\* the sample only, the merge loop never runs past the plan, and every section the
\* encoder configures has at least one bit and at most all of them.
THEOREM SelectorTypeCorrect == Spec => []TypeOK
  <1>1. SelectorInv => TypeOK
    <2>1. SUFFICES ASSUME SelectorInv PROVE TypeOK
      OBVIOUS
    <2>2. /\ pc \in {"fill", "search", "check", "merge", "selected", "configured", "threw"}
          /\ merged \in BOOLEAN /\ best \in [Segs -> 0..Inf]
          /\ plan.segs \in Seq([seg : Segs, cost : 0..(Inf - 1), built : BOOLEAN])
          /\ plan.total \in 0..Inf
      BY <2>1 DEF SelectorInv, PhaseOK, SearchOK, PlanOK, Tables, Piece
    <2>3. at \in 1..(Width + 2)
      <3>1. CASE pc # "merge"
        BY <2>1, <3>1, SizeAssumption DEF SelectorInv, MergeOK
      <3>2. CASE pc = "merge"
        <4>1. at \in 1..(Len(plan.segs) + 1) /\ Tiles(plan.segs, 0, Width)
          BY <2>1, <3>2, MergeBefore
        <4>2. Len(plan.segs) \in Nat /\ Len(plan.segs) <= Width
          BY <4>1, TilingShort
        <4>3. QED
          BY <4>1, <4>2, SizeAssumption
      <3>3. QED
        BY <3>1, <3>2
    <2>4. config.bits \in Seq(1..Width)
      <3>1. CASE pc # "configured"
        <4>1. config.bits = <<>>
          BY <2>1, <3>1 DEF SelectorInv, ConfigOK, NoConfig
        <4>2. QED
          BY <4>1
      <3>2. CASE pc = "configured"
        <4>1. OptOK /\ Tiles(plan.segs, 0, Width)
          BY <2>1, <3>2 DEF SelectorInv, InputsOK, ConfigOK, PlanOK
        <4>2. config.bits = [i \in DOMAIN Segments |-> WidthOf(Segments[i])]
          BY <2>1, <3>2 DEF SelectorInv, ConfigOK
        <4>3. QED
          BY <4>1, <4>2, SegmentsTaken
      <3>3. QED
        BY <3>1, <3>2
    <2>5. QED
      BY <2>2, <2>3, <2>4 DEF TypeOK
  <1>2. QED
    BY <1>1, SelectorHolds, PTL

\* What the search returns costs as little as any allowed cut of the table it was
\* given, whichever of the four searches it is, and is infinite only when no cut is
\* allowed: runDynamicProgramming, runDynamicProgrammingFixed, runExhaustiveSearch and
\* runExhaustiveSearchFixed agree on the least cost for every width and every table.
THEOREM SearchIsOptimal == Spec => []FindsTheCheapest
  <1>1. SelectorInv => FindsTheCheapest
    <2>1. SUFFICES ASSUME SelectorInv, pc = "check" PROVE plan.total = LeastCost(best)
      BY DEF FindsTheCheapest
    <2>2. OptOK /\ best \in Tables /\ Optimal(plan, best)
      BY <2>1 DEF SelectorInv, InputsOK, SearchOK
    <2>3. QED
      BY <2>2, OptimalIsLeast
  <1>2. QED
    BY <1>1, SelectorHolds, PTL

\* Every plan that is not empty, mirrored or not, merged or not, is configured with
\* sections that read the bits of its segments, or refused for a segment whose cheapest
\* codec fromSegments has no case for, and its total is what its segments cost:
\* ensureEncoder never finds the segments of a plan not contiguous.
THEOREM PlanIsConfigured == Spec => []PlanConfigures
  <1>1. SelectorInv /\ CasesKnown => PlanConfigures
    <2>1. SUFFICES ASSUME SelectorInv, CasesKnown PROVE PlanConfigures
      OBVIOUS
    <2>2. OptOK
      BY <2>1 DEF SelectorInv, InputsOK
    <2>3. ASSUME pc \in {"selected", "configured"}, plan.segs # <<>>
          PROVE  plan.total = Total(CostsOf(plan.segs)) + opt.penalty * (Len(plan.segs) - 1)
      <3>1. PICK s \in Seq(Piece) : /\ s = plan.segs /\ Weight(s) = plan.total + Penalty
                                    /\ plan.total \in 0..Inf
        BY <2>1, <2>3 DEF SelectorInv, PlanOK
      <3>2. TotalOf(s) = Weight(s) - Penalty /\ Penalty \in Nat
        BY <2>2, WeightTotal, OwedIsNat
      <3>3. plan.total \in Nat
        BY <3>1, SizeAssumption
      <3>4. TotalOf(s) = plan.total
        BY <3>1, <3>2, <3>3
      <3>5. QED
        BY <3>1, <3>4 DEF TotalOf, Penalty
    <2>4. pc = "threw" => \/ plan.segs = <<>>
                          \/ \E i \in DOMAIN plan.segs : plan.segs[i].seg \in uncased
      BY <2>1 DEF SelectorInv, ConfigOK, CasesKnown, Known
    <2>5. ASSUME pc = "configured", NEW i \in DOMAIN config.bits
          PROVE  IF config.order = "MSB_TO_LSB"
                 THEN Segments[i] = <<Width - SumTo(config.bits, i), Width - SumTo(config.bits, i - 1) - 1>>
                 ELSE Segments[i] = <<SumTo(config.bits, i - 1), SumTo(config.bits, i) - 1>>
      <3>1. Tiles(plan.segs, 0, Width)
        BY <2>1, <2>5 DEF SelectorInv, ConfigOK, PlanOK
      <3>2. /\ config.bits = [j \in DOMAIN Segments |-> WidthOf(Segments[j])]
            /\ config.order = Order
        BY <2>1, <2>5 DEF SelectorInv, ConfigOK
      <3>3. PICK bits : bits = config.bits
        OBVIOUS
      <3>4. \A j \in DOMAIN bits :
                 IF Order = "MSB_TO_LSB"
                 THEN Segments[j] = <<Width - SumTo(bits, j), Width - SumTo(bits, j - 1) - 1>>
                 ELSE Segments[j] = <<SumTo(bits, j - 1), SumTo(bits, j) - 1>>
        BY <2>2, <3>1, <3>2, <3>3, SegmentsTaken
      <3>5. QED
        BY <3>2, <3>3, <3>4, <2>5
    <2>6. QED
      BY <2>3, <2>4, <2>5 DEF PlanConfigures
  <1>2. QED
    BY <1>1, SelectorHolds, CasesHold, PTL

\* A selection that ends in one segment over the whole width is the cheapest without
\* pruning: the search that select repeats undoes what pruning may have hidden.
THEOREM CollapseIsOptimal == Spec => []CollapseIsCheapest
  <1>1. SelectorInv => CollapseIsCheapest
    <2>1. SUFFICES ASSUME SelectorInv, pc = "selected", Degenerate, ~opt.merge
                   PROVE  plan.total = LeastCost(Table(FALSE))
      BY DEF CollapseIsCheapest
    <2>2. OptOK /\ Table(FALSE) \in Tables
      BY <2>1, TableTyped DEF SelectorInv, InputsOK
    <2>3. Optimal(plan, Table(FALSE))
      BY <2>1 DEF SelectorInv, SearchOK
    <2>4. QED
      BY <2>2, <2>3, OptimalIsLeast
  <1>2. QED
    BY <1>1, SelectorHolds, PTL

\* No pass of tryMergeAdjacentSegments makes the plan dearer, whatever a merged
\* segment is costed at once the reorderers no longer save on it.
THEOREM MergingNeverCosts == Spec => MergingPays
  <1>1. SelectorInv /\ [Next]_vars => [pc = "merge" => plan'.total <= plan.total]_vars
    <2>1. SUFFICES ASSUME SelectorInv, Next, pc = "merge" PROVE plan'.total <= plan.total
      OBVIOUS
    <2>2. plan.total \in Nat
      BY <2>1, MergeBefore
    <2>3. CASE MergePassDone
      BY <2>1, <2>3, MergePassDoneKeeps
    <2>4. CASE MergeTwo \/ MergeNone
      <3>1. plan' = plan
        BY <2>4 DEF MergeTwo, MergeNone
      <3>2. QED
        BY <3>1, <2>2
    <2>5. ~Fill /\ ~Search /\ ~Check /\ ~Configure
      BY <2>1 DEF Fill, Search, Check, Configure
    <2>6. QED
      BY <2>1, <2>3, <2>4, <2>5 DEF Next, Merging
  <1>2. QED
    BY <1>1, SelectorHolds, PTL DEF Spec, MergingPays
=============================================================================

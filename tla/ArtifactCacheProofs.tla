------------------------ MODULE ArtifactCacheProofs ------------------------
(***************************************************************************)
(* Proofs about ArtifactCache, for every registry, sweep and bound, and    *)
(* every number of warm-ups and iterations.                                *)
(***************************************************************************)
EXTENDS ArtifactCache, Induction

\* The keys of a list of entries.
KeysOf(list) == [i \in DOMAIN list |-> list[i].key]

\* The index leads from the key of every entry to its node, and from no other
\* key; no two entries share a node.
Indexed(list, ix) ==
    /\ \A i, j \in DOMAIN list : list[i].node = list[j].node => i = j
    /\ DOMAIN ix = {list[i].key : i \in DOMAIN list}
    /\ \A i \in DOMAIN list : ix[list[i].key] = list[i].node

\* The entry in use is the one that was asked for, of a stream still in the
\* sweep.
HeldInv ==
    held # None =>
        /\ request # None /\ request.stream \notin past
        /\ \E i \in DOMAIN entries :
               /\ entries[i].node = held
               /\ entries[i].key = [enc |-> request.enc, stream |-> request.stream]
               /\ Satisfies(entries[i].art, request.measurement)

\* An artifact is of its key, and of one plan, selected on its own stream.
Sound(x) ==
    /\ x.art.of = x.key
    /\ x.art.timings \cup x.art.heap \subseteq {x.art.plan}
    /\ x.art.plan # None => x.art.plan.of = x.art.of.stream

\* What is resident is of the stream of the latest request or of one that the
\* sweep has left.
SweepInv ==
    /\ maxResident = 1 => past = {}
    /\ maxResident # 1 => \A i \in DOMAIN entries :
           /\ request # None
           /\ entries[i].key.stream \in past \cup {request.stream}

\* A codec has the plan of every artifact of it that may be asked for again.
DecodeInv ==
    \A i \in DOMAIN entries :
        entries[i].key.enc \notin broken /\ entries[i].key.stream \notin past =>
            impl[entries[i].key.enc] = entries[i].art.plan

IInv == /\ TypeOK /\ Indexed(entries, index) /\ uses = KeysOf(entries)
        /\ HeldInv /\ SweepInv /\ DecodeInv
        /\ \A i \in DOMAIN entries : Sound(entries[i])
-----------------------------------------------------------------------------
(* Lists with elements left out.                                           *)

\* An element appended.
LEMMA AppendAt ==
    ASSUME NEW S, NEW s \in Seq(S), NEW x \in S, NEW m, m = Len(s)
    PROVE  /\ Append(s, x) \in Seq(S)
           /\ m \in Nat /\ Len(Append(s, x)) = m + 1
           /\ Append(s, x)[m + 1] = x
           /\ \A i \in 1..m : Append(s, x)[i] = s[i]
           /\ Append(s, x) = [i \in 1..(m + 1) |-> Append(s, x)[i]]
  <1>1. Append(s, x) \in Seq(S) /\ m \in Nat /\ Len(Append(s, x)) = m + 1
    BY AppendProperties
  <1>2. Append(s, x)[m + 1] = x /\ \A i \in 1..m : Append(s, x)[i] = s[i]
    BY AppendProperties
  <1>3. \A t \in Seq(S) : t = [i \in 1..Len(t) |-> t[i]]
    OBVIOUS
  <1>4. QED
    BY <1>1, <1>2, <1>3

\* A function on a prefix of the naturals is a list.
LEMMA FunctionIsSeq ==
    ASSUME NEW S, NEW n \in Nat, NEW f \in [1..n -> S]
    PROVE  f \in Seq(S) /\ Len(f) = n
  OBVIOUS

\* What sifting has kept of every prefix of a list.
Sifting(G, list, Keep) ==
    /\ G[0] = << >>
    /\ \A i \in 1..Len(list) :
          G[i] = IF list[i] \in Keep THEN Append(G[i - 1], list[i]) ELSE G[i - 1]

\* The sifted list is the last of them.
LEMMA SiftRecursion ==
    ASSUME NEW S, NEW list \in Seq(S), NEW Keep
    PROVE  \E G \in [0..Len(list) -> Seq(S)] :
              Sifting(G, list, Keep) /\ Sifted(list, Keep) = G[Len(list)]
  <1>1. PICK n \in Nat : n = Len(list)
    OBVIOUS
  <1> DEFINE step == [p \in Seq(S) \X (Nat \ {0}) |->
                         IF p[2] > n THEN << >>
                         ELSE IF list[p[2]] \in Keep THEN Append(p[1], list[p[2]]) ELSE p[1]]
             e == << >>
  <1>2. \A i \in 1..n : list[i] \in S
    BY <1>1
  <1>3. e \in Seq(S)
    OBVIOUS
  <1>4. step \in [Seq(S) \X (Nat \ {0}) -> Seq(S)]
    <2>1. ASSUME NEW p \in Seq(S) \X (Nat \ {0})
          PROVE  (IF p[2] > n THEN << >>
                  ELSE IF list[p[2]] \in Keep THEN Append(p[1], list[p[2]]) ELSE p[1]) \in Seq(S)
      <3>1. p[1] \in Seq(S) /\ p[2] \in Nat \ {0}
        OBVIOUS
      <3>2. p[2] <= n => list[p[2]] \in S
        BY <1>2, <3>1
      <3>3. CASE p[2] > n
        BY <3>3
      <3>4. CASE ~(p[2] > n)
        <4>1. list[p[2]] \in S
          BY <1>1, <3>1, <3>2, <3>4
        <4>2. Append(p[1], list[p[2]]) \in Seq(S)
          BY <3>1, <4>1
        <4>3. QED
          BY <3>1, <3>4, <4>2
      <3>5. QED
        BY <3>3, <3>4
    <2>2. QED
      BY <2>1
  <1>5. ASSUME NEW i \in 1..n, NEW q \in Seq(S)
        PROVE  step[<<q, i>>] = IF list[i] \in Keep THEN Append(q, list[i]) ELSE q
    <2>1. <<q, i>> \in Seq(S) \X (Nat \ {0}) /\ ~(i > n)
      BY <1>1
    <2>2. QED
      BY <2>1
  <1> HIDE DEF step, e
  <1>6. PICK g \in [0..n -> Seq(S)] : Follows(g, e, step, n)
    BY <1>3, <1>4, FiniteRecursion
  <1>7. /\ g[0] = << >>
        /\ \A i \in 1..n : g[i] = IF list[i] \in Keep THEN Append(g[i - 1], list[i]) ELSE g[i - 1]
    <2>1. g[0] = e /\ \A i \in 1..n : g[i] = step[<<g[i - 1], i>>]
      BY <1>6 DEF Follows
    <2>2. ASSUME NEW i \in 1..n PROVE g[i - 1] \in Seq(S)
      <3>1. i - 1 \in 0..n
        BY <1>1
      <3>2. QED
        BY <3>1
    <2>3. QED
      BY <1>5, <2>1, <2>2 DEF e
  <1>8. Sifting(g, list, Keep)
    BY <1>1, <1>7 DEF Sifting
  <1> DEFINE Rule(h) == h = [i \in 0..n |->
                  IF i = 0 THEN << >>
                  ELSE IF list[i] \in Keep THEN Append(h[i - 1], list[i]) ELSE h[i - 1]]
             c == CHOOSE h : Rule(h)
  <1>9. Rule(g)
    <2>1. ASSUME NEW i \in 0..n
          PROVE  g[i] = IF i = 0 THEN << >>
                        ELSE IF list[i] \in Keep THEN Append(g[i - 1], list[i]) ELSE g[i - 1]
      <3>1. CASE i = 0
        BY <1>7, <3>1
      <3>2. CASE i # 0
        <4>1. i \in 1..n
          BY <1>1, <3>2
        <4>2. QED
          BY <1>7, <3>2, <4>1
      <3>3. QED
        BY <3>1, <3>2
    <2>2. QED
      BY <2>1
  <1>10. Rule(c)
    <2> HIDE DEF Rule
    <2> QED
      BY <1>9
  <1>11. Sifted(list, Keep) = c[n]
    BY <1>1 DEF Sifted
  <1> HIDE DEF c
  <1>12. /\ c[0] = << >>
         /\ \A i \in 1..n : c[i] = IF list[i] \in Keep THEN Append(c[i - 1], list[i]) ELSE c[i - 1]
    <2>1. ASSUME NEW i \in 0..n
          PROVE  c[i] = IF i = 0 THEN << >>
                        ELSE IF list[i] \in Keep THEN Append(c[i - 1], list[i]) ELSE c[i - 1]
      BY <1>10
    <2>2. 0 \in 0..n /\ \A i \in 1..n : i \in 0..n /\ i # 0
      BY <1>1
    <2>3. QED
      BY <2>1, <2>2
  <1> HIDE DEF Rule
  <1> DEFINE P == {i \in Nat : i <= n => c[i] = g[i]}
  <1>13. 0 \in P
    BY <1>7, <1>12
  <1>14. ASSUME NEW i \in Nat, i \in P PROVE i + 1 \in P
    <2>1. SUFFICES ASSUME i + 1 <= n PROVE c[i + 1] = g[i + 1]
      OBVIOUS
    <2>2. PICK j \in 1..n : j = i + 1 /\ j - 1 = i
      BY <1>1, <2>1
    <2>3. c[i] = g[i]
      BY <1>1, <1>14, <2>1
    <2>4. QED
      BY <1>7, <1>12, <2>2, <2>3
  <1>15. \A i \in Nat : i \in P
    <2> HIDE DEF P
    <2> QED
      BY <1>13, <1>14, InductionOnNat
  <1>16. c[n] = g[n]
    BY <1>1, <1>15
  <1>17. QED
    BY <1>1, <1>8, <1>11, <1>16

\* A list is sifted: its kept elements, in order.
Sifts(s, list, Keep) ==
    \E m \in 0..Len(list) : \E e \in [1..m -> 1..Len(list)] :
        /\ s = [i \in 1..m |-> list[e[i]]]
        /\ \A i, j \in 1..m : i < j => e[i] < e[j]
        /\ \A i \in 1..m : list[e[i]] \in Keep
        /\ \A j \in 1..Len(list) : list[j] \in Keep => \E i \in 1..m : e[i] = j

\* Up to a prefix.
SiftsTo(s, list, Keep, n) ==
    \E m \in 0..n : \E e \in [1..m -> 1..n] :
        /\ s = [i \in 1..m |-> list[e[i]]]
        /\ \A i, j \in 1..m : i < j => e[i] < e[j]
        /\ \A i \in 1..m : list[e[i]] \in Keep
        /\ \A j \in 1..n : list[j] \in Keep => \E i \in 1..m : e[i] = j

\* Sifting keeps what it is to keep, in its order.
LEMMA SiftedSifts ==
    ASSUME NEW S, NEW list \in Seq(S), NEW Keep
    PROVE  Sifted(list, Keep) \in Seq(S) /\ Sifts(Sifted(list, Keep), list, Keep)
  <1>1. PICK n \in Nat : n = Len(list)
    OBVIOUS
  <1>2. PICK G \in [0..n -> Seq(S)] : Sifting(G, list, Keep) /\ Sifted(list, Keep) = G[n]
    BY <1>1, SiftRecursion
  <1>3. /\ G[0] = << >>
        /\ \A i \in 1..n : G[i] = IF list[i] \in Keep THEN Append(G[i - 1], list[i]) ELSE G[i - 1]
    BY <1>1, <1>2 DEF Sifting
  <1> DEFINE P == {i \in Nat : i <= n => SiftsTo(G[i], list, Keep, i)}
  <1>4. 0 \in P
    <2> DEFINE e == [i \in 1..0 |-> 0]
               z == 0
    <2>1. /\ z \in 0..z /\ e \in [1..z -> 1..z]
          /\ G[z] = [i \in 1..z |-> list[e[i]]]
          /\ \A i, j \in 1..z : i < j => e[i] < e[j]
          /\ \A i \in 1..z : list[e[i]] \in Keep
          /\ \A j \in 1..z : list[j] \in Keep => \E i \in 1..z : e[i] = j
      BY <1>3
    <2> HIDE DEF e
    <2>2. SiftsTo(G[z], list, Keep, z)
      BY <2>1 DEF SiftsTo
    <2>3. QED
      BY <2>2
  <1>5. ASSUME NEW k \in Nat, k \in P PROVE k + 1 \in P
    <2>1. SUFFICES ASSUME k + 1 <= n PROVE SiftsTo(G[k + 1], list, Keep, k + 1)
      OBVIOUS
    <2>2. SiftsTo(G[k], list, Keep, k)
      BY <1>5, <2>1
    <2>3. PICK m \in 0..k : \E e \in [1..m -> 1..k] :
              /\ G[k] = [i \in 1..m |-> list[e[i]]]
              /\ \A i, j \in 1..m : i < j => e[i] < e[j]
              /\ \A i \in 1..m : list[e[i]] \in Keep
              /\ \A j \in 1..k : list[j] \in Keep => \E i \in 1..m : e[i] = j
      BY <2>2 DEF SiftsTo
    <2>4. PICK e \in [1..m -> 1..k] :
              /\ G[k] = [i \in 1..m |-> list[e[i]]]
              /\ \A i, j \in 1..m : i < j => e[i] < e[j]
              /\ \A i \in 1..m : list[e[i]] \in Keep
              /\ \A j \in 1..k : list[j] \in Keep => \E i \in 1..m : e[i] = j
      BY <2>3
    <2>5. PICK l \in 1..n : l = k + 1 /\ l - 1 = k
      BY <2>1
    <2>6. CASE list[l] \notin Keep
      <3>1. G[l] = G[k]
        BY <1>3, <2>5, <2>6
      <3>2. m \in 0..l /\ e \in [1..m -> 1..l]
        BY <2>5
      <3>3. \A j \in 1..l : list[j] \in Keep => \E i \in 1..m : e[i] = j
        <4>1. \A j \in 1..l : j \in 1..k \/ j = l
          BY <2>5
        <4>2. QED
          BY <2>4, <2>6, <4>1
      <3>4. SiftsTo(G[l], list, Keep, l)
        <4>1. G[l] = [i \in 1..m |-> list[e[i]]]
          BY <2>4, <3>1
        <4>2. /\ \A i, j \in 1..m : i < j => e[i] < e[j]
              /\ \A i \in 1..m : list[e[i]] \in Keep
          BY <2>4
        <4>3. QED
          BY <3>2, <3>3, <4>1, <4>2 DEF SiftsTo
      <3>5. QED
        BY <2>5, <3>4
    <2>7. CASE list[l] \in Keep
      <3> DEFINE f == [i \in 1..(m + 1) |-> IF i = m + 1 THEN l ELSE e[i]]
      <3>1. \A i \in 1..(m + 1) : i = m + 1 \/ i \in 1..m
        OBVIOUS
      <3>2. m + 1 \in 0..l /\ f \in [1..(m + 1) -> 1..l]
        BY <2>5, <3>1
      <3>3. /\ \A i \in 1..m : f[i] = e[i] /\ i # m + 1
            /\ f[m + 1] = l
        <4>1. m + 1 \in 1..(m + 1) /\ \A i \in 1..m : i \in 1..(m + 1) /\ i # m + 1
          OBVIOUS
        <4>2. QED
          BY <4>1
      <3> HIDE DEF f
      <3>4. G[l] = Append(G[k], list[l])
        BY <1>3, <2>5, <2>7
      <3>5. G[k] \in Seq(S) /\ Len(G[k]) = m /\ \A i \in 1..m : G[k][i] = list[e[i]]
        <4>1. k \in 0..n
          BY <2>1
        <4>2. G[k] \in Seq(S)
          BY <4>1
        <4>3. m \in Nat
          BY <2>3
        <4>4. Len([i \in 1..m |-> list[e[i]]]) = m
          BY <4>3
        <4>5. QED
          BY <2>4, <4>2, <4>4
      <3>6. G[l] = [i \in 1..(m + 1) |-> list[f[i]]]
        <4>1. list[l] \in S
          BY <1>1
        <4>2. PICK q \in Seq(S) : q = Append(G[k], list[l])
          BY <3>5, <4>1, AppendAt
        <4>3. q[m + 1] = list[l] /\ \A i \in 1..m : q[i] = list[e[i]]
          BY <3>5, <4>1, <4>2, AppendAt
        <4>4. q = [i \in 1..(m + 1) |-> q[i]]
          BY <3>5, <4>1, <4>2, AppendAt
        <4>5. \A i \in 1..(m + 1) : q[i] = list[f[i]]
          BY <3>1, <3>3, <4>3
        <4>6. QED
          BY <3>4, <4>2, <4>4, <4>5
      <3>7. \A i, j \in 1..(m + 1) : i < j => f[i] < f[j]
        <4>1. ASSUME NEW i \in 1..(m + 1), NEW j \in 1..(m + 1), i < j PROVE f[i] < f[j]
          <5>1. i \in 1..m
            BY <4>1
          <5>2. f[i] = e[i] /\ e[i] \in 1..k
            BY <3>3, <5>1
          <5>3. CASE j = m + 1
            <6>1. f[j] = l /\ f[i] \in 1..k
              BY <3>3, <5>2, <5>3
            <6>2. QED
              BY ONLY <2>5, <6>1, k \in Nat
          <5>4. CASE j \in 1..m
            <6>1. f[j] = e[j] /\ e[i] < e[j]
              BY <2>4, <3>3, <4>1, <5>1, <5>4
            <6>2. QED
              BY <5>2, <6>1
          <5>5. QED
            BY <3>1, <5>3, <5>4
        <4>2. QED
          BY <4>1
      <3>8. \A i \in 1..(m + 1) : list[f[i]] \in Keep
        BY <2>4, <2>7, <3>1, <3>3
      <3>9. \A j \in 1..l : list[j] \in Keep => \E i \in 1..(m + 1) : f[i] = j
        <4>1. ASSUME NEW j \in 1..l, list[j] \in Keep PROVE \E i \in 1..(m + 1) : f[i] = j
          <5>1. CASE j = l
            <6>1. m + 1 \in 1..(m + 1)
              OBVIOUS
            <6>2. QED
              BY <3>3, <5>1, <6>1
          <5>2. CASE j # l
            <6>1. j \in 1..k
              BY <2>5, <5>2
            <6>2. PICK i \in 1..m : e[i] = j
              BY <2>4, <4>1, <6>1
            <6>3. i \in 1..(m + 1)
              OBVIOUS
            <6>4. QED
              BY <3>3, <6>2, <6>3
          <5>3. QED
            BY <5>1, <5>2
        <4>2. QED
          BY <4>1
      <3>10. SiftsTo(G[l], list, Keep, l)
        BY <3>2, <3>6, <3>7, <3>8, <3>9 DEF SiftsTo
      <3>11. QED
        BY <2>5, <3>10
    <2>8. QED
      BY <2>6, <2>7
  <1>6. \A i \in Nat : i \in P
    <2> HIDE DEF P
    <2> QED
      BY <1>4, <1>5, InductionOnNat
  <1>7. SiftsTo(G[n], list, Keep, n) /\ G[n] \in Seq(S)
    BY <1>6
  <1>8. SiftsTo(Sifted(list, Keep), list, Keep, n) /\ Sifted(list, Keep) \in Seq(S)
    BY <1>2, <1>7
  <1>9. SiftsTo(Sifted(list, Keep), list, Keep, Len(list))
    BY <1>1, <1>8
  <1>10. QED
    BY <1>8, <1>9 DEF Sifts, SiftsTo

\* The keys of sifted entries are their sifted keys.
LEMMA KeysOfSifted ==
    ASSUME NEW list \in Seq(Entries), NEW Keep, NEW K,
           \A i \in 1..Len(list) : list[i] \in Keep <=> list[i].key \in K
    PROVE  KeysOf(Sifted(list, Keep)) = Sifted(KeysOf(list), K)
  <1>1. PICK n \in Nat : n = Len(list)
    OBVIOUS
  <1>2. /\ \A i \in 1..n : list[i] \in Entries /\ list[i].key \in Keys
        /\ \A i \in 1..n : KeysOf(list)[i] = list[i].key
        /\ KeysOf(list) \in Seq(Keys) /\ Len(KeysOf(list)) = n
    <2>1. \A i \in 1..n : list[i] \in Entries
      BY <1>1
    <2>2. \A i \in 1..n : list[i].key \in Keys
      BY <2>1 DEF Entries
    <2>3. KeysOf(list) = [i \in 1..n |-> list[i].key]
      BY <1>1 DEF KeysOf
    <2>4. QED
      BY <2>1, <2>2, <2>3
  <1>3. PICK G \in [0..n -> Seq(Entries)] : Sifting(G, list, Keep) /\ Sifted(list, Keep) = G[n]
    BY <1>1, SiftRecursion
  <1>4. PICK H \in [0..n -> Seq(Keys)] :
            Sifting(H, KeysOf(list), K) /\ Sifted(KeysOf(list), K) = H[n]
    <2>1. PICK L \in Seq(Keys) : L = KeysOf(list)
      BY <1>2
    <2>2. Len(L) = n
      BY <1>2, <2>1
    <2>3. QED
      BY <2>1, <2>2, SiftRecursion
  <1>5. /\ G[0] = << >>
        /\ \A i \in 1..n : G[i] = IF list[i] \in Keep THEN Append(G[i - 1], list[i]) ELSE G[i - 1]
    BY <1>1, <1>3 DEF Sifting
  <1>6. /\ H[0] = << >>
        /\ \A i \in 1..n : H[i] = IF list[i].key \in K THEN Append(H[i - 1], list[i].key)
                                  ELSE H[i - 1]
    BY <1>2, <1>4 DEF Sifting
  <1>7. ASSUME NEW s \in Seq(Entries), NEW x \in Entries
        PROVE  KeysOf(Append(s, x)) = Append(KeysOf(s), x.key)
    <2>1. PICK m \in Nat : m = Len(s)
      OBVIOUS
    <2>2. PICK t \in Seq(Entries) : t = Append(s, x)
      BY AppendAt
    <2>3. Len(t) = m + 1 /\ t[m + 1] = x /\ \A i \in 1..m : t[i] = s[i]
      BY <2>1, <2>2, AppendAt
    <2>4. PICK u \in Seq(Keys) : u = KeysOf(s) /\ Len(u) = m /\ \A i \in 1..m : u[i] = s[i].key
      <3>1. \A i \in 1..m : s[i] \in Entries
        BY <2>1
      <3>2. \A i \in 1..m : s[i].key \in Keys
        BY <3>1 DEF Entries
      <3>3. KeysOf(s) = [i \in 1..m |-> s[i].key]
        BY <2>1 DEF KeysOf
      <3>4. KeysOf(s) \in [1..m -> Keys]
        BY <3>2, <3>3
      <3>5. KeysOf(s) \in Seq(Keys) /\ Len(KeysOf(s)) = m
        BY <3>4, FunctionIsSeq
      <3>6. \A i \in 1..m : KeysOf(s)[i] = s[i].key
        BY <3>3
      <3>7. QED
        BY <3>5, <3>6
    <2>5. PICK y \in Keys : y = x.key
      BY DEF Entries
    <2>6. PICK v \in Seq(Keys) : v = Append(u, y)
      BY AppendAt
    <2>7. Len(v) = m + 1 /\ v[m + 1] = y /\ \A i \in 1..m : v[i] = u[i]
      <3>1. m = Len(u)
        BY <2>4
      <3>2. /\ Len(Append(u, y)) = m + 1
            /\ Append(u, y)[m + 1] = y
            /\ \A i \in 1..m : Append(u, y)[i] = u[i]
        BY <3>1, AppendAt
      <3>3. QED
        BY <2>6, <3>2
    <2>8. v = [i \in 1..(m + 1) |-> v[i]]
      BY <2>4, <2>6, AppendAt
    <2>9. KeysOf(t) = [i \in 1..(m + 1) |-> t[i].key]
      BY <2>3 DEF KeysOf
    <2>10. \A i \in 1..(m + 1) : t[i].key = v[i]
      <3>1. \A i \in 1..(m + 1) : i \in 1..m \/ i = m + 1
        OBVIOUS
      <3>2. QED
        BY <2>3, <2>4, <2>5, <2>7, <3>1
    <2>11. QED
      BY <2>2, <2>4, <2>5, <2>6, <2>8, <2>9, <2>10
  <1> DEFINE P == {i \in Nat : i <= n => KeysOf(G[i]) = H[i]}
  <1>8. 0 \in P
    BY <1>5, <1>6 DEF KeysOf
  <1>9. ASSUME NEW i \in Nat, i \in P PROVE i + 1 \in P
    <2>1. SUFFICES ASSUME i + 1 <= n PROVE KeysOf(G[i + 1]) = H[i + 1]
      OBVIOUS
    <2>2. PICK j \in 1..n : j = i + 1 /\ j - 1 = i
      BY <2>1
    <2>3. KeysOf(G[i]) = H[i] /\ G[i] \in Seq(Entries)
      BY <1>9, <2>1
    <2>4. list[j] \in Entries /\ (list[j] \in Keep <=> list[j].key \in K)
      BY <1>1, <1>2
    <2>5. CASE list[j] \in Keep
      <3>1. G[j] = Append(G[i], list[j])
        BY <1>5, <2>2, <2>5
      <3>2. H[j] = Append(H[i], list[j].key)
        BY <1>6, <2>2, <2>4, <2>5
      <3>3. KeysOf(Append(G[i], list[j])) = Append(KeysOf(G[i]), list[j].key)
        BY <1>7, <2>3, <2>4
      <3>4. QED
        BY <2>2, <2>3, <3>1, <3>2, <3>3
    <2>6. CASE list[j] \notin Keep
      BY <1>5, <1>6, <2>2, <2>3, <2>4, <2>6
    <2>7. QED
      BY <2>5, <2>6
  <1>10. \A i \in Nat : i \in P
    <2> HIDE DEF P
    <2> QED
      BY <1>8, <1>9, InductionOnNat
  <1>11. KeysOf(G[n]) = H[n]
    BY <1>10
  <1>12. QED
    BY <1>3, <1>4, <1>11

\* To keep the elements of a prefix of a list without repetitions is to keep
\* the prefix.
LEMMA SiftedPrefix ==
    ASSUME NEW S, NEW list \in Seq(S), NEW m \in 0..Len(list), NEW Keep,
           \A i \in 1..Len(list) : list[i] \in Keep <=> i <= m
    PROVE  Sifted(list, Keep) = SubSeq(list, 1, m)
  <1>1. PICK n \in Nat : n = Len(list)
    OBVIOUS
  <1>2. PICK G \in [0..n -> Seq(S)] : Sifting(G, list, Keep) /\ Sifted(list, Keep) = G[n]
    BY <1>1, SiftRecursion
  <1>3. /\ G[0] = << >>
        /\ \A i \in 1..n : G[i] = IF list[i] \in Keep THEN Append(G[i - 1], list[i]) ELSE G[i - 1]
    BY <1>1, <1>2 DEF Sifting
  <1>4. m \in Nat /\ m <= n
    BY <1>1
  <1> DEFINE P == {i \in Nat : i <= n => G[i] = SubSeq(list, 1, IF i <= m THEN i ELSE m)}
  <1>5. 0 \in P
    BY <1>3, <1>4
  <1>6. ASSUME NEW i \in Nat, i \in P PROVE i + 1 \in P
    <2>1. SUFFICES ASSUME i + 1 <= n
                   PROVE  G[i + 1] = SubSeq(list, 1, IF i + 1 <= m THEN i + 1 ELSE m)
      OBVIOUS
    <2>2. PICK j \in 1..n : j = i + 1 /\ j - 1 = i
      BY <2>1
    <2>3. G[i] = SubSeq(list, 1, IF i <= m THEN i ELSE m)
      BY <1>6, <2>1
    <2>4. list[j] \in Keep <=> j <= m
      BY <1>1
    <2>5. CASE j <= m
      <3>1. G[j] = Append(SubSeq(list, 1, i), list[j])
        <4>1. i <= m
          BY <1>4, <2>2, <2>5
        <4>2. G[i] = SubSeq(list, 1, i)
          BY <2>3, <4>1
        <4>3. QED
          BY <1>3, <2>2, <2>4, <2>5, <4>2
      <3>2. Append(SubSeq(list, 1, i), list[j]) = SubSeq(list, 1, j)
        <4>1. SubSeq(list, 1, j) = [x \in 1..j |-> list[x]] /\ SubSeq(list, 1, i) = [x \in 1..i |-> list[x]]
          BY <1>1, <2>2
        <4>2. QED
          BY <1>1, <2>2, <4>1
      <3>3. QED
        BY <2>2, <2>5, <3>1, <3>2
    <2>6. CASE ~(j <= m)
      <3>1. (IF i <= m THEN i ELSE m) = m
        BY <1>4, <2>2, <2>6
      <3>2. QED
        BY <1>3, <2>2, <2>3, <2>4, <2>6, <3>1
    <2>7. QED
      BY <2>5, <2>6
  <1>7. \A i \in Nat : i \in P
    <2> HIDE DEF P
    <2> QED
      BY <1>5, <1>6, InductionOnNat
  <1>8. (IF n <= m THEN n ELSE m) = m
    BY <1>4
  <1>9. G[n] = SubSeq(list, 1, m)
    BY <1>7, <1>8
  <1>10. QED
    BY <1>2, <1>9

\* What sifting leaves comes from the list, and nothing to be kept is lost.
LEMMA SiftedElements ==
    ASSUME NEW S, NEW list \in Seq(S), NEW Keep, NEW s, s = Sifted(list, Keep)
    PROVE  /\ s \in Seq(S) /\ Len(s) <= Len(list)
           /\ \A i \in 1..Len(s) : \E j \in 1..Len(list) : s[i] = list[j] /\ list[j] \in Keep
           /\ \A j \in 1..Len(list) : list[j] \in Keep => \E i \in 1..Len(s) : s[i] = list[j]
  <1>1. PICK n \in Nat : n = Len(list)
    OBVIOUS
  <1>2. s \in Seq(S) /\ Sifts(s, list, Keep)
    BY SiftedSifts
  <1>3. PICK m \in 0..n : \E e \in [1..m -> 1..n] :
            /\ s = [i \in 1..m |-> list[e[i]]]
            /\ \A i \in 1..m : list[e[i]] \in Keep
            /\ \A j \in 1..n : list[j] \in Keep => \E i \in 1..m : e[i] = j
    BY <1>1, <1>2 DEF Sifts
  <1>4. PICK e \in [1..m -> 1..n] :
            /\ s = [i \in 1..m |-> list[e[i]]]
            /\ \A i \in 1..m : list[e[i]] \in Keep
            /\ \A j \in 1..n : list[j] \in Keep => \E i \in 1..m : e[i] = j
    BY <1>3
  <1>5. Len(s) = m
    <2>1. m \in Nat /\ Len([i \in 1..m |-> list[e[i]]]) = m
      OBVIOUS
    <2>2. QED
      BY <1>4, <2>1
  <1>6. \A i \in 1..m : s[i] = list[e[i]]
    BY <1>4
  <1>7. m <= n
    OBVIOUS
  <1>8. \A i \in 1..m : \E j \in 1..n : s[i] = list[j] /\ list[j] \in Keep
    BY ONLY <1>4, <1>6, e \in [1..m -> 1..n]
  <1>9. \A j \in 1..n : list[j] \in Keep => \E i \in 1..m : s[i] = list[j]
    BY ONLY <1>4, <1>6, e \in [1..m -> 1..n]
  <1>10. QED
    BY <1>1, <1>2, <1>5, <1>7, <1>8, <1>9

\* Sifted by keys, a list is indexed by the part of the index for those keys.
LEMMA SiftedIndexed ==
    ASSUME NEW list \in Seq(Entries), NEW ix, Indexed(list, ix), NEW Keep, NEW K,
           \A i \in 1..Len(list) : list[i] \in Keep <=> list[i].key \in K,
           NEW iy, DOMAIN iy = DOMAIN ix \cap K, \A k \in DOMAIN iy : iy[k] = ix[k]
    PROVE  Indexed(Sifted(list, Keep), iy)
  <1>1. PICK n \in Nat : n = Len(list)
    OBVIOUS
  <1>2. PICK s \in Seq(Entries) : s = Sifted(list, Keep) /\ Sifts(s, list, Keep)
    BY SiftedSifts
  <1>3. PICK m \in 0..n : \E e \in [1..m -> 1..n] :
            /\ s = [i \in 1..m |-> list[e[i]]]
            /\ \A i, j \in 1..m : i < j => e[i] < e[j]
            /\ \A i \in 1..m : list[e[i]] \in Keep
            /\ \A j \in 1..n : list[j] \in Keep => \E i \in 1..m : e[i] = j
    BY <1>1, <1>2 DEF Sifts
  <1>4. PICK e \in [1..m -> 1..n] :
            /\ s = [i \in 1..m |-> list[e[i]]]
            /\ \A i, j \in 1..m : i < j => e[i] < e[j]
            /\ \A i \in 1..m : list[e[i]] \in Keep
            /\ \A j \in 1..n : list[j] \in Keep => \E i \in 1..m : e[i] = j
    BY <1>3
  <1>5. DOMAIN s = 1..m /\ DOMAIN list = 1..n
    <2>1. DOMAIN list = 1..n
      BY <1>1
    <2>2. QED
      BY ONLY <1>4, <2>1
  <1>6. \A i \in 1..m : s[i] = list[e[i]] /\ e[i] \in 1..n
    BY <1>4
  <1>7. /\ \A i, j \in 1..n : list[i].node = list[j].node => i = j
        /\ DOMAIN ix = {list[i].key : i \in 1..n}
        /\ \A i \in 1..n : ix[list[i].key] = list[i].node
    BY <1>5 DEF Indexed
  <1>8. ASSUME NEW i \in 1..m, NEW j \in 1..m, s[i].node = s[j].node PROVE i = j
    <2>1. e[i] = e[j]
      <3>1. e[i] \in 1..n /\ e[j] \in 1..n
        BY <1>6
      <3>2. list[e[i]].node = list[e[j]].node
        BY <1>6, <1>8
      <3>3. QED
        BY ONLY <1>7, <3>1, <3>2
    <2>2. ~(i < j) /\ ~(j < i)
      <3>1. e[i] \in Int /\ e[j] \in Int
        BY <1>6
      <3>2. QED
        BY <1>4, <2>1, <3>1
    <2>3. QED
      BY <2>2
  <1>9. DOMAIN iy = {s[i].key : i \in 1..m}
    <2>1. ASSUME NEW i \in 1..m PROVE s[i].key \in DOMAIN iy
      BY <1>1, <1>4, <1>6, <1>7
    <2>2. ASSUME NEW k \in DOMAIN iy PROVE \E i \in 1..m : k = s[i].key
      <3>1. PICK j \in 1..n : k = list[j].key /\ k \in K
        BY <1>7
      <3>2. PICK i \in 1..m : e[i] = j
        BY <1>1, <1>4, <3>1
      <3>3. QED
        BY <1>6, <3>1, <3>2
    <2>3. QED
      BY <2>1, <2>2
  <1>10. ASSUME NEW i \in 1..m PROVE iy[s[i].key] = s[i].node
    <2>1. s[i].key \in DOMAIN iy
      BY <1>9
    <2>2. ix[s[i].key] = s[i].node
      <3>1. PICK j \in 1..n : s[i] = list[j]
        BY <1>6
      <3>2. ix[list[j].key] = list[j].node
        BY <1>7
      <3>3. QED
        BY <3>1, <3>2
    <2>3. QED
      BY <2>1, <2>2
  <1>11. Indexed(s, iy)
    BY <1>5, <1>8, <1>9, <1>10 DEF Indexed
  <1>12. QED
    BY <1>2, <1>11

\* An entry with a key and a node of its own in front of an indexed list.
LEMMA FrontIndexed ==
    ASSUME NEW list \in Seq(Entries), NEW ix, Indexed(list, ix), NEW x \in Entries,
           x.key \notin DOMAIN ix, \A i \in 1..Len(list) : list[i].node # x.node
    PROVE  /\ <<x>> \o list \in Seq(Entries) /\ Len(<<x>> \o list) = Len(list) + 1
           /\ (<<x>> \o list)[1] = x
           /\ \A i \in 1..Len(list) : (<<x>> \o list)[i + 1] = list[i]
           /\ Indexed(<<x>> \o list, Mapped(ix, x.key, x.node))
           /\ KeysOf(<<x>> \o list) = <<x.key>> \o KeysOf(list)
  <1>1. PICK n \in Nat : n = Len(list)
    OBVIOUS
  <1>2. PICK s \in Seq(Entries) : /\ s = <<x>> \o list /\ Len(s) = n + 1 /\ s[1] = x
                                  /\ \A i \in 1..n : s[i + 1] = list[i]
    <2>1. <<x>> \in Seq(Entries) /\ Len(<<x>>) = 1 /\ <<x>>[1] = x
      OBVIOUS
    <2>2. /\ <<x>> \o list \in Seq(Entries) /\ Len(<<x>> \o list) = n + 1
          /\ (<<x>> \o list)[1] = x
          /\ \A i \in 1..n : (<<x>> \o list)[i + 1] = list[i]
      BY <1>1
    <2>3. QED
      BY <2>2
  <1>3. DOMAIN s = 1..(n + 1) /\ DOMAIN list = 1..n
    BY <1>1, <1>2
  <1>4. /\ \A i, j \in 1..n : list[i].node = list[j].node => i = j
        /\ DOMAIN ix = {list[i].key : i \in 1..n}
        /\ \A i \in 1..n : ix[list[i].key] = list[i].node
        /\ \A i \in 1..n : list[i].node # x.node
    BY <1>1, <1>3 DEF Indexed
  <1>5. \A i \in 1..(n + 1) : i = 1 \/ \E j \in 1..n : i = j + 1
    <2>1. ASSUME NEW i \in 1..(n + 1), i # 1 PROVE \E j \in 1..n : i = j + 1
      <3>1. i - 1 \in 1..n /\ i = (i - 1) + 1
        BY <2>1
      <3>2. QED
        BY <3>1
    <2>2. QED
      BY <2>1
  <1>6. Indexed(s, Mapped(ix, x.key, x.node))
    <2> DEFINE iy == Mapped(ix, x.key, x.node)
    <2>1. DOMAIN iy = DOMAIN ix \cup {x.key} /\ iy[x.key] = x.node
          /\ \A k \in DOMAIN ix : k # x.key => iy[k] = ix[k]
      BY DEF Mapped
    <2> HIDE DEF iy
    <2>2. ASSUME NEW i \in 1..(n + 1), NEW j \in 1..(n + 1), s[i].node = s[j].node PROVE i = j
      <3>1. CASE i = 1 /\ j = 1
        BY <3>1
      <3>2. CASE i # 1 /\ j # 1
        <4>1. PICK a \in 1..n : i = a + 1
          BY <1>5, <3>2
        <4>2. PICK b \in 1..n : j = b + 1
          BY <1>5, <3>2
        <4>3. list[a].node = list[b].node
          BY <1>2, <2>2, <4>1, <4>2
        <4>4. QED
          BY <1>4, <4>1, <4>2, <4>3
      <3>3. CASE i = 1 /\ j # 1
        <4>1. PICK b \in 1..n : j = b + 1
          BY <1>5, <3>3
        <4>2. QED
          BY <1>2, <1>4, <2>2, <3>3, <4>1
      <3>4. CASE i # 1 /\ j = 1
        <4>1. PICK b \in 1..n : i = b + 1
          BY <1>5, <3>4
        <4>2. QED
          BY <1>2, <1>4, <2>2, <3>4, <4>1
      <3>5. QED
        BY <3>1, <3>2, <3>3, <3>4
    <2>3. DOMAIN iy = {s[i].key : i \in 1..(n + 1)}
      <3>1. ASSUME NEW i \in 1..(n + 1) PROVE s[i].key \in DOMAIN iy
        BY <1>2, <1>4, <1>5, <2>1
      <3>2. ASSUME NEW k \in DOMAIN iy PROVE \E i \in 1..(n + 1) : k = s[i].key
        <4>1. CASE k = x.key
          <5>1. 1 \in 1..(n + 1)
            OBVIOUS
          <5>2. QED
            BY <1>2, <4>1, <5>1
        <4>2. CASE k # x.key
          <5>1. PICK j \in 1..n : k = list[j].key
            BY <1>4, <2>1, <4>2
          <5>2. j + 1 \in 1..(n + 1)
            OBVIOUS
          <5>3. QED
            BY <1>2, <5>1, <5>2
        <4>3. QED
          BY <4>1, <4>2
      <3>3. QED
        BY <3>1, <3>2
    <2>4. ASSUME NEW i \in 1..(n + 1) PROVE iy[s[i].key] = s[i].node
      <3>1. CASE i = 1
        BY <1>2, <2>1, <3>1
      <3>2. CASE i # 1
        <4>1. PICK j \in 1..n : i = j + 1
          BY <1>5, <3>2
        <4>2. list[j].key \in DOMAIN ix /\ list[j].key # x.key
          BY <1>4
        <4>3. s[i] = list[j]
          BY <1>2, <4>1
        <4>4. iy[list[j].key] = ix[list[j].key]
          BY <2>1, <4>2
        <4>5. QED
          BY <1>4, <4>3, <4>4
      <3>3. QED
        BY <3>1, <3>2
    <2>5. Indexed(s, iy)
      BY <1>3, <2>2, <2>3, <2>4 DEF Indexed
    <2>6. QED
      BY <2>5 DEF iy
  <1>7. KeysOf(s) = <<x.key>> \o KeysOf(list)
    <2>1. \A i \in 1..n : list[i] \in Entries
      BY <1>1
    <2>2. x.key \in Keys /\ \A i \in 1..n : list[i].key \in Keys
      BY <2>1 DEF Entries
    <2>3. PICK u \in Seq(Keys) : u = KeysOf(list) /\ Len(u) = n /\ \A i \in 1..n : u[i] = list[i].key
      <3>1. KeysOf(list) = [i \in 1..n |-> list[i].key]
        BY <1>3 DEF KeysOf
      <3>2. KeysOf(list) \in [1..n -> Keys]
        BY <2>2, <3>1
      <3>3. KeysOf(list) \in Seq(Keys) /\ Len(KeysOf(list)) = n
        BY <3>2, FunctionIsSeq
      <3>4. QED
        BY <3>1, <3>3
    <2>4. PICK k \in Keys : k = x.key
      BY <2>2
    <2>5. /\ <<k>> \o u \in Seq(Keys) /\ Len(<<k>> \o u) = n + 1
          /\ (<<k>> \o u)[1] = k
          /\ \A i \in 1..n : (<<k>> \o u)[i + 1] = u[i]
      <3>1. <<k>> \in Seq(Keys) /\ Len(<<k>>) = 1 /\ <<k>>[1] = k
        OBVIOUS
      <3>2. QED
        BY <2>3
    <2>6. PICK v \in Seq(Keys) : v = <<k>> \o u
      BY <2>5
    <2>7. v = [i \in 1..(n + 1) |-> v[i]]
      BY <2>5, <2>6
    <2>8. KeysOf(s) = [i \in 1..(n + 1) |-> s[i].key]
      BY <1>3 DEF KeysOf
    <2>9. ASSUME NEW i \in 1..(n + 1) PROVE s[i].key = v[i]
      <3>1. CASE i = 1
        BY <1>2, <2>4, <2>5, <2>6, <3>1
      <3>2. CASE i # 1
        <4>1. PICK j \in 1..n : i = j + 1
          BY <1>5, <3>2
        <4>2. QED
          BY <1>2, <2>3, <2>5, <2>6, <4>1
      <3>3. QED
        BY <3>1, <3>2
    <2>10. KeysOf(s) = v
      BY <2>7, <2>8, <2>9
    <2>11. QED
      BY <2>3, <2>4, <2>6, <2>10
  <1>8. QED
    BY <1>1, <1>2, <1>6, <1>7

\* A prefix of an indexed list, without the keys of the rest in the index.
LEMMA PrefixIndexed ==
    ASSUME NEW list \in Seq(Entries), NEW ix, Indexed(list, ix), NEW m \in 0..Len(list)
    PROVE  /\ SubSeq(list, 1, m) \in Seq(Entries) /\ Len(SubSeq(list, 1, m)) = m
           /\ \A i \in 1..m : SubSeq(list, 1, m)[i] = list[i]
           /\ Indexed(SubSeq(list, 1, m),
                      Unmapped(ix, {list[i].key : i \in (m + 1)..Len(list)}))
           /\ KeysOf(SubSeq(list, 1, m))
              = Sifted(KeysOf(list), {list[i].key : i \in 1..m})
  <1>1. PICK n \in Nat : n = Len(list)
    OBVIOUS
  <1>2. m \in Nat /\ m <= n
    BY <1>1
  <1>3. PICK s \in Seq(Entries) : s = SubSeq(list, 1, m) /\ Len(s) = m /\ \A i \in 1..m : s[i] = list[i]
    <2>1. SubSeq(list, 1, m) = [i \in 1..m |-> list[i]]
      BY <1>1, <1>2
    <2>2. [i \in 1..m |-> list[i]] \in [1..m -> Entries]
      BY <1>1, <1>2
    <2>3. SubSeq(list, 1, m) \in Seq(Entries) /\ Len(SubSeq(list, 1, m)) = m
      BY <1>2, <2>1, <2>2, FunctionIsSeq
    <2>4. QED
      BY <2>1, <2>3
  <1>4. DOMAIN s = 1..m /\ DOMAIN list = 1..n
    BY <1>1, <1>2, <1>3
  <1>5. /\ \A i, j \in 1..n : list[i].node = list[j].node => i = j
        /\ DOMAIN ix = {list[i].key : i \in 1..n}
        /\ \A i \in 1..n : ix[list[i].key] = list[i].node
    BY <1>4 DEF Indexed
  <1>6. \A i, j \in 1..n : list[i].key = list[j].key => i = j
    <2>1. ASSUME NEW i \in 1..n, NEW j \in 1..n, list[i].key = list[j].key PROVE i = j
      <3>1. list[i].node = ix[list[i].key] /\ list[j].node = ix[list[j].key]
        BY <1>5
      <3>2. QED
        BY <1>5, <2>1, <3>1
    <2>2. QED
      BY <2>1
  <1>7. \A i \in 1..n : i \in 1..m \/ i \in (m + 1)..n
    BY <1>2
  <1>8. \A i \in 1..m : i \in 1..n /\ i \notin (m + 1)..n
    BY <1>2
  <1>9. \A i \in (m + 1)..n : i \in 1..n
    BY <1>2
  <1> DEFINE iy == Unmapped(ix, {list[i].key : i \in (m + 1)..n})
  <1>10. /\ DOMAIN iy = DOMAIN ix \ {list[i].key : i \in (m + 1)..n}
         /\ \A k \in DOMAIN iy : iy[k] = ix[k]
    BY DEF Unmapped
  <1> HIDE DEF iy
  <1>11. DOMAIN iy = {s[i].key : i \in 1..m}
    <2>1. ASSUME NEW i \in 1..m PROVE s[i].key \in DOMAIN iy
      <3>1. s[i].key = list[i].key /\ i \in 1..n /\ i \notin (m + 1)..n
        BY <1>3, <1>8
      <3>2. \A j \in (m + 1)..n : list[j].key # list[i].key
        BY <1>6, <1>9, <3>1
      <3>3. QED
        BY <1>5, <1>10, <3>1, <3>2
    <2>2. ASSUME NEW k \in DOMAIN iy PROVE \E i \in 1..m : k = s[i].key
      <3>1. PICK i \in 1..n : k = list[i].key /\ i \notin (m + 1)..n
        BY <1>5, <1>10
      <3>2. i \in 1..m
        BY <1>7, <3>1
      <3>3. QED
        BY <1>3, <3>1, <3>2
    <2>3. QED
      BY <2>1, <2>2
  <1>12. Indexed(s, iy)
    <2>1. \A i, j \in 1..m : s[i].node = s[j].node => i = j
      BY <1>3, <1>5, <1>8
    <2>2. ASSUME NEW i \in 1..m PROVE iy[s[i].key] = s[i].node
      <3>1. s[i].key \in DOMAIN iy /\ s[i] = list[i] /\ i \in 1..n
        BY <1>3, <1>8, <1>11
      <3>2. iy[s[i].key] = ix[s[i].key]
        BY <1>10, <3>1
      <3>3. QED
        BY <1>5, <3>1, <3>2
    <2>3. QED
      BY <1>4, <1>11, <2>1, <2>2 DEF Indexed
  <1>13. KeysOf(s) = Sifted(KeysOf(list), {list[i].key : i \in 1..m})
    <2> DEFINE Keep == {list[i].key : i \in 1..m}
    <2>1. KeysOf(list) = [i \in 1..n |-> list[i].key] /\ KeysOf(s) = [i \in 1..m |-> s[i].key]
      BY <1>4 DEF KeysOf
    <2>9. \A i \in 1..n : list[i] \in Entries
      BY <1>1
    <2>2. \A i \in 1..n : list[i].key \in Keys
      BY <2>9 DEF Entries
    <2>3. PICK u \in Seq(Keys) : u = KeysOf(list) /\ Len(u) = n /\ \A i \in 1..n : u[i] = list[i].key
      <3>1. KeysOf(list) \in [1..n -> Keys]
        BY <2>1, <2>2
      <3>2. KeysOf(list) \in Seq(Keys) /\ Len(KeysOf(list)) = n
        BY <3>1, FunctionIsSeq
      <3>3. QED
        BY <2>1, <3>2
    <2>4. \A i \in 1..n : u[i] \in Keep <=> i <= m
      <3>1. ASSUME NEW i \in 1..n PROVE u[i] \in Keep <=> i <= m
        <4>1. CASE i <= m
          <5>1. i \in 1..m
            BY <4>1
          <5>2. QED
            BY <2>3, <4>1, <5>1
        <4>2. CASE ~(i <= m)
          <5>1. \A j \in 1..m : j \in 1..n /\ j # i
            BY <1>2, <4>2
          <5>2. \A j \in 1..m : list[j].key # list[i].key
            BY <1>6, <5>1
          <5>3. QED
            BY <2>3, <4>2, <5>2
        <4>3. QED
          BY <4>1, <4>2
      <3>2. QED
        BY <3>1
    <2> HIDE DEF Keep
    <2>5. Sifted(u, Keep) = SubSeq(u, 1, m)
      BY <1>1, <2>3, <2>4, SiftedPrefix
    <2>6. SubSeq(u, 1, m) = [i \in 1..m |-> u[i]]
      BY <1>2, <2>3
    <2>7. KeysOf(s) = [i \in 1..m |-> u[i]]
      <3>1. \A i \in 1..m : s[i].key = u[i]
        BY <1>3, <1>8, <2>3
      <3>2. QED
        BY <2>1, <3>1
    <2>8. QED
      BY <2>3, <2>5, <2>6, <2>7 DEF Keep
  <1>14. QED
    BY <1>1, <1>3, <1>12, <1>13 DEF iy

-----------------------------------------------------------------------------
(* The list and its index.                                                 *)

\* An indexed list is as long as its index is large, and has as many nodes.
LEMMA IndexedLen ==
    ASSUME NEW list \in Seq(Entries), NEW ix, Indexed(list, ix)
    PROVE  /\ Cardinality(DOMAIN ix) = Len(list)
           /\ Cardinality({list[i].node : i \in DOMAIN list}) = Len(list)
  <1>1. PICK n \in Nat : n = Len(list) /\ DOMAIN list = 1..n
    OBVIOUS
  <1>2. /\ \A i, j \in 1..n : list[i].node = list[j].node => i = j
        /\ DOMAIN ix = {list[i].key : i \in 1..n}
        /\ \A i \in 1..n : ix[list[i].key] = list[i].node
    BY <1>1 DEF Indexed
  <1>3. IsFiniteSet(1..n) /\ Cardinality(1..n) = n
    BY FS_Interval
  <1> DEFINE f == [i \in 1..n |-> list[i].key]
             g == [i \in 1..n |-> list[i].node]
  <1>4. f \in Bijection(1..n, DOMAIN ix)
    <2>1. f \in [1..n -> DOMAIN ix]
      BY <1>2
    <2>2. ASSUME NEW i \in 1..n, NEW j \in 1..n, f[i] = f[j] PROVE i = j
      <3>1. ix[list[i].key] = ix[list[j].key]
        BY <2>2
      <3>2. list[i].node = list[j].node
        BY <1>2, <3>1
      <3>3. QED
        BY <1>2, <3>2
    <2>3. \A k \in DOMAIN ix : \E i \in 1..n : f[i] = k
      BY <1>2
    <2>4. f \in Surjection(1..n, DOMAIN ix)
      BY <2>1, <2>3 DEF Surjection
    <2>5. f \in Injection(1..n, DOMAIN ix)
      BY <2>1, <2>2 DEF Injection, IsInjective
    <2>6. QED
      BY <2>4, <2>5 DEF Bijection
  <1>5. g \in Bijection(1..n, {list[i].node : i \in 1..n})
    <2>1. g \in [1..n -> {list[i].node : i \in 1..n}]
      OBVIOUS
    <2>2. \A i, j \in 1..n : g[i] = g[j] => i = j
      BY <1>2
    <2>3. \A k \in {list[i].node : i \in 1..n} : \E i \in 1..n : g[i] = k
      OBVIOUS
    <2>4. g \in Surjection(1..n, {list[i].node : i \in 1..n})
      BY <2>1, <2>3 DEF Surjection
    <2>5. g \in Injection(1..n, {list[i].node : i \in 1..n})
      BY <2>1, <2>2 DEF Injection, IsInjective
    <2>6. QED
      BY <2>4, <2>5 DEF Bijection
  <1>6. /\ Cardinality(DOMAIN ix) = n
        /\ Cardinality({list[i].node : i \in 1..n}) = n
    <2>1. ExistsBijection(1..n, DOMAIN ix) /\ ExistsBijection(1..n, {list[i].node : i \in 1..n})
      BY <1>4, <1>5 DEF ExistsBijection
    <2>2. QED
      BY <1>3, <2>1, FS_Bijection
  <1>7. QED
    BY <1>1, <1>6

\* Keys are unique in an indexed list.
LEMMA KeysUnique ==
    ASSUME NEW list, NEW ix, Indexed(list, ix), NEW i \in DOMAIN list, NEW j \in DOMAIN list,
           list[i].key = list[j].key
    PROVE  i = j
  <1>1. ix[list[i].key] = list[i].node /\ ix[list[j].key] = list[j].node
    BY DEF Indexed
  <1>2. QED
    BY <1>1 DEF Indexed

\* The entry of a node.
LEMMA EntryIs ==
    ASSUME Indexed(entries, index), NEW i \in DOMAIN entries
    PROVE  Entry(entries[i].node) = entries[i]
  <1>1. PICK j \in DOMAIN entries :
            /\ j = CHOOSE x \in DOMAIN entries : entries[x].node = entries[i].node
            /\ entries[j].node = entries[i].node
    OBVIOUS
  <1>2. j = i
    BY <1>1 DEF Indexed
  <1>3. QED
    BY <1>1, <1>2 DEF Entry

\* The entry that the index leads to.
LEMMA IndexedEntry ==
    ASSUME Indexed(entries, index), NEW k \in DOMAIN index
    PROVE  \E i \in DOMAIN entries : /\ entries[i].key = k /\ entries[i].node = index[k]
                                     /\ Entry(index[k]) = entries[i]
  <1>1. PICK i \in DOMAIN entries : entries[i].key = k
    BY DEF Indexed
  <1>2. entries[i].node = index[k]
    BY <1>1 DEF Indexed
  <1>3. QED
    BY <1>1, <1>2, EntryIs

\* What is left of the list without a key's entry, if it has one.
DroppedTo(d, k) ==
    /\ d \in Seq(Entries) /\ Len(d) <= Len(entries)
    /\ \A i \in DOMAIN d : d[i].key # k /\ \E j \in DOMAIN entries : d[i] = entries[j]
    /\ Indexed(d, Unmapped(index, {k}))
    /\ KeysOf(d) = Sifted(uses, Keys \ {k})

\* To drop an entry is to leave its key out everywhere.
LEMMA DroppedIs ==
    ASSUME TypeOK, Indexed(entries, index), uses = KeysOf(entries), NEW k \in Keys
    PROVE  DroppedTo(Dropped(k), k)
  <1>1. PICK n \in Nat : n = Len(entries) /\ DOMAIN entries = 1..n
    BY DEF TypeOK
  <1>2. /\ entries \in Seq(Entries) /\ uses \in Seq(Keys)
        /\ \A i \in 1..n : entries[i] \in Entries /\ entries[i].key \in Keys
    <2>1. \A i \in 1..n : entries[i] \in Entries
      BY <1>1 DEF TypeOK
    <2>2. QED
      BY <2>1 DEF Entries, TypeOK
  <1>3. /\ DOMAIN Unmapped(index, {k}) = DOMAIN index \ {k}
        /\ \A x \in DOMAIN Unmapped(index, {k}) : Unmapped(index, {k})[x] = index[x]
    BY DEF Unmapped
  <1>4. DOMAIN index = {entries[i].key : i \in 1..n}
    BY <1>1 DEF Indexed
  <1>5. CASE k \in DOMAIN index
    <2>1. PICK i \in DOMAIN entries : entries[i].key = k /\ entries[i].node = index[k]
      BY <1>5, IndexedEntry
    <2> DEFINE Keep == {x \in ToSet(entries) : x.node # index[k]}
    <2>2. PICK d : d = Sifted(entries, Keep)
      OBVIOUS
    <2>3. Dropped(k) = d
      BY <1>5, <2>2 DEF Dropped, Without
    <2>4. \A j \in 1..n : entries[j] \in Keep <=> entries[j].key \in Keys \ {k}
      <3>1. ASSUME NEW j \in 1..n PROVE entries[j].node = index[k] <=> entries[j].key = k
        <4>1. entries[j].node = index[k] => j = i
          BY <1>1, <2>1 DEF Indexed
        <4>2. entries[j].key = k => j = i
          BY <1>1, <2>1, KeysUnique
        <4>3. QED
          BY <2>1, <4>1, <4>2
      <3>2. \A j \in 1..n : entries[j] \in ToSet(entries)
        BY <1>1 DEF ToSet
      <3>3. QED
        BY <1>2, <3>1, <3>2
    <2> HIDE DEF Keep
    <2>5. /\ d \in Seq(Entries) /\ Len(d) <= Len(entries)
          /\ \A x \in 1..Len(d) : \E j \in 1..Len(entries) : d[x] = entries[j] /\ entries[j] \in Keep
      BY <1>2, <2>2, SiftedElements
    <2>6. \A x \in DOMAIN d : d[x].key # k /\ \E j \in DOMAIN entries : d[x] = entries[j]
      <3>1. DOMAIN d = 1..Len(d)
        BY <2>5
      <3>2. ASSUME NEW x \in DOMAIN d
            PROVE d[x].key # k /\ \E j \in DOMAIN entries : d[x] = entries[j]
        <4>1. PICK j \in 1..n : d[x] = entries[j] /\ entries[j] \in Keep
          BY <1>1, <2>5, <3>1
        <4>2. entries[j].key # k
          BY <2>4, <4>1
        <4>3. QED
          BY <1>1, <4>1, <4>2
      <3>3. QED
        BY <3>2
    <2>7. DOMAIN Unmapped(index, {k}) = DOMAIN index \cap (Keys \ {k})
      BY <1>2, <1>3, <1>4
    <2>8. Indexed(d, Unmapped(index, {k}))
      BY <1>1, <1>2, <1>3, <2>2, <2>4, <2>7, SiftedIndexed
    <2>9. KeysOf(d) = Sifted(uses, Keys \ {k})
      BY <1>1, <1>2, <2>2, <2>4, KeysOfSifted
    <2>10. QED
      BY <2>3, <2>5, <2>6, <2>8, <2>9 DEF DroppedTo
  <1>6. CASE k \notin DOMAIN index
    <2>1. Dropped(k) = entries
      BY <1>6 DEF Dropped
    <2>2. \A i \in DOMAIN entries : entries[i].key # k
      BY <1>1, <1>4, <1>6
    <2>3. Indexed(entries, Unmapped(index, {k}))
      <3>1. DOMAIN Unmapped(index, {k}) = DOMAIN index
        BY <1>3, <1>6
      <3>2. \A i \in DOMAIN entries : Unmapped(index, {k})[entries[i].key] = entries[i].node
        <4>1. ASSUME NEW i \in DOMAIN entries
              PROVE  Unmapped(index, {k})[entries[i].key] = entries[i].node
          <5>1. entries[i].key \in DOMAIN index
            BY <1>1, <1>4
          <5>2. Unmapped(index, {k})[entries[i].key] = index[entries[i].key]
            BY <1>3, <3>1, <5>1
          <5>3. QED
            BY <5>2 DEF Indexed
        <4>2. QED
          BY <4>1
      <3>3. QED
        BY <3>1, <3>2 DEF Indexed
    <2>4. Sifted(uses, Keys \ {k}) = KeysOf(entries)
      <3>1. PICK u \in Seq(Keys) : u = uses
        BY <1>2
      <3>2. u = [i \in 1..n |-> entries[i].key]
        BY <1>1, <3>1 DEF KeysOf
      <3>3. Len(u) = n
        BY <3>1, <3>2
      <3>4. \A i \in 1..Len(u) : u[i] \in Keys \ {k} <=> i <= n
        BY <1>1, <1>2, <2>2, <3>2, <3>3
      <3>5. n \in 0..Len(u)
        BY <3>3
      <3>6. Sifted(u, Keys \ {k}) = SubSeq(u, 1, n)
        BY <3>4, <3>5, SiftedPrefix
      <3>7. SubSeq(u, 1, n) = u
        BY <3>3
      <3>8. QED
        BY <3>1, <3>6, <3>7
    <2>5. Len(entries) <= Len(entries)
      BY <1>1
    <2>6. \A i \in DOMAIN entries : entries[i].key # k /\ \E j \in DOMAIN entries : entries[i] = entries[j]
      BY <2>2
    <2>7. QED
      BY <1>2, <2>1, <2>3, <2>4, <2>5, <2>6 DEF DroppedTo
  <1>7. QED
    BY <1>5, <1>6

\* A new node is none of the list's.
LEMMA NewNodeIsNew ==
    ASSUME TypeOK
    PROVE  NewNode \in Nat /\ \A i \in DOMAIN entries : entries[i].node # NewNode
  <1>1. PICK n \in Nat : n = Len(entries) /\ DOMAIN entries = 1..n
    BY DEF TypeOK
  <1>2. Nodes = {entries[i].node : i \in 1..n}
    BY <1>1 DEF Nodes, ToSet
  <1>3. \E x \in 1..(n + 1) : x \notin Nodes
    <2>1. SUFFICES ASSUME 1..(n + 1) \subseteq Nodes PROVE FALSE
      OBVIOUS
    <2> DEFINE f == [i \in 1..n |-> entries[i].node]
    <2>2. f \in Surjection(1..n, Nodes)
      BY <1>2 DEF Surjection
    <2>3. IsFiniteSet(1..n) /\ Cardinality(1..n) = n
      BY FS_Interval
    <2>4. IsFiniteSet(Nodes) /\ Cardinality(Nodes) <= n
      BY <2>2, <2>3, FS_Surjection
    <2>5. Cardinality(1..(n + 1)) = n + 1
      <3>1. n + 1 \in Int /\ 1 \in Int /\ ~(1 > n + 1) /\ n + 1 - 1 + 1 = n + 1
        OBVIOUS
      <3>2. QED
        BY <3>1, FS_Interval
    <2>6. Cardinality(1..(n + 1)) <= Cardinality(Nodes)
      BY <2>1, <2>4, FS_Subset
    <2>7. Cardinality(Nodes) \in Nat
      BY <2>4, FS_CardinalityType
    <2>8. QED
      BY <2>4, <2>5, <2>6, <2>7
  <1>4. NewNode \in 1..(n + 1) /\ NewNode \notin Nodes
    BY <1>1, <1>3 DEF NewNode
  <1>5. QED
    BY <1>1, <1>2, <1>4

-----------------------------------------------------------------------------
(* The encodes of a request.                                               *)

\* A request encodes at least once, and once more than it warms up if it is
\* timed.
LEMMA CallsPositive ==
    ASSUME NEW m \in Measurements
    PROVE  /\ EncodeCalls(m) \in Nat \ {0} /\ TimedRuns \in Nat \ {0}
           /\ m # "None" => Warmup + TimedRuns <= EncodeCalls(m)
  <1>1. TimedRuns \in Nat \ {0}
    BY ArtifactCacheAssumption DEF TimedRuns
  <1>2. Warmup \in Nat
    BY ArtifactCacheAssumption
  <1>3. CASE m = "None"
    BY <1>1, <1>3 DEF EncodeCalls
  <1>4. CASE m = "Timed"
    <2>1. EncodeCalls(m) = Warmup + TimedRuns
      BY <1>4 DEF EncodeCalls
    <2>2. QED
      BY <1>1, <1>2, <2>1
  <1>5. CASE m = "TimedAndPeakHeap"
    <2>1. EncodeCalls(m) = Warmup + TimedRuns + 1
      BY <1>5 DEF EncodeCalls
    <2>2. QED
      BY <1>1, <1>2, <2>1
  <1>6. QED
    BY <1>3, <1>4, <1>5 DEF Measurements

\* The encodes of a request all use one plan, selected on its own stream: the
\* first selects it, the others keep it.
LEMMA OnePlan ==
    ASSUME NEW e \in Encoders, NEW s \in Streams, NEW m \in Measurements, NEW r \in Runs(e, s, m)
    PROVE  /\ LeftBy(r) \in {None} \cup [of : {s}, choice : Plans]
           /\ \A i \in 1..EncodeCalls(m) : r[i] = LeftBy(r)
  <1>1. PICK n \in Nat \ {0} : n = EncodeCalls(m)
    BY CallsPositive
  <1> DEFINE T == {AfterReset(e), None} \cup [of : {s}, choice : Plans]
  <1>2. /\ r \in [1..n -> T]
        /\ \A i \in 1..n : r[i] \in Ensured(IF i = 1 THEN AfterReset(e) ELSE r[i - 1], e, s)
    BY <1>1 DEF Runs
  <1>3. Len(r) = n /\ n \in 1..n /\ 1 \in 1..n
    <2> HIDE DEF T
    <2> QED
      BY <1>2, FunctionIsSeq
  <1>4. LeftBy(r) = r[n]
    BY <1>3 DEF LeftBy, Last
  <1>5. r[1] \in Ensured(None, e, s)
    BY <1>2, <1>3 DEF AfterReset
  <1>6. \A i \in 1..n : i # 1 => r[i] \in Ensured(r[i - 1], e, s)
    BY <1>2
  <1>7. \A p \in [of : {s}, choice : Plans] : p # None
    <2>1. [of : {s}, choice : Plans] \subseteq Plan
      BY DEF Plan
    <2>2. QED
      BY <2>1, NoneAssumption
  <1> DEFINE P == {i \in Nat : i + 1 <= n => r[i + 1] = r[1]}
  <1>8. 0 \in P
    OBVIOUS
  <1>9. ASSUME NEW i \in Nat, i \in P PROVE i + 1 \in P
    <2>1. SUFFICES ASSUME (i + 1) + 1 <= n PROVE r[(i + 1) + 1] = r[1]
      OBVIOUS
    <2>2. PICK j \in 1..n : j = (i + 1) + 1 /\ j - 1 = i + 1 /\ j # 1
      BY <2>1
    <2>3. r[i + 1] = r[1]
      BY <1>9, <2>1
    <2>4. r[j] \in Ensured(r[1], e, s)
      BY <1>6, <2>2, <2>3
    <2>5. CASE e \notin Autos
      BY <1>5, <2>2, <2>4, <2>5 DEF Ensured
    <2>6. CASE e \in Autos
      <3>1. r[1] # None
        BY <1>5, <1>7, <2>6 DEF Ensured
      <3>2. QED
        BY <2>2, <2>4, <2>6, <3>1 DEF Ensured
    <2>7. QED
      BY <2>5, <2>6
  <1>10. \A i \in Nat : i \in P
    <2> HIDE DEF P
    <2> QED
      BY <1>8, <1>9, InductionOnNat
  <1>11. \A i \in 1..n : r[i] = r[1]
    <2>1. ASSUME NEW i \in 1..n PROVE r[i] = r[1]
      <3>1. i - 1 \in Nat /\ (i - 1) + 1 = i /\ i <= n
        OBVIOUS
      <3>2. i - 1 \in P
        BY <1>10, <3>1
      <3>3. QED
        BY <3>1, <3>2
    <2>2. QED
      BY <2>1
  <1>12. LeftBy(r) = r[1]
    BY <1>3, <1>4, <1>11
  <1>13. r[1] \in {None} \cup [of : {s}, choice : Plans]
    BY <1>5 DEF Ensured
  <1>14. QED
    BY <1>1, <1>11, <1>12, <1>13

\* The artifact of a request is sound, and has the measurements asked for.
LEMMA ArtifactIs ==
    ASSUME NEW e \in Encoders, NEW s \in Streams, NEW m \in Measurements, NEW r \in Runs(e, s, m),
           NEW node \in Nat, NEW k, k = [enc |-> e, stream |-> s],
           NEW x, x = [node |-> node, key |-> k, art |-> Artifact(k, m, r)]
    PROVE  /\ x \in Entries /\ Sound(x) /\ Satisfies(x.art, m)
           /\ x.key = k /\ x.node = node /\ x.art.plan = LeftBy(r)
  <1>1. PICK p \in Impls : p = LeftBy(r) /\ (p # None => p.of = s)
    <2>1. \A q \in {None} \cup [of : {s}, choice : Plans] : q \in Impls /\ (q # None => q.of = s)
      BY DEF Impls, Plan
    <2>2. QED
      BY <2>1, OnePlan
  <1>2. \A i \in 1..EncodeCalls(m) : r[i] = p
    BY <1>1, OnePlan
  <1>3. Last(r) = p
    BY <1>1 DEF LeftBy
  <1>4. PICK w \in Nat, t \in Nat \ {0}, c \in Nat \ {0} :
            /\ w = Warmup /\ t = TimedRuns /\ c = EncodeCalls(m)
            /\ m # "None" => w + t <= c
    BY CallsPositive, ArtifactCacheAssumption
  <1>5. PICK tm : tm = (IF m = "None" THEN {} ELSE {r[i] : i \in (w + 1)..(w + t)})
    OBVIOUS
  <1>6. PICK hp : hp = (IF m = "TimedAndPeakHeap" THEN {Last(r)} ELSE {})
    OBVIOUS
  <1>7. Artifact(k, m, r) = [of |-> k, plan |-> p, timings |-> tm, heap |-> hp]
    BY <1>3, <1>4, <1>5, <1>6 DEF Artifact
  <1>8. m # "None" => tm = {p}
    <2>1. ASSUME m # "None" PROVE tm = {p}
      <3>1. \A i \in (w + 1)..(w + t) : i \in 1..c
        BY <1>4, <2>1
      <3>2. w + 1 \in (w + 1)..(w + t)
        OBVIOUS
      <3>3. \A i \in (w + 1)..(w + t) : r[i] = p
        BY <1>2, <1>4, <3>1
      <3>4. QED
        BY <1>5, <2>1, <3>2, <3>3
    <2>2. QED
      BY <2>1
  <1>9. m = "None" => tm = {}
    BY <1>5
  <1>10. hp = (IF m = "TimedAndPeakHeap" THEN {p} ELSE {})
    BY <1>3, <1>6
  <1>11. tm \subseteq {p} /\ hp \subseteq {p}
    BY <1>8, <1>9, <1>10
  <1>12. k \in Keys /\ k.stream = s
    BY DEF Keys
  <1>13. PICK a : a = [of |-> k, plan |-> p, timings |-> tm, heap |-> hp]
    OBVIOUS
  <1>14. a \in Artifacts
    BY <1>11, <1>12, <1>13 DEF Artifacts
  <1>15. x = [node |-> node, key |-> k, art |-> a]
    BY <1>7, <1>13
  <1>16. x \in Entries
    BY <1>12, <1>14, <1>15 DEF Entries
  <1>17. /\ x.art = a /\ x.key = k /\ x.node = node /\ a.of = k /\ a.plan = p
         /\ a.timings = tm /\ a.heap = hp
    BY <1>13, <1>15
  <1>18. Sound(x)
    BY <1>1, <1>11, <1>12, <1>17 DEF Sound
  <1>19. Satisfies(x.art, m)
    BY <1>8, <1>10, <1>17 DEF Satisfies
  <1>20. QED
    BY <1>1, <1>16, <1>17, <1>18, <1>19

-----------------------------------------------------------------------------
(* The calls.                                                              *)

\* A get() never leaves the stream it asks for.
LEMMA AsksInSweep ==
    ASSUME TypeOK, SweepInv, NEW e \in Encoders, NEW s \in Streams, NEW m \in Measurements,
           InSweep(s), past' = Left(s), Ask(e, s, m), maxResident' = maxResident
    PROVE  /\ past' \in SUBSET Streams /\ s \notin past'
           /\ request' \in Requests /\ request' # None
           /\ request'.enc = e /\ request'.stream = s /\ request'.measurement = m
           /\ maxResident = 1 => past' = {}
           /\ maxResident # 1 /\ request # None =>
                 past' = (past \cup {request.stream}) \ {s}
  <1>1. request' \in Requests /\ request'.enc = e /\ request'.stream = s /\ request'.measurement = m
    BY DEF Ask, Requests
  <1>2. request' # None
    BY <1>1, NoneAssumption
  <1>3. request # None => request.stream \in Streams
    BY DEF TypeOK, Requests
  <1>4. past' \in SUBSET Streams /\ s \notin past'
    BY <1>3 DEF Left, InSweep, TypeOK
  <1>5. /\ maxResident = 1 => past' = {}
        /\ maxResident # 1 /\ request # None => past' = (past \cup {request.stream}) \ {s}
    BY DEF Left, SweepInv
  <1>6. QED
    BY <1>1, <1>2, <1>4, <1>5

\* The entries of another key after a get(): their stream is left, or was not
\* left before.
LEMMA OthersInSweep ==
    ASSUME TypeOK, SweepInv, NEW e \in Encoders, NEW s \in Streams, NEW m \in Measurements,
           InSweep(s), past' = Left(s), Ask(e, s, m), maxResident' = maxResident,
           NEW i \in DOMAIN entries
    PROVE  /\ maxResident # 1 => entries[i].key.stream \in past' \cup {s}
           /\ entries[i].key.stream \notin past' => entries[i].key.stream \notin past
  <1>1. CASE maxResident = 1
    BY <1>1 DEF SweepInv
  <1>2. CASE maxResident # 1
    <2>1. request # None /\ entries[i].key.stream \in past \cup {request.stream}
      BY <1>2 DEF SweepInv
    <2>2. past' = (past \cup {request.stream}) \ {s}
      BY <1>2, <2>1, AsksInSweep
    <2>3. s \notin past
      BY DEF InSweep
    <2>4. QED
      BY <1>2, <2>1, <2>2, <2>3
  <1>3. QED
    BY <1>1, <1>2

\* A list with an entry of a key in front, and those of other keys behind it.
FrontTo(list, x, k) ==
    /\ list \in Seq(Entries) /\ Len(list) \in 1..(Len(entries) + 1)
    /\ list[1] = x
    /\ \A j \in 1..Len(list) : j # 1 =>
          list[j].key # k /\ \E l \in DOMAIN entries : list[j] = entries[l]
    /\ Indexed(list, Mapped(Unmapped(index, {k}), k, x.node))
    /\ KeysOf(list) = UsedFirst(k)

\* What a get() puts in front stays findable, and is the latest used.
LEMMA FrontIs ==
    ASSUME TypeOK, Indexed(entries, index), uses = KeysOf(entries), NEW k \in Keys,
           NEW x \in Entries, x.key = k,
           \A j \in DOMAIN entries : entries[j].key # k => entries[j].node # x.node
    PROVE  FrontTo(<<x>> \o Dropped(k), x, k)
  <1>1. PICK d : d = Dropped(k)
    OBVIOUS
  <1>2. DroppedTo(d, k)
    BY <1>1, DroppedIs
  <1>3. PICK n \in Nat : n = Len(d) /\ DOMAIN d = 1..n /\ n <= Len(entries)
    BY <1>2 DEF DroppedTo
  <1>4. PICK ix : ix = Unmapped(index, {k})
    OBVIOUS
  <1>5. d \in Seq(Entries) /\ Indexed(d, ix) /\ KeysOf(d) = Sifted(uses, Keys \ {k})
    BY <1>2, <1>4 DEF DroppedTo
  <1>6. \A j \in 1..n : d[j].key # k /\ \E l \in DOMAIN entries : d[j] = entries[l]
    BY <1>2, <1>3 DEF DroppedTo
  <1>7. \A j \in 1..Len(d) : d[j].node # x.node
    BY <1>3, <1>6
  <1>8. PICK list : list = <<x>> \o d
    OBVIOUS
  <1>9. /\ list \in Seq(Entries) /\ Len(list) = n + 1
        /\ list[1] = x
        /\ \A i \in 1..n : list[i + 1] = d[i]
        /\ Indexed(list, Mapped(ix, k, x.node))
        /\ KeysOf(list) = <<k>> \o KeysOf(d)
    <2>1. x.key \notin DOMAIN ix
      BY <1>4 DEF Unmapped
    <2>2. /\ <<x>> \o d \in Seq(Entries) /\ Len(<<x>> \o d) = Len(d) + 1
          /\ (<<x>> \o d)[1] = x
          /\ \A i \in 1..Len(d) : (<<x>> \o d)[i + 1] = d[i]
          /\ Indexed(<<x>> \o d, Mapped(ix, x.key, x.node))
          /\ KeysOf(<<x>> \o d) = <<x.key>> \o KeysOf(d)
      BY ONLY <1>5, <1>7, <2>1, x \in Entries, FrontIndexed
    <2>3. QED
      BY <1>3, <1>8, <2>2
  <1>10. KeysOf(list) = UsedFirst(k)
    BY <1>5, <1>9 DEF UsedFirst
  <1>11. ASSUME NEW j \in 1..Len(list), j # 1
         PROVE  list[j].key # k /\ \E l \in DOMAIN entries : list[j] = entries[l]
    <2>1. PICK i \in 1..n : j = i + 1
      <3>1. j - 1 \in 1..n /\ j = (j - 1) + 1
        BY <1>9, <1>11
      <3>2. QED
        BY <3>1
    <2>2. list[j] = d[i]
      BY <1>9, <2>1
    <2>3. QED
      BY <1>6, <2>2
  <1>12. Len(list) \in 1..(Len(entries) + 1)
    <2>1. Len(entries) \in Nat
      BY DEF TypeOK
    <2>2. QED
      BY <1>3, <1>9, <2>1
  <1>13. FrontTo(list, x, k)
    BY <1>4, <1>9, <1>10, <1>11, <1>12 DEF FrontTo
  <1>14. QED
    BY <1>1, <1>8, <1>13

\* A hit preserves the invariant.
LEMMA GetHitPreserves ==
    ASSUME IInv, NEW e \in Encoders, NEW s \in Streams, NEW m \in Measurements, GetHit(e, s, m)
    PROVE  IInv'
  <1>1. PICK k \in Keys : k = [enc |-> e, stream |-> s] /\ k = CacheKey(e, s)
    BY DEF Keys, CacheKey
  <1>2. /\ InSweep(s) /\ k \in DOMAIN index /\ Satisfies(Entry(index[k]).art, m)
        /\ entries' = Touched(index[k]) /\ held' = index[k] /\ uses' = UsedFirst(k)
        /\ past' = Left(s) /\ Ask(e, s, m)
        /\ maxResident' = maxResident /\ index' = index /\ impl' = impl /\ broken' = broken
    BY <1>1 DEF GetHit, Hit
  <1>3. /\ TypeOK /\ Indexed(entries, index) /\ uses = KeysOf(entries)
        /\ HeldInv /\ SweepInv /\ DecodeInv
        /\ \A i \in DOMAIN entries : Sound(entries[i])
    BY DEF IInv
  <1>4. PICK i \in DOMAIN entries : /\ entries[i].key = k /\ entries[i].node = index[k]
                                    /\ Entry(index[k]) = entries[i]
    BY <1>2, <1>3, IndexedEntry
  <1>5. PICK x \in Entries : x = entries[i]
    BY <1>3, <1>4 DEF TypeOK
  <1>6. \A j \in DOMAIN entries : entries[j].key # k => entries[j].node # x.node
    BY <1>3, <1>4, <1>5 DEF Indexed
  <1>7. FrontTo(<<x>> \o Dropped(k), x, k)
    BY <1>3, <1>4, <1>5, <1>6, FrontIs
  <1>8. PICK list : list = entries' /\ FrontTo(list, x, k)
    BY <1>2, <1>4, <1>5, <1>7 DEF Touched, Dropped
  <1>9. PICK n \in Nat : n = Len(list) /\ n >= 1 /\ DOMAIN list = 1..n /\ list \in Seq(Entries)
    BY <1>8 DEF FrontTo
  <1>10. \A j \in 1..n : \E l \in DOMAIN entries : list[j] = entries[l]
    BY <1>4, <1>5, <1>8, <1>9 DEF FrontTo
  <1>11. Indexed(list, index)
    <2>1. PICK iy : iy = Mapped(Unmapped(index, {k}), k, x.node) /\ Indexed(list, iy)
      BY <1>8 DEF FrontTo
    <2>2. DOMAIN iy = DOMAIN index /\ \A y \in DOMAIN index : iy[y] = index[y]
      BY <1>2, <1>4, <1>5, <2>1 DEF Mapped, Unmapped
    <2>3. \A j \in DOMAIN list : list[j].key \in DOMAIN index
      BY <2>1, <2>2 DEF Indexed
    <2>4. QED
      BY <2>1, <2>2, <2>3 DEF Indexed
  <1>12. Len(list) = Len(entries)
    <2>1. entries \in Seq(Entries)
      BY <1>3 DEF TypeOK
    <2>2. QED
      BY <1>3, <1>9, <1>11, <2>1, IndexedLen
  <1>13. /\ past' \in SUBSET Streams /\ s \notin past'
         /\ request' \in Requests /\ request' # None
         /\ request'.enc = e /\ request'.stream = s /\ request'.measurement = m
         /\ maxResident = 1 => past' = {}
    BY <1>2, <1>3, AsksInSweep
  <1>14. \A l \in DOMAIN entries :
            /\ maxResident # 1 => entries[l].key.stream \in past' \cup {s}
            /\ entries[l].key.stream \notin past' => entries[l].key.stream \notin past
    BY <1>2, <1>3, OthersInSweep
  <1>15. uses' = KeysOf(entries)'
    BY <1>2, <1>8 DEF FrontTo, KeysOf
  <1>16. TypeOK'
    <2>1. held' \in Nat
      BY <1>2, <1>4, <1>5 DEF Entries
    <2>2. entries' \in Seq(Entries) /\ Len(entries') <= maxResident'
      BY <1>2, <1>3, <1>8, <1>9, <1>12 DEF TypeOK
    <2>3. uses' \in Seq(Keys)
      <3>1. \A j \in 1..n : list[j].key \in Keys
        <4>1. \A j \in 1..n : list[j] \in Entries
          BY <1>9
        <4>2. QED
          BY <4>1 DEF Entries
      <3>2. uses' = [j \in 1..n |-> list[j].key]
        BY <1>8, <1>9, <1>15 DEF KeysOf
      <3>3. QED
        BY <3>1, <3>2, FunctionIsSeq
    <2>4. QED
      BY <1>2, <1>3, <1>13, <2>1, <2>2, <2>3 DEF TypeOK
  <1>17. Indexed(entries, index)'
    BY <1>2, <1>8, <1>11 DEF Indexed
  <1>18. HeldInv'
    <2>1. /\ 1 \in DOMAIN list /\ list[1] = x
      BY <1>8, <1>9 DEF FrontTo
    <2>2. x.node = held' /\ x.key = [enc |-> request'.enc, stream |-> request'.stream]
      BY <1>1, <1>2, <1>4, <1>5, <1>13
    <2>3. Satisfies(x.art, request'.measurement)
      BY <1>2, <1>4, <1>5, <1>13
    <2>4. QED
      BY <1>8, <1>13, <2>1, <2>2, <2>3 DEF HeldInv, Satisfies
  <1>19. SweepInv'
    BY <1>2, <1>8, <1>9, <1>10, <1>13, <1>14 DEF SweepInv
  <1>20. DecodeInv'
    <2>1. ASSUME NEW j \in 1..n, list[j].key.enc \notin broken, list[j].key.stream \notin past'
          PROVE  impl[list[j].key.enc] = list[j].art.plan
      <3>1. PICK l \in DOMAIN entries : list[j] = entries[l]
        BY <1>10
      <3>2. entries[l].key.stream \notin past
        BY <1>14, <2>1, <3>1
      <3>3. QED
        BY <1>3, <2>1, <3>1, <3>2 DEF DecodeInv
    <2>2. QED
      BY <1>2, <1>8, <1>9, <2>1 DEF DecodeInv
  <1>21. (\A j \in DOMAIN entries : Sound(entries[j]))'
    <2>1. \A j \in 1..n : Sound(list[j])
      BY <1>3, <1>10
    <2>2. QED
      BY <1>8, <1>9, <2>1 DEF Sound
  <1>22. QED
    BY <1>15, <1>16, <1>17, <1>18, <1>19, <1>20, <1>21 DEF IInv

\* A miss preserves the invariant.
LEMMA GetMissPreserves ==
    ASSUME IInv, NEW e \in Encoders, NEW s \in Streams, NEW m \in Measurements, GetMiss(e, s, m)
    PROVE  IInv'
  <1>1. PICK k \in Keys : k = [enc |-> e, stream |-> s] /\ k = CacheKey(e, s)
    BY DEF Keys, CacheKey
  <1> DEFINE made(r) == [node |-> NewNode, key |-> k, art |-> Artifact(k, m, r)]
             with(r) == <<made(r)>> \o Dropped(k)
  <1>0. PICK r \in Runs(e, s, m) :
            /\ entries' = Kept(with(r))
            /\ index' = Unmapped(Mapped(index, k, NewNode), Trimmed(with(r)))
            /\ impl' = [impl EXCEPT ![e] = LeftBy(r)]
            /\ held' = NewNode
    BY <1>1 DEF GetMiss
  <1>2. PICK node, x, list :
            /\ node = NewNode
            /\ x = [node |-> node, key |-> k, art |-> Artifact(k, m, r)]
            /\ list = <<x>> \o Dropped(k)
            /\ entries' = Kept(list)
            /\ index' = Unmapped(Mapped(index, k, node), Trimmed(list))
            /\ impl' = [impl EXCEPT ![e] = LeftBy(r)]
            /\ held' = node
    BY <1>0
  <1> HIDE DEF made, with
  <1>3. /\ InSweep(s) /\ uses' = Sifted(UsedFirst(k), Resident(entries'))
        /\ past' = Left(s) /\ Ask(e, s, m)
        /\ maxResident' = maxResident /\ broken' = broken \ {e}
    BY <1>1 DEF GetMiss
  <1>4. /\ TypeOK /\ Indexed(entries, index) /\ uses = KeysOf(entries)
        /\ HeldInv /\ SweepInv /\ DecodeInv
        /\ \A i \in DOMAIN entries : Sound(entries[i])
    BY DEF IInv
  <1>5. node \in Nat /\ \A j \in DOMAIN entries : entries[j].node # node
    BY <1>2, <1>4, NewNodeIsNew
  <1>6. /\ x \in Entries /\ Sound(x) /\ Satisfies(x.art, m)
        /\ x.key = k /\ x.node = node /\ x.art.plan = LeftBy(r)
    BY <1>1, <1>2, <1>5, ArtifactIs
  <1>7. FrontTo(list, x, k)
    <2>1. \A j \in DOMAIN entries : entries[j].key # k => entries[j].node # x.node
      BY <1>5, <1>6
    <2>2. QED
      BY <1>2, <1>4, <1>6, <2>1, FrontIs
  <1>8. PICK n \in Nat : n = Len(list) /\ n >= 1 /\ DOMAIN list = 1..n /\ list \in Seq(Entries)
    BY <1>7 DEF FrontTo
  <1>9. PICK c \in 1..n : entries' = SubSeq(list, 1, c) /\ c <= maxResident
    <2>1. maxResident \in Nat \ {0}
      BY <1>4 DEF TypeOK
    <2>2. CASE n < maxResident
      BY <1>2, <1>8, <2>1, <2>2 DEF Kept
    <2>3. CASE ~(n < maxResident)
      <3>1. PICK b \in 1..n : b = maxResident
        BY <2>1, <2>3
      <3>2. Kept(list) = SubSeq(list, 1, b)
        BY <1>8, <2>3, <3>1 DEF Kept
      <3>3. b <= maxResident
        BY <1>8, <3>1
      <3>4. entries' = SubSeq(list, 1, b)
        BY <1>2, <3>2
      <3>5. QED
        BY <3>3, <3>4
    <2>4. QED
      BY <2>2, <2>3
  <1>10. PICK ix : ix = Mapped(Unmapped(index, {k}), k, node) /\ Indexed(list, ix)
    BY <1>6, <1>7 DEF FrontTo
  <1>11. /\ entries' \in Seq(Entries) /\ Len(entries') = c
         /\ \A i \in 1..c : entries'[i] = list[i]
         /\ Indexed(entries', Unmapped(ix, {list[i].key : i \in (c + 1)..n}))
         /\ KeysOf(entries') = Sifted(KeysOf(list), {list[i].key : i \in 1..c})
    <2>1. c \in 0..Len(list)
      BY <1>8
    <2>2. /\ SubSeq(list, 1, c) \in Seq(Entries) /\ Len(SubSeq(list, 1, c)) = c
          /\ \A i \in 1..c : SubSeq(list, 1, c)[i] = list[i]
          /\ Indexed(SubSeq(list, 1, c), Unmapped(ix, {list[i].key : i \in (c + 1)..Len(list)}))
          /\ KeysOf(SubSeq(list, 1, c)) = Sifted(KeysOf(list), {list[i].key : i \in 1..c})
      BY ONLY <1>8, <1>10, <2>1, PrefixIndexed
    <2>3. QED
      BY <1>8, <1>9, <2>2
  <1>12. DOMAIN entries' = 1..c
    BY <1>11
  <1>13. index' = Unmapped(ix, {list[i].key : i \in (c + 1)..n})
    <2>1. Mapped(index, k, node) = ix
      BY <1>10 DEF Mapped, Unmapped
    <2>2. Trimmed(list) = {list[i].key : i \in (c + 1)..n}
      BY <1>2, <1>8, <1>11 DEF Trimmed
    <2>3. QED
      BY <1>2, <2>1, <2>2
  <1>14. uses' = KeysOf(entries')
    <2>1. Resident(entries') = {list[i].key : i \in 1..c}
      <3>1. ToSet(entries') = {entries'[i] : i \in 1..c}
        BY <1>12 DEF ToSet
      <3>2. QED
        BY <1>11, <3>1 DEF Resident
    <2>2. KeysOf(list) = UsedFirst(k)
      BY <1>7 DEF FrontTo
    <2>3. QED
      BY <1>3, <1>11, <2>1, <2>2
  <1>15. ASSUME NEW j \in 1..c
         PROVE  \/ j = 1 /\ entries'[j] = x
                \/ /\ j # 1 /\ c # 1 /\ entries'[j].key # k
                   /\ \E l \in DOMAIN entries : entries'[j] = entries[l]
    <2>1. entries'[j] = list[j] /\ j \in 1..Len(list)
      BY <1>8, <1>11
    <2>2. CASE j = 1
      BY <1>7, <2>1, <2>2 DEF FrontTo
    <2>3. CASE j # 1
      BY <1>7, <2>1, <2>3 DEF FrontTo
    <2>4. QED
      BY <2>2, <2>3
  <1>16. /\ past' \in SUBSET Streams /\ s \notin past'
         /\ request' \in Requests /\ request' # None
         /\ request'.enc = e /\ request'.stream = s /\ request'.measurement = m
         /\ maxResident = 1 => past' = {}
    BY <1>3, <1>4, AsksInSweep
  <1>17. \A l \in DOMAIN entries :
            /\ maxResident # 1 => entries[l].key.stream \in past' \cup {s}
            /\ entries[l].key.stream \notin past' => entries[l].key.stream \notin past
    BY <1>3, <1>4, OthersInSweep
  <1>18. TypeOK'
    <2>1. uses' \in Seq(Keys)
      <3>1. \A j \in 1..c : entries'[j] \in Entries
        BY <1>11, <1>12
      <3>2. \A j \in 1..c : entries'[j].key \in Keys
        BY <3>1 DEF Entries
      <3>3. uses' = [j \in 1..c |-> entries'[j].key]
        BY <1>12, <1>14 DEF KeysOf
      <3>4. QED
        BY <3>2, <3>3, FunctionIsSeq
    <2>2. impl' \in [Encoders -> Impls]
      <3>1. LeftBy(r) \in Impls
        BY <1>6 DEF Entries, Artifacts
      <3>2. QED
        BY <1>2, <1>4, <3>1 DEF TypeOK
    <2>3. held' \in Nat /\ broken' \subseteq Encoders /\ maxResident' \in Nat \ {0}
      BY <1>2, <1>3, <1>4, <1>5 DEF TypeOK
    <2>4. entries' \in Seq(Entries) /\ Len(entries') <= maxResident'
      BY <1>3, <1>9, <1>11
    <2>5. QED
      BY <1>16, <2>1, <2>2, <2>3, <2>4 DEF TypeOK
  <1>19. Indexed(entries, index)'
    <2>1. Indexed(entries', index')
      BY <1>11, <1>13
    <2>2. QED
      BY <2>1 DEF Indexed
  <1>20. HeldInv'
    <2>1. 1 \in DOMAIN entries' /\ entries'[1] = x
      BY <1>12, <1>15
    <2>2. x.node = held' /\ x.key = [enc |-> request'.enc, stream |-> request'.stream]
      BY <1>1, <1>2, <1>6, <1>16
    <2>3. Satisfies(x.art, request'.measurement)
      BY <1>6, <1>16
    <2>4. QED
      BY <1>16, <2>1, <2>2, <2>3 DEF HeldInv, Satisfies
  <1>21. SweepInv'
    <2>1. ASSUME maxResident # 1, NEW j \in 1..c
          PROVE  entries'[j].key.stream \in past' \cup {s}
      <3>1. CASE entries'[j] = x
        BY <1>1, <1>6, <3>1
      <3>2. CASE entries'[j] # x
        BY <1>15, <1>17, <2>1, <3>2
      <3>3. QED
        BY <3>1, <3>2
    <2>2. QED
      BY <1>3, <1>12, <1>16, <2>1 DEF SweepInv
  <1>22. DecodeInv'
    <2>1. ASSUME NEW j \in 1..c, entries'[j].key.enc \notin broken',
                 entries'[j].key.stream \notin past'
          PROVE  impl'[entries'[j].key.enc] = entries'[j].art.plan
      <3>1. CASE entries'[j] = x
        <4>1. impl'[e] = LeftBy(r)
          BY <1>2, <1>4 DEF TypeOK
        <4>2. x.key.enc = e
          BY <1>1, <1>6
        <4>3. QED
          BY <1>6, <3>1, <4>1, <4>2
      <3>2. CASE entries'[j] # x
        <4>1. PICK l \in DOMAIN entries : entries'[j] = entries[l]
          BY <1>15, <3>2
        <4>2. c # 1 /\ entries[l].key # k
          BY <1>15, <3>2, <4>1
        <4>3. maxResident # 1
          BY <1>9, <4>2
        <4>4. entries[l].key.stream = s
          BY <1>17, <2>1, <4>1, <4>3
        <4>5. entries[l].key.enc # e
          <5>1. entries[l].key \in Keys
            <6>1. entries[l] \in Entries
              BY <1>4 DEF TypeOK
            <6>2. QED
              BY <6>1 DEF Entries
          <5>2. QED
            BY <1>1, <4>2, <4>4, <5>1 DEF Keys
        <4>6. entries[l].key.enc \notin broken /\ entries[l].key.stream \notin past
          BY <1>3, <1>17, <2>1, <4>1, <4>5
        <4>7. impl[entries[l].key.enc] = entries[l].art.plan
          BY <1>4, <4>6 DEF DecodeInv
        <4>8. impl'[entries[l].key.enc] = impl[entries[l].key.enc]
          <5>1. entries[l].key.enc \in Encoders
            <6>1. entries[l] \in Entries
              BY <1>4 DEF TypeOK
            <6>2. QED
              BY <6>1 DEF Entries, Keys
          <5>2. QED
            BY <1>2, <1>4, <4>5, <5>1 DEF TypeOK
        <4>9. QED
          BY <4>1, <4>7, <4>8
      <3>3. QED
        BY <3>1, <3>2
    <2>2. QED
      BY <1>12, <2>1 DEF DecodeInv
  <1>23. (\A j \in DOMAIN entries : Sound(entries[j]))'
    <2>1. \A j \in 1..c : Sound(entries'[j])
      BY <1>4, <1>6, <1>15
    <2>2. QED
      BY <1>12, <2>1 DEF Sound
  <1>24. (uses = KeysOf(entries))'
    BY <1>14 DEF KeysOf
  <1>25. QED
    BY <1>18, <1>19, <1>20, <1>21, <1>22, <1>23, <1>24 DEF IInv

\* An encode that throws preserves the invariant.
LEMMA GetThrowsPreserves ==
    ASSUME IInv, NEW e \in Encoders, NEW s \in Streams, NEW m \in Measurements, GetThrows(e, s, m)
    PROVE  IInv'
  <1>1. PICK k \in Keys : k = [enc |-> e, stream |-> s] /\ k = CacheKey(e, s)
    BY DEF Keys, CacheKey
  <1>2. /\ InSweep(s)
        /\ entries' = Dropped(k) /\ index' = Unmapped(index, {k}) /\ held' = None
        /\ uses' = Sifted(uses, Keys \ {k}) /\ broken' = broken \cup {e}
        /\ past' = Left(s) /\ Ask(e, s, m) /\ maxResident' = maxResident
    BY <1>1 DEF GetThrows
  <1>3. PICK i : /\ i \in {AfterReset(e)} \cup {LeftBy(r) : r \in Runs(e, s, m)}
                 /\ impl' = [impl EXCEPT ![e] = i]
    BY DEF GetThrows
  <1>4. /\ TypeOK /\ Indexed(entries, index) /\ uses = KeysOf(entries)
        /\ HeldInv /\ SweepInv /\ DecodeInv
        /\ \A j \in DOMAIN entries : Sound(entries[j])
    BY DEF IInv
  <1>5. DroppedTo(Dropped(k), k)
    BY <1>4, DroppedIs
  <1>6. PICK n \in Nat : n = Len(entries') /\ DOMAIN entries' = 1..n /\ n <= Len(entries)
    BY <1>2, <1>5 DEF DroppedTo
  <1>7. /\ entries' \in Seq(Entries)
        /\ Indexed(entries', index') /\ KeysOf(entries') = uses'
        /\ \A j \in 1..n : \E l \in DOMAIN entries : entries'[j] = entries[l]
    BY <1>2, <1>5, <1>6 DEF DroppedTo
  <1>8. /\ past' \in SUBSET Streams
        /\ request' \in Requests /\ request' # None
        /\ request'.enc = e /\ request'.stream = s
        /\ maxResident = 1 => past' = {}
    BY <1>2, <1>4, AsksInSweep
  <1>9. \A l \in DOMAIN entries :
           /\ maxResident # 1 => entries[l].key.stream \in past' \cup {s}
           /\ entries[l].key.stream \notin past' => entries[l].key.stream \notin past
    BY <1>2, <1>4, OthersInSweep
  <1>10. TypeOK'
    <2>1. uses' \in Seq(Keys)
      <3>1. \A j \in 1..n : entries'[j] \in Entries
        BY <1>6, <1>7
      <3>2. \A j \in 1..n : entries'[j].key \in Keys
        BY <3>1 DEF Entries
      <3>3. uses' = [j \in 1..n |-> entries'[j].key]
        BY <1>6, <1>7 DEF KeysOf
      <3>4. QED
        BY <3>2, <3>3, FunctionIsSeq
    <2>2. impl' \in [Encoders -> Impls]
      <3>1. i \in Impls
        <4>1. \A r \in Runs(e, s, m) : LeftBy(r) \in {None} \cup [of : {s}, choice : Plans]
          BY OnePlan
        <4>2. QED
          BY <1>3, <4>1 DEF AfterReset, Impls, Plan
      <3>2. QED
        BY <1>3, <1>4, <3>1 DEF TypeOK
    <2>3. held' = None /\ broken' \subseteq Encoders /\ maxResident' \in Nat \ {0}
      BY <1>2, <1>4 DEF TypeOK
    <2>4. entries' \in Seq(Entries) /\ Len(entries') <= maxResident'
      BY <1>2, <1>4, <1>6, <1>7 DEF TypeOK
    <2>5. QED
      BY <1>8, <2>1, <2>2, <2>3, <2>4 DEF TypeOK
  <1>11. Indexed(entries, index)'
    BY <1>7 DEF Indexed
  <1>12. HeldInv'
    BY <1>2 DEF HeldInv
  <1>13. SweepInv'
    <2>1. ASSUME maxResident # 1, NEW j \in 1..n
          PROVE  entries'[j].key.stream \in past' \cup {s}
      BY <1>7, <1>9, <2>1
    <2>2. QED
      BY <1>2, <1>6, <1>8, <2>1 DEF SweepInv
  <1>14. DecodeInv'
    <2>1. ASSUME NEW j \in 1..n, entries'[j].key.enc \notin broken',
                 entries'[j].key.stream \notin past'
          PROVE  impl'[entries'[j].key.enc] = entries'[j].art.plan
      <3>1. PICK l \in DOMAIN entries : entries'[j] = entries[l]
        BY <1>7
      <3>2. entries[l].key.enc \notin broken /\ entries[l].key.enc # e
        BY <1>2, <2>1, <3>1
      <3>3. entries[l].key.stream \notin past
        BY <1>9, <2>1, <3>1
      <3>4. impl[entries[l].key.enc] = entries[l].art.plan
        BY <1>4, <3>2, <3>3 DEF DecodeInv
      <3>5. entries[l].key.enc \in Encoders
        <4>1. entries[l] \in Entries
          BY <1>4 DEF TypeOK
        <4>2. QED
          BY <4>1 DEF Entries, Keys
      <3>6. impl'[entries[l].key.enc] = impl[entries[l].key.enc]
        BY <1>3, <1>4, <3>2, <3>5 DEF TypeOK
      <3>7. QED
        BY <3>1, <3>4, <3>6
    <2>2. QED
      BY <1>6, <2>1 DEF DecodeInv
  <1>15. (\A j \in DOMAIN entries : Sound(entries[j]))'
    <2>1. \A j \in 1..n : Sound(entries'[j])
      BY <1>4, <1>7
    <2>2. QED
      BY <1>6, <2>1 DEF Sound
  <1>16. (uses = KeysOf(entries))'
    BY <1>7 DEF KeysOf
  <1>17. QED
    BY <1>10, <1>11, <1>12, <1>13, <1>14, <1>15, <1>16 DEF IInv

\* Eviction preserves the invariant.
LEMMA EvictPreserves ==
    ASSUME IInv, NEW e \in Encoders, Evict(e)
    PROVE  IInv'
  <1>1. /\ TypeOK /\ Indexed(entries, index) /\ uses = KeysOf(entries)
        /\ HeldInv /\ SweepInv /\ DecodeInv
        /\ \A j \in DOMAIN entries : Sound(entries[j])
    BY DEF IInv
  <1>2. PICK Keep, K :
            /\ Keep = {x \in ToSet(entries) : x.key.enc # e} /\ K = {k \in Keys : k.enc # e}
            /\ entries' = Sifted(entries, Keep)
            /\ uses' = Sifted(uses, K)
            /\ index' = Unmapped(index, {k \in DOMAIN index : k.enc = e})
    BY DEF Evict
  <1>3. /\ held' = None /\ maxResident' = maxResident /\ impl' = impl /\ request' = request
        /\ past' = past /\ broken' = broken
    BY DEF Evict
  <1>4. PICK m \in Nat : m = Len(entries) /\ DOMAIN entries = 1..m /\ entries \in Seq(Entries)
    BY <1>1 DEF TypeOK
  <1>5. \A j \in 1..m : entries[j] \in ToSet(entries) /\ entries[j].key \in Keys
    <2>1. \A j \in 1..m : entries[j] \in Entries
      BY <1>4
    <2>2. QED
      BY <1>4, <2>1 DEF ToSet, Entries
  <1>6. \A j \in 1..Len(entries) : entries[j] \in Keep <=> entries[j].key \in K
    BY <1>2, <1>4, <1>5
  <1>7. /\ entries' \in Seq(Entries) /\ Len(entries') <= Len(entries)
        /\ \A j \in 1..Len(entries') : \E l \in 1..Len(entries) : entries'[j] = entries[l]
    <2>1. PICK list, kept : /\ list \in Seq(Entries) /\ list = entries
                             /\ kept = Sifted(list, Keep)
      BY <1>4
    <2>2. /\ kept \in Seq(Entries) /\ Len(kept) <= Len(list)
          /\ \A j \in 1..Len(kept) : \E l \in 1..Len(list) :
                kept[j] = list[l] /\ list[l] \in Keep
      BY <2>1, SiftedElements
    <2>3. QED
      BY <1>2, <2>1, <2>2
  <1>8. PICK n \in Nat : n = Len(entries') /\ DOMAIN entries' = 1..n /\ n <= Len(entries)
    BY <1>7
  <1>9. \A j \in 1..n : \E l \in DOMAIN entries : entries'[j] = entries[l]
    BY <1>4, <1>7, <1>8
  <1>10. Indexed(entries', index')
    <2>1. DOMAIN index \subseteq Keys
      BY <1>1, <1>4, <1>5 DEF Indexed
    <2>2. DOMAIN index' = DOMAIN index \cap K /\ \A k \in DOMAIN index' : index'[k] = index[k]
      BY <1>2, <2>1 DEF Unmapped
    <2>3. Indexed(Sifted(entries, Keep), index')
      BY ONLY <1>1, <1>4, <1>6, <2>2, SiftedIndexed
    <2>4. QED
      BY <1>2, <2>3
  <1>11. uses' = KeysOf(entries')
    BY <1>1, <1>2, <1>4, <1>6, KeysOfSifted
  <1>12. TypeOK'
    <2>1. uses' \in Seq(Keys)
      <3>1. \A j \in 1..n : entries'[j] \in Entries
        BY <1>7, <1>8
      <3>2. \A j \in 1..n : entries'[j].key \in Keys
        BY <3>1 DEF Entries
      <3>3. uses' = [j \in 1..n |-> entries'[j].key]
        BY <1>8, <1>11 DEF KeysOf
      <3>4. QED
        BY <3>2, <3>3, FunctionIsSeq
    <2>2. entries' \in Seq(Entries) /\ Len(entries') <= maxResident'
      BY <1>1, <1>3, <1>4, <1>7, <1>8 DEF TypeOK
    <2>3. QED
      BY <1>1, <1>3, <2>1, <2>2 DEF TypeOK
  <1>13. Indexed(entries, index)'
    BY <1>10 DEF Indexed
  <1>14. HeldInv'
    BY <1>3 DEF HeldInv
  <1>15. SweepInv'
    BY <1>1, <1>3, <1>8, <1>9 DEF SweepInv
  <1>16. DecodeInv'
    BY <1>1, <1>3, <1>8, <1>9 DEF DecodeInv
  <1>17. (\A j \in DOMAIN entries : Sound(entries[j]))'
    BY <1>1, <1>8, <1>9 DEF Sound
  <1>18. (uses = KeysOf(entries))'
    BY <1>11 DEF KeysOf
  <1>19. QED
    BY <1>12, <1>13, <1>14, <1>15, <1>16, <1>17, <1>18 DEF IInv

\* An empty cache is right, whatever its codecs hold.
LEMMA EmptyIsRight ==
    ASSUME entries = <<>>, index = <<>>, uses = <<>>, held = None, TypeOK,
           maxResident = 1 => past = {}
    PROVE  IInv
  <1>1. DOMAIN entries = {} /\ DOMAIN index = {}
    OBVIOUS
  <1>2. Indexed(entries, index)
    BY <1>1 DEF Indexed
  <1>3. uses = KeysOf(entries)
    BY <1>1 DEF KeysOf
  <1>4. HeldInv /\ SweepInv /\ DecodeInv
    BY <1>1 DEF HeldInv, SweepInv, DecodeInv
  <1>5. QED
    BY <1>1, <1>2, <1>3, <1>4 DEF IInv

\* Initially.
LEMMA Starts == Init => IInv
  <1>1. SUFFICES ASSUME Init PROVE IInv
    OBVIOUS
  <1>2. maxResident \in Nat \ {0}
    BY <1>1, ArtifactCacheAssumption DEF Init, Clamped
  <1>3. entries \in Seq(Entries) /\ uses \in Seq(Keys) /\ Len(entries) = 0
    BY <1>1 DEF Init
  <1>4. impl \in [Encoders -> Impls]
    BY <1>1 DEF Init, Impls
  <1>5. TypeOK
    BY <1>1, <1>2, <1>3, <1>4 DEF Init, TypeOK
  <1>6. QED
    BY <1>1, <1>5, EmptyIsRight DEF Init

\* Every call preserves the invariant.
LEMMA Inductive == IInv /\ [Next]_vars => IInv'
  <1>1. SUFFICES ASSUME IInv, [Next]_vars PROVE IInv'
    OBVIOUS
  <1>2. ASSUME NEW e \in Encoders, NEW s \in Streams, NEW m \in Measurements, GetHit(e, s, m)
        PROVE  IInv'
    BY <1>1, <1>2, GetHitPreserves
  <1>3. ASSUME NEW e \in Encoders, NEW s \in Streams, NEW m \in Measurements, GetMiss(e, s, m)
        PROVE  IInv'
    BY <1>1, <1>3, GetMissPreserves
  <1>4. ASSUME NEW e \in Encoders, NEW s \in Streams, NEW m \in Measurements, GetThrows(e, s, m)
        PROVE  IInv'
    BY <1>1, <1>4, GetThrowsPreserves
  <1>5. ASSUME NEW e \in Encoders, Evict(e) PROVE IInv'
    BY <1>1, <1>5, EvictPreserves
  <1>6. CASE Clear
    <2>1. /\ entries' = <<>> /\ index' = <<>> /\ uses' = <<>> /\ held' = None
          /\ maxResident' = maxResident /\ impl' = impl /\ request' = request
          /\ past' = past /\ broken' = broken
      BY <1>6 DEF Clear
    <2>2. DOMAIN entries' = {} /\ DOMAIN index' = {} /\ Len(entries') = 0
      BY <2>1
    <2>3. TypeOK'
      BY <1>1, <2>1, <2>2 DEF IInv, TypeOK
    <2>4. Indexed(entries, index)'
      BY <2>2 DEF Indexed
    <2>5. (uses = KeysOf(entries))'
      BY <2>1, <2>2 DEF KeysOf
    <2>6. HeldInv' /\ SweepInv' /\ DecodeInv'
      BY <1>1, <2>1, <2>2 DEF IInv, HeldInv, SweepInv, DecodeInv
    <2>7. QED
      BY <2>2, <2>3, <2>4, <2>5, <2>6 DEF IInv
  <1>7. CASE UNCHANGED vars
    BY <1>1, <1>7 DEF vars, IInv, TypeOK, Indexed, KeysOf, HeldInv, SweepInv, DecodeInv,
                      Satisfies, Sound
  <1>8. QED
    BY <1>1, <1>2, <1>3, <1>4, <1>5, <1>6, <1>7 DEF Next

\* Between calls the invariant holds.
LEMMA Invariant == Spec => []IInv
  BY Starts, Inductive, PTL DEF Spec

-----------------------------------------------------------------------------
(* The properties.                                                         *)

\* Types and the bound: between calls the list is no longer than allowed, for
\* every bound (trim() after each insertion).
THEOREM TypeCorrect == Spec => []TypeOK
  <1>1. IInv => TypeOK
    BY DEF IInv
  <1>2. QED
    BY <1>1, Invariant, PTL

\* The index has exactly the resident keys and leads to the entries that hold
\* them, whatever was inserted, dropped, evicted and trimmed.
THEOREM IndexIsRight == Spec => []IndexFindsEntries
  <1>1. IInv => IndexFindsEntries
    <2>1. SUFFICES ASSUME IInv PROVE IndexFindsEntries
      OBVIOUS
    <2>2. Indexed(entries, index) /\ entries \in Seq(Entries)
      BY <2>1 DEF IInv, TypeOK
    <2>3. ToSet(entries) = {entries[i] : i \in DOMAIN entries}
      BY DEF ToSet
    <2>4. Nodes = {entries[i].node : i \in DOMAIN entries}
      BY <2>3 DEF Nodes
    <2>5. Cardinality(Nodes) = Len(entries)
      BY <2>2, <2>4, IndexedLen
    <2>6. DOMAIN index = Resident(entries)
      BY <2>2, <2>3 DEF Indexed, Resident
    <2>7. ASSUME NEW k \in DOMAIN index
          PROVE  index[k] \in Nodes /\ Entry(index[k]).key = k
      <3>1. PICK i \in DOMAIN entries : /\ entries[i].key = k /\ entries[i].node = index[k]
                                        /\ Entry(index[k]) = entries[i]
        BY <2>2, IndexedEntry
      <3>2. QED
        BY <2>4, <3>1
    <2>8. QED
      BY <2>5, <2>6, <2>7 DEF IndexFindsEntries
  <1>2. QED
    BY <1>1, Invariant, PTL

\* The list is in order of use: what trim() drops is what was used longest
\* ago.
THEOREM OldestUseGoes == Spec => []LeastRecentlyUsedGoes
  <1>1. IInv => LeastRecentlyUsedGoes
    BY DEF IInv, LeastRecentlyUsedGoes, KeysOf
  <1>2. QED
    BY <1>1, Invariant, PTL

\* The reference a driver holds is to the live artifact it asked for, with the
\* measurements it asked for.
THEOREM HeldIsRight == Spec => []HeldIsWhatWasAsked
  <1>1. IInv => HeldIsWhatWasAsked
    <2>1. SUFFICES ASSUME IInv, held # None
                   PROVE  /\ held \in Nodes
                          /\ Entry(held).art.of = [enc |-> request.enc, stream |-> request.stream]
                          /\ request.measurement # "None" => Entry(held).art.timings # {}
                          /\ request.measurement = "TimedAndPeakHeap" => Entry(held).art.heap # {}
      BY DEF HeldIsWhatWasAsked
    <2>2. PICK i \in DOMAIN entries :
              /\ entries[i].node = held
              /\ entries[i].key = [enc |-> request.enc, stream |-> request.stream]
              /\ Satisfies(entries[i].art, request.measurement)
      BY <2>1 DEF IInv, HeldInv
    <2>3. Entry(held) = entries[i]
      BY <2>1, <2>2, EntryIs DEF IInv
    <2>4. entries[i].art.of = entries[i].key
      BY <2>1 DEF IInv, Sound
    <2>5. request.measurement \in Measurements
      BY <2>1 DEF IInv, HeldInv, TypeOK, Requests
    <2>6. held \in Nodes
      BY <2>2 DEF Nodes, ToSet
    <2>7. QED
      BY <2>2, <2>3, <2>4, <2>5, <2>6 DEF Satisfies, Measurements
  <1>2. QED
    BY <1>1, Invariant, PTL

\* The payload, the timings and the heap figures of an artifact are of one
\* plan, selected on its own data, for any number of warm-ups and iterations.
THEOREM OnePlanMeasured == Spec => []MeasuresOnePlan
  <1>1. IInv => MeasuresOnePlan
    BY DEF IInv, Sound, MeasuresOnePlan, ToSet
  <1>2. QED
    BY <1>1, Invariant, PTL

\* The artifact in use decodes: its codec holds the plan of its payload unless
\* its latest encode threw.
THEOREM HeldDecodesAlways == Spec => []HeldDecodes
  <1>1. IInv => HeldDecodes
    <2>1. SUFFICES ASSUME IInv, held # None, request.enc \notin broken
                   PROVE  impl[request.enc] = Entry(held).art.plan
      BY DEF HeldDecodes
    <2>2. request.stream \notin past
      BY <2>1 DEF IInv, HeldInv
    <2>3. PICK i \in DOMAIN entries :
              /\ entries[i].node = held
              /\ entries[i].key = [enc |-> request.enc, stream |-> request.stream]
      BY <2>1 DEF IInv, HeldInv
    <2>4. Entry(held) = entries[i]
      BY <2>1, <2>3, EntryIs DEF IInv
    <2>5. entries[i].key.enc = request.enc /\ entries[i].key.stream = request.stream
      BY <2>3
    <2>6. QED
      BY <2>1, <2>2, <2>4, <2>5 DEF IInv, DecodeInv
  <1>2. QED
    BY <1>1, Invariant, PTL
=============================================================================

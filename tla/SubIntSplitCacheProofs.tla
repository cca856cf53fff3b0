----------------------- MODULE SubIntSplitCacheProofs -----------------------
(***************************************************************************)
(* Proofs about SubIntSplitCache, for every set of contents and addresses, *)
(* every number of sections and every kind of section cache:               *)
(*   - every variable keeps its type;                                      *)
(*   - the row count a decode uses is never stale;                         *)
(*   - a careful caller decodes what it encoded.                           *)
(* The last one rests on CachesFollowHeader: what a section's cache holds, *)
(* if anything, is the view of the header the encoder holds.  A header     *)
(* that replaces it takes its views from addresses none of these caches    *)
(* can name, so every section misses and parses its view afresh.           *)
(***************************************************************************)
EXTENDS SubIntSplitCache, TLAPS

\* The caller's buffers, and so the cached header, hold what its setup encodes.
\* A header of a buffer with rows has a view for every section.
HoldsWhatIsEncoded ==
    /\ \A a \in OuterAddrs : outer[a] # None => outer[a] \in setup.datasets
    /\ header # None => /\ header.data \in setup.datasets
                        /\ RowCount[header.data] > 0 =>
                              header.views \in [Sections -> ViewAddrs]

\* Every section's cache is empty or was filled from the header that is cached.
CachesFollowHeader ==
    Careful => \A s \in Sections :
        secCache[s] # None =>
            /\ header # None
            /\ secCache[s] = [addr |-> header.views[s], from |-> header.data]

\* The inductive invariant.
IInv == /\ TypeOK
        /\ HoldsWhatIsEncoded
        /\ CachesFollowHeader
        /\ RightRowCount
        /\ ReadsWhatItIsGiven

-----------------------------------------------------------------------------
(* The header a call reads.                                                *)

\* getCachedHeader returns a header of the right type and row count for the
\* buffer it is given, with a view for every section when there are rows.
LEMMA CachedHeaderType ==
    ASSUME IInv, NEW a \in OuterAddrs, outer[a] # None,
           NEW h \in CachedHeader(a)
    PROVE  /\ outer[a] \in Datasets
           /\ h \in Headers /\ h # None
           /\ h.data \in setup.datasets
           /\ RowCount[h.data] = RowCount[outer[a]]
           /\ RowCount[h.data] > 0 => h.views \in [Sections -> ViewAddrs]
  <1>1. outer[a] \in Datasets /\ outer[a] \in setup.datasets
    BY DEF IInv, TypeOK, HoldsWhatIsEncoded
  <1>2. CASE header # None /\ SameKey(a)
    <2>1. h = header /\ header \in Headers
      BY <1>2 DEF CachedHeader, IInv, TypeOK
    <2>2. QED
      BY <1>1, <1>2, <2>1 DEF SameKey, IInv, HoldsWhatIsEncoded
  <1>3. CASE ~(header # None /\ SameKey(a))
    <2>1. h \in Parsed(a)
      BY <1>3 DEF CachedHeader
    <2>2. CASE RowCount[outer[a]] = 0
      <3>1. h = [addr |-> a, data |-> outer[a], views |-> [s \in Sections |-> None]]
        BY <2>1, <2>2 DEF Parsed
      <3>2. h \in Headers /\ h.data = outer[a]
        BY <1>1, <3>1 DEF Headers
      <3>3. QED
        BY <1>1, <2>2, <3>2, NoneAssumption
    <2>3. CASE RowCount[outer[a]] # 0
      <3>1. PICK w \in [Sections -> Unused] :
                h = [addr |-> a, data |-> outer[a], views |-> w]
        BY <2>1, <2>3 DEF Parsed
      <3>2. w \in [Sections -> ViewAddrs] /\ w \in [Sections -> ViewAddrs \cup {None}]
        BY DEF Unused
      <3>3. h \in Headers /\ h.data = outer[a] /\ h.views = w
        BY <1>1, <3>1, <3>2 DEF Headers
      <3>4. QED
        BY <1>1, <3>2, <3>3, NoneAssumption
    <2>4. QED
      BY <2>2, <2>3
  <1>4. QED
    BY <1>2, <1>3

\* To a careful caller, the header is of the very buffer it passes, and a
\* section's cache is only ever taken where it was filled from that buffer: the
\* views of a new header avoid the addresses of the old one.
LEMMA CarefulHeader ==
    ASSUME IInv, Careful, NEW a \in OuterAddrs, outer[a] # None,
           NEW h \in CachedHeader(a), NEW s \in Sections
    PROVE  /\ h.data = outer[a]
           /\ RowCount[h.data] > 0
           /\ Hit(s, h) => secCache[s] = [addr |-> h.views[s], from |-> h.data]
  <1>1. outer[a] \in setup.datasets
    BY DEF IInv, HoldsWhatIsEncoded
  <1>2. RowCount[outer[a]] > 0
    BY <1>1 DEF Careful
  <1>3. CASE header # None /\ SameKey(a)
    <2>1. h = header
      BY <1>3 DEF CachedHeader
    <2>2. header.data \in setup.datasets
      BY <1>3 DEF IInv, HoldsWhatIsEncoded
    <2>3. header.data = outer[a]
      BY <1>1, <1>3, <2>2 DEF SameKey, Careful
    <2>4. QED
      BY <1>2, <2>1, <2>3 DEF Hit, IInv, CachesFollowHeader
  <1>4. CASE ~(header # None /\ SameKey(a))
    <2>1. PICK w \in [Sections -> Unused] :
              h = [addr |-> a, data |-> outer[a], views |-> w]
      <3>1. setup \in Setups /\ outer[a] \in Datasets
        BY <1>1, SetupsAssumption DEF IInv, TypeOK
      <3>2. RowCount[outer[a]] # 0
        BY <1>2, <3>1, DataAssumption
      <3>3. QED
        BY <1>4, <3>2 DEF CachedHeader, Parsed
    <2>2. w[s] \notin InUse
      BY DEF Unused
    <2>3. secCache[s] # None => secCache[s].addr \in InUse
      <3>1. SUFFICES ASSUME secCache[s] # None PROVE secCache[s].addr \in InUse
        OBVIOUS
      <3>2. /\ header # None
            /\ secCache[s] = [addr |-> header.views[s], from |-> header.data]
        BY <3>1 DEF IInv, CachesFollowHeader
      <3>3. secCache[s].addr = header.views[s]
        BY <3>2
      <3>4. QED
        BY <3>2, <3>3 DEF InUse
    <2>4. ~Hit(s, h)
      BY <2>1, <2>2, <2>3 DEF Hit
    <2>5. QED
      BY <1>2, <2>1, <2>4
  <1>5. QED
    BY <1>3, <1>4

\* The entry a section's cache is left with is of the right type.
LEMMA EntryType ==
    ASSUME IInv, NEW a \in OuterAddrs, outer[a] # None,
           NEW h \in CachedHeader(a), RowCount[h.data] > 0, NEW s \in Sections
    PROVE  Entry(s, h) \in Entries \cup {None}
  <1>1. h \in Headers /\ h.views \in [Sections -> ViewAddrs]
    BY CachedHeaderType
  <1>2. secCache[s] \in Entries \cup {None}
    BY DEF IInv, TypeOK
  <1>3. [addr |-> h.views[s], from |-> h.data] \in Entries
    BY <1>1 DEF Headers, Entries
  <1>4. QED
    BY <1>2, <1>3 DEF Entry

\* An entry that is kept or made for a careful caller is one of the header read.
LEMMA CarefulEntry ==
    ASSUME IInv, Careful, NEW a \in OuterAddrs, outer[a] # None,
           NEW h \in CachedHeader(a), NEW s \in Sections
    PROVE  /\ Entry(s, h) # None =>
                 Entry(s, h) = [addr |-> h.views[s], from |-> h.data]
           /\ Delivered(s, h) = Payload[outer[a]][s]
  <1>1. /\ h.data = outer[a]
        /\ Hit(s, h) => secCache[s] = [addr |-> h.views[s], from |-> h.data]
    BY CarefulHeader
  <1>2. Hit(s, h) => Serves(s, Payload[secCache[s].from][s], Payload[h.data][s])
    BY <1>1 DEF Serves
  <1>3. QED
    BY <1>1, <1>2 DEF Entry, Delivered

-----------------------------------------------------------------------------
(* The steps.                                                              *)

\* A call that delivers through the caches of `touched` preserves the invariant,
\* when there are rows to touch them for; a careful caller touches all of them.
LEMMA DeliverStep ==
    ASSUME IInv, NEW a \in OuterAddrs, outer[a] # None,
           NEW h \in CachedHeader(a), NEW touched \in SUBSET Sections,
           touched # {} => RowCount[h.data] > 0,
           Careful => touched = Sections,
           Deliver(a, h, touched)
    PROVE  IInv'
  <1>1. /\ outer[a] \in Datasets
        /\ h \in Headers /\ h # None
        /\ h.data \in setup.datasets
        /\ RowCount[h.data] = RowCount[outer[a]]
        /\ RowCount[h.data] > 0 => h.views \in [Sections -> ViewAddrs]
    BY CachedHeaderType
  <1>2. /\ header' = h /\ setup' = setup /\ outer' = outer
        /\ secCache' = [s \in Sections |-> IF s \in touched THEN Entry(s, h) ELSE secCache[s]]
        /\ read' = [given |-> outer[a],
                    rows  |-> RowCount[h.data],
                    got   |-> [s \in Sections |-> IF s \in touched THEN Delivered(s, h)
                                                  ELSE Payload[h.data][s]]]
    BY DEF Deliver
  <1>3. TypeOK'
    <2>1. secCache' \in [Sections -> Entries \cup {None}]
      <3>1. ASSUME NEW s \in Sections, s \in touched
            PROVE  Entry(s, h) \in Entries \cup {None}
        BY <3>1, EntryType
      <3>2. ASSUME NEW s \in Sections PROVE secCache[s] \in Entries \cup {None}
        BY DEF IInv, TypeOK
      <3>3. QED
        BY <1>2, <3>1, <3>2
    <2>2. read'.given \in Datasets /\ read'.rows \in Nat
      BY <1>1, <1>2, DataAssumption
    <2>3. QED
      BY <1>1, <1>2, <2>1, <2>2 DEF IInv, TypeOK
  <1>4. HoldsWhatIsEncoded'
    BY <1>1, <1>2 DEF IInv, HoldsWhatIsEncoded
  <1>5. CachesFollowHeader'
    <2>1. SUFFICES ASSUME Careful, NEW s \in Sections, secCache'[s] # None
                   PROVE  secCache'[s] = [addr |-> h.views[s], from |-> h.data]
      BY <1>1, <1>2 DEF CachesFollowHeader, Careful
    <2>2. secCache'[s] = Entry(s, h)
      BY <1>2, <2>1
    <2>3. QED
      BY <2>1, <2>2, CarefulEntry
  <1>6. RightRowCount'
    BY <1>1, <1>2 DEF RightRowCount
  <1>7. ReadsWhatItIsGiven'
    <2>1. SUFFICES ASSUME Careful, NEW s \in Sections
                   PROVE  read'.got[s] = Payload[outer[a]][s]
      BY <1>2 DEF ReadsWhatItIsGiven, Reads, Careful
    <2>2. read'.got[s] = Delivered(s, h)
      BY <1>2, <2>1
    <2>3. QED
      BY <2>1, <2>2, CarefulEntry
  <1>8. QED
    BY <1>3, <1>4, <1>5, <1>6, <1>7 DEF IInv

\* The invariant holds before anything is encoded.
LEMMA InitInv == Init => IInv
  BY DEF Init, IInv, TypeOK, HoldsWhatIsEncoded, CachesFollowHeader,
         RightRowCount, ReadsWhatItIsGiven, Reads

\* Every step preserves the invariant.
LEMMA NextInv == IInv /\ [Next]_vars => IInv'
  <1> SUFFICES ASSUME IInv, [Next]_vars PROVE IInv'
    OBVIOUS
  <1> USE DEF IInv
  <1>1. ASSUME NEW a \in OuterAddrs, NEW d \in Datasets, Encode(d, a)
        PROVE  IInv'
    <2>1. /\ outer' = [outer EXCEPT ![a] = d] /\ d \in setup.datasets
          /\ secCache' = Forget(d) /\ read' = None
          /\ setup' = setup /\ header' = header
      BY <1>1 DEF Encode
    <2>2. /\ secCache' \in [Sections -> Entries \cup {None}]
          /\ \A s \in Sections : secCache'[s] # None => secCache'[s] = secCache[s]
      BY <2>1 DEF Forget, TypeOK
    <2>3. TypeOK'
      BY <2>1, <2>2 DEF TypeOK
    <2>4. HoldsWhatIsEncoded'
      BY <2>1 DEF HoldsWhatIsEncoded, TypeOK
    <2>5. CachesFollowHeader'
      BY <2>1, <2>2 DEF CachesFollowHeader, Careful
    <2>6. QED
      BY <2>1, <2>3, <2>4, <2>5 DEF RightRowCount, ReadsWhatItIsGiven, Reads
  <1>2. ASSUME NEW a \in OuterAddrs, Drop(a) PROVE IInv'
    <2>1. /\ outer' = [outer EXCEPT ![a] = None] /\ read' = None
          /\ setup' = setup /\ header' = header /\ secCache' = secCache
      BY <1>2 DEF Drop
    <2>2. TypeOK' /\ HoldsWhatIsEncoded'
      BY <2>1 DEF TypeOK, HoldsWhatIsEncoded
    <2>3. CachesFollowHeader'
      BY <2>1 DEF CachesFollowHeader, Careful
    <2>4. QED
      BY <2>1, <2>2, <2>3 DEF RightRowCount, ReadsWhatItIsGiven, Reads
  <1>3. ASSUME NEW a \in OuterAddrs, DecodeAll(a) PROVE IInv'
    <2>1. PICK h \in CachedHeader(a) :
              Deliver(a, h, IF RowCount[h.data] = 0 THEN {}
                            ELSE IF setup.parallel THEN {s \in Sections : Kind[s] = "copy"}
                            ELSE Sections)
      BY <1>3 DEF DecodeAll
    <2> DEFINE touched == IF RowCount[h.data] = 0 THEN {}
                          ELSE IF setup.parallel THEN {s \in Sections : Kind[s] = "copy"}
                          ELSE Sections
    <2>2. outer[a] # None
      BY <1>3 DEF DecodeAll
    <2>3. touched # {} => RowCount[h.data] > 0
      <3>1. h \in Headers
        BY <2>2, CachedHeaderType
      <3>2. RowCount[h.data] \in Nat
        BY <3>1, DataAssumption DEF Headers
      <3>3. QED
        BY <3>2
    <2>4. Careful => touched = Sections
      <3>1. Careful => \A s \in Sections : RowCount[h.data] > 0
        BY <2>2, CarefulHeader
      <3>2. 0 \in Sections
        BY SplitsAssumption DEF Sections
      <3>3. QED
        BY <3>1, <3>2 DEF Careful
    <2>5. touched \in SUBSET Sections /\ Deliver(a, h, touched)
      BY <2>1
    <2> HIDE DEF touched
    <2>6. QED
      BY <2>2, <2>3, <2>4, <2>5, DeliverStep
  <1>4. ASSUME NEW a \in OuterAddrs, DecodeRows(a) PROVE IInv'
    <2>1. PICK h \in CachedHeader(a) : RowCount[h.data] > 0 /\ Deliver(a, h, Sections)
      BY <1>4 DEF DecodeRows
    <2>2. outer[a] # None
      BY <1>4 DEF DecodeRows
    <2>3. QED
      BY <2>1, <2>2, DeliverStep
  <1>5. ASSUME NEW a \in OuterAddrs, DecodePastEnd(a) PROVE IInv'
    <2>1. /\ "past" \in setup.calls /\ outer[a] # None
          /\ header' \in CachedHeader(a) /\ read' = None
          /\ setup' = setup /\ outer' = outer /\ secCache' = secCache
      BY <1>5 DEF DecodePastEnd
    <2>2. /\ header' \in Headers
          /\ header'.data \in setup.datasets
          /\ RowCount[header'.data] > 0 => header'.views \in [Sections -> ViewAddrs]
      BY <2>1, CachedHeaderType
    <2>3. ~Careful'
      BY <2>1 DEF Careful
    <2>4. QED
      BY <2>1, <2>2, <2>3 DEF TypeOK, HoldsWhatIsEncoded, CachesFollowHeader,
                              RightRowCount, ReadsWhatItIsGiven
  <1>6. ASSUME NEW a \in OuterAddrs, NEW s \in Sections, SectionThrows(a, s)
        PROVE  IInv'
    <2>1. PICK h \in CachedHeader(a) :
              /\ RowCount[h.data] > 0
              /\ header' = h
              /\ secCache' = [t \in Sections |-> IF setup.parallel \/ t <= s THEN Entry(t, h)
                                                 ELSE secCache[t]]
      BY <1>6 DEF SectionThrows
    <2>2. /\ "throws" \in setup.calls /\ outer[a] # None /\ read' = None
          /\ setup' = setup /\ outer' = outer
      BY <1>6 DEF SectionThrows
    <2>3. /\ header' \in Headers
          /\ header'.data \in setup.datasets
          /\ RowCount[header'.data] > 0 => header'.views \in [Sections -> ViewAddrs]
      BY <2>1, <2>2, CachedHeaderType
    <2>4. secCache' \in [Sections -> Entries \cup {None}]
      <3>1. ASSUME NEW t \in Sections PROVE Entry(t, h) \in Entries \cup {None}
        BY <2>1, <2>2, EntryType
      <3>2. ASSUME NEW t \in Sections PROVE secCache[t] \in Entries \cup {None}
        BY DEF TypeOK
      <3>3. QED
        BY <2>1, <3>1, <3>2
    <2>5. ~Careful'
      BY <2>2 DEF Careful
    <2>6. QED
      BY <2>2, <2>3, <2>4, <2>5 DEF TypeOK, HoldsWhatIsEncoded, CachesFollowHeader,
                                    RightRowCount, ReadsWhatItIsGiven
  <1>7. CASE UNCHANGED vars
    BY <1>7 DEF vars, TypeOK, HoldsWhatIsEncoded, CachesFollowHeader, RightRowCount,
                ReadsWhatItIsGiven, Reads, Careful
  <1>8. QED
    BY <1>1, <1>2, <1>3, <1>4, <1>5, <1>6, <1>7 DEF Next

\* The inductive invariant holds in every reachable state.
LEMMA Invariance == Spec => []IInv
  BY InitInv, NextInv, PTL DEF Spec

-----------------------------------------------------------------------------
\* Every variable has its type (SubIntSplitEncoder's caches, and its codecs').
THEOREM TypeCorrect == Spec => []TypeOK
  <1>1. IInv => TypeOK
    BY DEF IInv
  <1>2. QED
    BY Invariance, <1>1, PTL

\* A decode never uses another buffer's row count, whoever calls and whatever
\* calls came before (getCachedHeader's comparison of the first eight bytes).
THEOREM RowCountIsRight == Spec => []RightRowCount
  <1>1. IInv => RightRowCount
    BY DEF IInv
  <1>2. QED
    BY Invariance, <1>1, PTL

\* A caller whose buffers have rows and differ in size, and whose calls are
\* sequential, in range and do not fail, decodes what it encoded: no cache is
\* taken for a buffer or a view it was not filled from.
THEOREM CarefulReads == Spec => []ReadsWhatItIsGiven
  <1>1. IInv => ReadsWhatItIsGiven
    BY DEF IInv
  <1>2. QED
    BY Invariance, <1>1, PTL
=============================================================================

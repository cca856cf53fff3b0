-------------------------- MODULE SubIntSplitCache --------------------------
(***************************************************************************)
(* The caches a SubIntSplitEncoder decodes through, over a heap whose      *)
(* addresses are reused.                                                   *)
(*                                                                         *)
(* The encoder keeps the parsed header of the last buffer it was given,    *)
(* with a copy of every section's payload (a view), and takes it again     *)
(* when the next buffer has the same address, the same size and the same   *)
(* first eight bytes (the row count).  Each section's codec keeps what it  *)
(* parsed of the last view it was given, and takes that again when the     *)
(* next view has the same address; it forgets it when it encodes.  A codec *)
(* of kind "view" (RunLength, Dictionary, AdaptiveDictionary, the Block    *)
(* codecs) remembers offsets and counts and reads the values through       *)
(* pointers; one of kind "copy" (FOR) remembers a copy of the payload,     *)
(* and compares the size too.                                              *)
(*                                                                         *)
(* A dataset stands for an encoded buffer's content.                       *)
(***************************************************************************)
EXTENDS Naturals, FiniteSets

CONSTANTS
    Datasets,    \* the contents that are encoded
    RowCount,    \* [Datasets -> Nat]
    Size,        \* [Datasets -> Nat]: bytes of the encoded buffer
    Payload,     \* [Datasets -> [Sections -> [size, layout, values]]]
    OuterAddrs,  \* addresses of encoded buffers
    ViewAddrs,   \* addresses of section views
    Splits,      \* number of sections
    Kind,        \* [Sections -> {"view", "copy", "none"}]: the codec's cache
    Setups,      \* what the caller does: [datasets, parallel, calls]
    None         \* nothing: no buffer, no header, no entry, no result

Sections == 0..(Splits - 1)

ASSUME SplitsAssumption == Splits \in Nat \ {0}
ASSUME DataAssumption ==
    /\ RowCount \in [Datasets -> Nat]
    /\ Size \in [Datasets -> Nat]
    /\ \A d \in Datasets, s \in Sections :
          Payload[d][s] \in [size : Nat, layout : Nat, values : Nat]
ASSUME KindAssumption == Kind \in [Sections -> {"view", "copy", "none"}]
\* `parallel` is cfg_.parallelism.enabled with more than one section.
ASSUME SetupsAssumption ==
    \A u \in Setups : /\ u.datasets \subseteq Datasets
                      /\ u.parallel \in BOOLEAN
                      /\ u.calls \subseteq {"all", "rows", "past", "throws"}

\* A parsed header, and an entry of a section's cache.
Headers == [addr : OuterAddrs, data : Datasets, views : [Sections -> ViewAddrs \cup {None}]]
Entries == [addr : ViewAddrs, from : Datasets]
ASSUME NoneAssumption == None \notin Datasets /\ None \notin Headers /\ None \notin Entries

Garbage == [size |-> 0, layout |-> 0, values |-> 0]

VARIABLES
    setup,     \* the setup of this caller
    outer,     \* the caller's live encoded buffers: [OuterAddrs -> dataset]
    header,    \* cachedHeader_ and its key: [addr, data, views]
    secCache,  \* per section codec, its cache: [addr, from]
    read       \* what the last decode delivered, and of which buffer

vars == <<setup, outer, header, secCache, read>>

Init == /\ setup \in Setups
        /\ outer = [a \in OuterAddrs |-> None]
        /\ header = None
        /\ secCache = [s \in Sections |-> None]
        /\ read = None

-----------------------------------------------------------------------------
(* The caller's buffers.                                                   *)

\* A section codec that encodes invalidates the cache it decodes through; the
\* copies of a FOR codec stay, and an empty encode reaches no section.
Forget(d) == IF RowCount[d] = 0 THEN secCache
             ELSE [s \in Sections |-> IF Kind[s] = "view" THEN None ELSE secCache[s]]

\* The caller encodes a dataset; the buffer may land on a freed address.
Encode(d, a) ==
    /\ d \in setup.datasets
    /\ outer[a] = None
    /\ outer' = [outer EXCEPT ![a] = d]
    /\ secCache' = Forget(d)
    /\ read' = None
    /\ UNCHANGED <<setup, header>>

\* The caller frees a buffer; nothing tells the encoder.
Drop(a) ==
    /\ outer[a] # None
    /\ outer' = [outer EXCEPT ![a] = None]
    /\ read' = None
    /\ UNCHANGED <<setup, header, secCache>>

-----------------------------------------------------------------------------
(* The header cache.                                                       *)

InUse == IF header = None THEN {} ELSE {header.views[s] : s \in Sections}

FreedFirst == ViewAddrs                         \* mutant of Unused
\* The new views are allocated before the assignment frees the old ones.
Unused == ViewAddrs \ InUse

\* parseHeader copies every section's payload into a view of its own; the
\* payloads of an empty buffer are empty vectors, which allocate nothing.
Parsed(a) ==
    LET d == outer[a] IN
    IF RowCount[d] = 0
    THEN {[addr |-> a, data |-> d, views |-> [s \in Sections |-> None]]}
    ELSE {[addr |-> a, data |-> d, views |-> w] :
             w \in {v \in [Sections -> Unused] :
                      \A s, t \in Sections : s # t => v[s] # v[t]}}

SameKeyButRows(a) ==                            \* mutant of SameKey
    header.addr = a /\ Size[header.data] = Size[outer[a]]
\* Address, size and the first eight bytes, which hold the row count.
SameKey(a) == /\ header.addr = a
              /\ Size[header.data] = Size[outer[a]]
              /\ RowCount[header.data] = RowCount[outer[a]]

\* getCachedHeader
CachedHeader(a) == IF header # None /\ SameKey(a) THEN {header} ELSE Parsed(a)

-----------------------------------------------------------------------------
(* The caches of the section codecs.                                       *)

Hit(s, h) ==
    /\ secCache[s] # None
    /\ secCache[s].addr = h.views[s]
    /\ Kind[s] = "copy" =>
          Payload[secCache[s].from][s].size = Payload[h.data][s].size

OuterKeyed(s, h) == [addr |-> h.addr, from |-> h.data] \* mutant of Entry
Entry(s, h) == IF Kind[s] = "none" THEN None
               ELSE IF Hit(s, h) THEN secCache[s]
               ELSE [addr |-> h.views[s], from |-> h.data]

\* A cache filled from payload p serves payload q: a copy must be of q itself,
\* offsets and counts need only be those of q.
Serves(s, p, q) == IF Kind[s] = "copy" THEN p = q ELSE p.layout = q.layout

\* What section s delivers through its cache.
Delivered(s, h) ==
    IF Hit(s, h) /\ ~Serves(s, Payload[secCache[s].from][s], Payload[h.data][s])
    THEN Garbage
    ELSE Payload[h.data][s]

\* A call delivers from the header's views, the sections in touched through
\* the cache of their codec, the others by parsing the view afresh.
Deliver(a, h, touched) ==
    /\ header' = h
    /\ secCache' = [s \in Sections |-> IF s \in touched THEN Entry(s, h) ELSE secCache[s]]
    /\ read' = [given |-> outer[a],
                rows  |-> RowCount[h.data],
                got   |-> [s \in Sections |-> IF s \in touched THEN Delivered(s, h)
                                              ELSE Payload[h.data][s]]]
    /\ UNCHANGED <<setup, outer>>

\* decodeAll.  The parallel path asks the codecs for decodeAll, which parses
\* without a cache in the codecs of kind "view".
DecodeAll(a) ==
    /\ "all" \in setup.calls
    /\ outer[a] # None
    /\ \E h \in CachedHeader(a) :
          Deliver(a, h, IF RowCount[h.data] = 0 THEN {}
                        ELSE IF setup.parallel THEN {s \in Sections : Kind[s] = "copy"}
                        ELSE Sections)

\* decodeAt, decodeRange, decodeRangeInto and decodeGatherInto on rows that
\* are there.
DecodeRows(a) ==
    /\ "rows" \in setup.calls
    /\ outer[a] # None
    /\ \E h \in CachedHeader(a) : RowCount[h.data] > 0 /\ Deliver(a, h, Sections)

\* The same calls past the last row return after reading the header.
DecodePastEnd(a) ==
    /\ "past" \in setup.calls
    /\ outer[a] # None
    /\ header' \in CachedHeader(a)
    /\ read' = None
    /\ UNCHANGED <<setup, outer, secCache>>

\* A section throws after its codec looked up its cache: the sequential path
\* never reaches the sections after it; the parallel one ran them all.
SectionThrows(a, s) ==
    /\ "throws" \in setup.calls
    /\ outer[a] # None
    /\ \E h \in CachedHeader(a) :
         /\ RowCount[h.data] > 0
         /\ header' = h
         /\ secCache' = [t \in Sections |-> IF setup.parallel \/ t <= s THEN Entry(t, h)
                                            ELSE secCache[t]]
    /\ read' = None
    /\ UNCHANGED <<setup, outer>>

Next == \E a \in OuterAddrs :
            \/ \E d \in Datasets : Encode(d, a)
            \/ Drop(a)
            \/ DecodeAll(a)
            \/ DecodeRows(a)
            \/ DecodePastEnd(a)
            \/ \E s \in Sections : SectionThrows(a, s)

Spec == Init /\ [][Next]_vars

-----------------------------------------------------------------------------
\* Every variable has its type.
TypeOK ==
    /\ setup \in Setups
    /\ outer \in [OuterAddrs -> Datasets \cup {None}]
    /\ header \in Headers \cup {None}
    /\ secCache \in [Sections -> Entries \cup {None}]
    /\ \/ read = None
       \/ read.given \in Datasets /\ read.rows \in Nat

\* A decode delivers every section of the buffer it was given.
Reads == read # None => \A s \in Sections : read.got[s] = Payload[read.given][s]

\* A caller whose buffers all have rows and differ in size, and whose decodes all
\* go through the sections one by one.  Decoding an empty buffer replaces the
\* header and passes the section caches by, as a parallel decode does.
Careful ==
    /\ ~setup.parallel
    /\ setup.calls \subseteq {"all", "rows"}
    /\ \A d \in setup.datasets : RowCount[d] > 0
    /\ \A d, e \in setup.datasets : d # e => Size[d] # Size[e]

\* What a careful caller decodes is what it encoded, whatever was decoded, encoded
\* or freed before (Decoder::decodeAll, "encoded: the encoded data to decode"):
\* a header and the one before it never share a view's address, and every header
\* that replaces another goes through the caches keyed by those addresses.
ReadsWhatItIsGiven == Careful => Reads

\* Any caller does (what getCachedHeader's comment says its key is for).
AnyoneReadsWhatItIsGiven == Reads

\* A decode knows the right number of rows, even of a buffer that took over
\* the address and the size of a freed one (getCachedHeader, "returning a stale
\* header with the wrong N").
RightRowCount == read # None => read.rows = RowCount[read.given]
=============================================================================

--------------------------- MODULE ArtifactCache ---------------------------
(***************************************************************************)
(* The benchmark drivers' cache of encoded payloads                        *)
(* (src/Source/benchmark/ArtifactCache.hpp): a list of entries, most       *)
(* recently used first, an index from keys to list nodes, and a bound.     *)
(*                                                                         *)
(* An artifact holds a payload and shares the codec object that made it.   *)
(* A SubIntSplitAuto codec keeps the plan it selected in impl_, and        *)
(* decodes by that plan: an artifact is of use only while the codec still  *)
(* holds the plan of its payload.  A plan is abstracted to the stream its  *)
(* selection looked at and a choice among Plans, since two selections may  *)
(* differ.  A stream is a dataset at one length: the pair the key names.   *)
(*                                                                         *)
(* The drivers' part is their documented use: the artifact of the last     *)
(* get() is the one in use, and a cache of more than one entry serves      *)
(* encoders within one dataset, which the sweep does not come back to.     *)
(***************************************************************************)
EXTENDS Integers, FiniteSets, SequencesExt

CONSTANTS
    Encoders,       \* the registry's entries, by name
    Autos,           \* those whose codec is a SubIntSplitAuto
    Streams,        \* the (dataset, length) pairs of the sweep
    Plans,          \* what a selection may answer
    Bounds,         \* values of Options::maxResident
    Warmup,         \* untimed encodes of a timed request
    Iterations,     \* timed encodes of a timed request
    None            \* no plan, no artifact in use, no request

ASSUME ArtifactCacheAssumption ==
    /\ Autos \subseteq Encoders
    /\ Bounds \subseteq Nat
    /\ Warmup \in Nat /\ Iterations \in Nat

VARIABLES
    maxResident,    \* options_.maxResident
    entries,        \* entries_, front first: [node, key, art]
    index,          \* index_: key -> node
    impl,           \* impl_ of every codec: a plan or None
    held,           \* the node of the reference the driver uses, or None
    request,        \* what the driver asked for when it got it
    past,           \* streams the sweep has left
    uses,           \* history: the resident keys, the latest used first
    broken          \* history: encoders whose latest encode() threw

vars == <<maxResident, entries, index, impl, held, request, past, uses, broken>>

Measurements == {"None", "Timed", "TimedAndPeakHeap"}
Keys == [enc : Encoders, stream : Streams]
Requests == [enc : Encoders, stream : Streams, measurement : Measurements]
Plan == [of : Streams, choice : Plans]
Impls == Plan \cup {None}
Artifacts == [of : Keys, plan : Impls, timings : SUBSET Impls, heap : SUBSET Impls]
Entries == [node : Nat, key : Keys, art : Artifacts]

ASSUME NoneAssumption == None \notin Plan /\ None \notin Requests /\ None \notin Nat

-----------------------------------------------------------------------------
(* Encoding *)

\* Mutant of AfterReset: encode() is called on the codec as it is.
NotReset(e) == impl[e]

AfterReset(e) == None

\* ensureEncoder(): a codec that has a plan keeps it, whatever the data.
Ensured(i, e, s) ==
    IF e \notin Autos THEN {None}
    ELSE IF i # None THEN {i} ELSE [of : {s}, choice : Plans]

TimedRuns == IF Iterations = 0 THEN 1 ELSE Iterations

EncodeCalls(m) ==
    CASE m = "None" -> 1
      [] m = "Timed" -> Warmup + TimedRuns
      [] m = "TimedAndPeakHeap" -> Warmup + TimedRuns + 1

\* The plans that a request's encode() calls use, in order.
Runs(e, s, m) ==
    {r \in [1 .. EncodeCalls(m) -> {AfterReset(e), None} \cup [of : {s}, choice : Plans]] :
        \A i \in DOMAIN r :
            r[i] \in Ensured(IF i = 1 THEN AfterReset(e) ELSE r[i - 1], e, s)}

\* Mutant of LeftBy: reset() after the encode, not before it.
ResetAfter(r) == None

\* What the codec is left with.
LeftBy(r) == Last(r)

\* The payload is the last encode()'s; the timings are of those after the
\* warm-up, the heap figures of one more.
Artifact(k, m, r) ==
    [of      |-> k,
     plan    |-> Last(r),
     timings |-> IF m = "None" THEN {}
                 ELSE {r[i] : i \in Warmup + 1 .. Warmup + TimedRuns},
     heap    |-> IF m = "TimedAndPeakHeap" THEN {Last(r)} ELSE {}]

\* Mutant of Satisfies: an artifact with timings has heap figures too.
TimedIsEnough(a, m) == m # "None" => a.timings # {}

Satisfies(a, m) ==
    /\ m \in {"Timed", "TimedAndPeakHeap"} => a.timings # {}
    /\ m = "TimedAndPeakHeap" => a.heap # {}

-----------------------------------------------------------------------------
(* The list and its index *)

Clamped(bound) == IF bound = 0 THEN 1 ELSE bound

CacheKey(e, s) == [enc |-> e, stream |-> s]

\* A list without the elements that are not to be kept, as a recursive function.
Sifted(list, Keep) ==
    LET sift[i \in 0 .. Len(list)] ==
            IF i = 0 THEN <<>>
            ELSE IF list[i] \in Keep THEN Append(sift[i - 1], list[i]) ELSE sift[i - 1]
    IN  sift[Len(list)]

Entry(node) == entries[CHOOSE i \in DOMAIN entries : entries[i].node = node]
Without(node) == Sifted(entries, {x \in ToSet(entries) : x.node # node})
Nodes == {x.node : x \in ToSet(entries)}
NewNode == CHOOSE n \in 1 .. Len(entries) + 1 : n \notin Nodes

Unmapped(ix, keys) == [k \in DOMAIN ix \ keys |-> ix[k]]
Mapped(ix, k, node) == [x \in DOMAIN ix \cup {k} |-> IF x = k THEN node ELSE ix[x]]

\* Mutant of Touched: a hit leaves the list as it is.
LeftInPlace(node) == entries

Touched(node) == <<Entry(node)>> \o Without(node)

\* trim(): what stays of a list, and the keys that leave the index with the rest.
\* Mutant of Kept: trimmed before the insertion.
OneMore(list) == SubSeq(list, 1, IF Len(list) <= maxResident THEN Len(list) ELSE maxResident + 1)
Kept(list) == SubSeq(list, 1, IF Len(list) < maxResident THEN Len(list) ELSE maxResident)
\* Mutant of Trimmed: trim() forgets the index.
Nothing(list) == {}
Trimmed(list) == {list[i].key : i \in Len(Kept(list)) + 1 .. Len(list)}

UsedFirst(k) == <<k>> \o Sifted(uses, Keys \ {k})
Resident(list) == {x.key : x \in ToSet(list)}

Hit(k, m) == k \in DOMAIN index /\ Satisfies(Entry(index[k]).art, m)

\* A resident artifact that lacks what is asked for goes before the encode.
Dropped(k) == IF k \in DOMAIN index THEN Without(index[k]) ELSE entries

-----------------------------------------------------------------------------
(* The calls *)

\* The drivers' documented use of get().
InSweep(s) == s \notin past
Left(s) == IF maxResident = 1 \/ request = None THEN past
           ELSE (past \cup {request.stream}) \ {s}

Ask(e, s, m) == request' = [enc |-> e, stream |-> s, measurement |-> m]

GetHit(e, s, m) ==
    LET k == CacheKey(e, s) IN
    /\ InSweep(s) /\ Hit(k, m)
    /\ entries' = Touched(index[k])
    /\ held' = index[k]
    /\ uses' = UsedFirst(k)
    /\ past' = Left(s) /\ Ask(e, s, m)
    /\ UNCHANGED <<maxResident, index, impl, broken>>

GetMiss(e, s, m) ==
    LET k == CacheKey(e, s) IN
    /\ InSweep(s) /\ ~Hit(k, m)
    /\ \E r \in Runs(e, s, m) :
        LET node == NewNode
            list == <<[node |-> node, key |-> k,
                       art |-> Artifact([enc |-> e, stream |-> s], m, r)]>> \o Dropped(k) IN
        /\ entries' = Kept(list)
        /\ index' = Unmapped(Mapped(index, k, node), Trimmed(list))
        /\ impl' = [impl EXCEPT ![e] = LeftBy(r)]
        /\ held' = node
    /\ uses' = Sifted(UsedFirst(k), Resident(entries'))
    /\ broken' = broken \ {e}
    /\ past' = Left(s) /\ Ask(e, s, m)
    /\ UNCHANGED maxResident

\* An encode() throws, in its selection (the codec has the plan it had) or
\* after it.  Nothing is inserted; the drivers report the cell and go on.
GetThrows(e, s, m) ==
    LET k == CacheKey(e, s) IN
    /\ InSweep(s) /\ ~Hit(k, m)
    /\ \E i \in {AfterReset(e)} \cup {LeftBy(r) : r \in Runs(e, s, m)} :
        impl' = [impl EXCEPT ![e] = i]
    /\ entries' = Dropped(k)
    /\ index' = Unmapped(index, {k})
    /\ held' = None
    /\ uses' = Sifted(uses, Keys \ {k})
    /\ broken' = broken \cup {e}
    /\ past' = Left(s) /\ Ask(e, s, m)
    /\ UNCHANGED maxResident

\* A driver evicts an encoder at the end of the loop body that used it.
Evict(e) ==
    /\ entries' = Sifted(entries, {x \in ToSet(entries) : x.key.enc # e})
    /\ index' = Unmapped(index, {k \in DOMAIN index : k.enc = e})
    /\ uses' = Sifted(uses, {k \in Keys : k.enc # e})
    /\ held' = None
    /\ UNCHANGED <<maxResident, impl, request, past, broken>>

Clear ==
    /\ entries' = <<>> /\ index' = <<>> /\ uses' = <<>> /\ held' = None
    /\ UNCHANGED <<maxResident, impl, request, past, broken>>

Init ==
    /\ maxResident \in {Clamped(b) : b \in Bounds}
    /\ entries = <<>> /\ index = <<>> /\ uses = <<>>
    /\ impl = [e \in Encoders |-> None]
    /\ held = None /\ request = None
    /\ past = {} /\ broken = {}

Next ==
    \/ \E e \in Encoders, s \in Streams, m \in Measurements :
        GetHit(e, s, m) \/ GetMiss(e, s, m) \/ GetThrows(e, s, m)
    \/ \E e \in Encoders : Evict(e)
    \/ Clear

Spec == Init /\ [][Next]_vars

-----------------------------------------------------------------------------
(* Properties *)

\* Types, and the bound: between calls the list is no longer than allowed.
TypeOK ==
    /\ maxResident \in Nat \ {0}
    /\ entries \in Seq(Entries) /\ Len(entries) <= maxResident
    /\ uses \in Seq(Keys)
    /\ impl \in [Encoders -> Impls]
    /\ held \in Nat \cup {None}
    /\ request \in Requests \cup {None}
    /\ past \subseteq Streams /\ broken \subseteq Encoders

\* The index has exactly the resident keys, and its iterators lead to the
\* live nodes that hold them (get(), evict() and trim() change both).
IndexFindsEntries ==
    /\ DOMAIN index = Resident(entries)
    /\ Cardinality(Nodes) = Len(entries)
    /\ \A k \in DOMAIN index : index[k] \in Nodes /\ Entry(index[k]).key = k

\* The list is in order of use, so that what trim() drops is the artifact
\* whose last use is the longest ago: a hit counts as a use.
LeastRecentlyUsedGoes ==
    [i \in DOMAIN entries |-> entries[i].key] = uses

\* The reference get() returned is to a live entry until the driver evicts;
\* it is the artifact of the encoder, dataset and length asked for, and has
\* the measurements asked for (bench_encode.cpp reads them unchecked).
HeldIsWhatWasAsked ==
    held # None =>
        /\ held \in Nodes
        /\ Entry(held).art.of = [enc |-> request.enc, stream |-> request.stream]
        /\ request.measurement # "None" => Entry(held).art.timings # {}
        /\ request.measurement = "TimedAndPeakHeap" => Entry(held).art.heap # {}

\* The payload, the timings and the heap figures of an artifact are of one
\* plan, and the plan was selected on the artifact's own data (the reset()
\* before the encodes, and the plan the codec keeps through them).
MeasuresOnePlan ==
    \A x \in ToSet(entries) :
        /\ x.art.timings \cup x.art.heap \subseteq {x.art.plan}
        /\ x.art.plan # None => x.art.plan.of = x.art.of.stream

\* The artifact in use decodes: its codec holds the plan of its payload.
\* Not after an encode of the same codec threw: the codec is reset by then,
\* and a get() of an artifact that is still resident is a hit.
HeldDecodes ==
    held # None /\ request.enc \notin broken =>
        impl[request.enc] = Entry(held).art.plan
=============================================================================

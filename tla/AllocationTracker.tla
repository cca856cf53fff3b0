------------------------- MODULE AllocationTracker -------------------------
(***************************************************************************)
(* The counters behind ScopedAllocationTrack, fed by operator new and      *)
(* operator delete on every thread of a benchmark.                         *)
(*                                                                         *)
(* The main thread opens a guard, runs the code under measurement, which   *)
(* starts threads and joins them, and stops the guard.  Other threads of   *)
(* the process allocate at any time.  Every atomic operation is a step;    *)
(* they interleave as if sequentially consistent.                          *)
(***************************************************************************)
EXTENDS Integers, FiniteSets, FiniteSetsExt

CONSTANTS
    Main,        \* the thread that measures
    Workers,     \* threads of the code under measurement
    Background,  \* other threads of the process
    Sizes,       \* usable sizes of blocks
    MaxBlocks,   \* bound: blocks allocated at a time
    MaxGuards    \* bound: guards opened

Own     == {Main} \cup Workers
Threads == Own \cup Background

ASSUME ThreadsAssumption ==
    /\ Main \notin Workers \cup Background /\ Workers \cap Background = {}
    /\ IsFiniteSet(Threads)
ASSUME SizesAssumption == Sizes \subseteq Nat \ {0} /\ IsFiniteSet(Sizes)
ASSUME BoundsAssumption == MaxBlocks \in Nat /\ MaxGuards \in Nat

VARIABLES
    liveBytes, peakLiveBytes, trackingPeak,  \* the three atomics
    blocks,    \* the heap: how many blocks there are of each size
    at,        \* per thread: where in operator new or delete
    size,      \* the size of its block
    cur,       \* recordAlloc's cur and prev
    prev,
    guard,     \* where the main thread is with its guard
    opened,    \* how many guards it opened
    baseline,  \* baseline_
    reported,  \* what stop() returned
    own,       \* history: the largest count the measured code reached under this
               \* guard, and the largest any thread did, or had not yet
    high       \* recorded when the guard took its baseline

counters == <<liveBytes, peakLiveBytes, trackingPeak>>
thread   == <<at, size, cur, prev>>
tracked  == <<opened, baseline, reported>>
history  == <<own, high>>
vars     == <<counters, blocks, thread, guard, tracked, history>>

Init == /\ liveBytes = 0 /\ peakLiveBytes = 0 /\ trackingPeak = FALSE
        /\ blocks = [n \in Sizes |-> 0]
        /\ at = [t \in Threads |-> "run"]
        /\ size = [t \in Threads |-> 0]
        /\ cur = [t \in Threads |-> 0] /\ prev = [t \in Threads |-> 0]
        /\ guard = "closed"
        /\ opened = 0 /\ baseline = 0 /\ reported = 0
        /\ own = 0 /\ high = 0

-----------------------------------------------------------------------------
(* operator new and operator delete.                                       *)

\* The main thread is not between the steps of a guard's operation; the code
\* under measurement runs under a guard.
Runs(t) == /\ at[t] = "run"
           /\ t = Main => guard \in {"closed", "open", "stopped"}
           /\ t \in Workers => guard = "open"

Larger(a, b) == IF a > b THEN a ELSE b

Allocated == MapThenSumSet(LAMBDA n : blocks[n], Sizes)

\* The operator returns; its locals are gone.
Return(t) == /\ at' = [at EXCEPT ![t] = "run"]
             /\ cur' = [cur EXCEPT ![t] = 0]
             /\ prev' = [prev EXCEPT ![t] = 0]

Malloc(t, n) ==
    /\ Runs(t)
    /\ Allocated < MaxBlocks
    /\ blocks' = [blocks EXCEPT ![n] = @ + 1]
    /\ at' = [at EXCEPT ![t] = "allocated"]
    /\ size' = [size EXCEPT ![t] = n]
    /\ UNCHANGED <<counters, cur, prev, guard, tracked, history>>

\* recordAlloc: liveBytes.fetch_add
Count(t) ==
    /\ at[t] = "allocated"
    /\ liveBytes' = liveBytes + size[t]
    /\ cur' = [cur EXCEPT ![t] = liveBytes']
    /\ size' = [size EXCEPT ![t] = 0]
    /\ at' = [at EXCEPT ![t] = "counted"]
    /\ own' = IF t \in Own /\ guard = "open" THEN Larger(own, liveBytes') ELSE own
    /\ high' = IF guard \in {"baseline", "peak", "open"} THEN Larger(high, liveBytes')
               ELSE high
    /\ UNCHANGED <<peakLiveBytes, trackingPeak, blocks, prev, guard, tracked>>

LoadTracking(t) ==
    /\ at[t] = "counted"
    /\ IF trackingPeak THEN at' = [at EXCEPT ![t] = "tracking"] /\ UNCHANGED <<cur, prev>>
                       ELSE Return(t)
    /\ UNCHANGED <<counters, blocks, size, guard, tracked, history>>

LoadPeak(t) ==
    /\ at[t] = "tracking"
    /\ prev' = [prev EXCEPT ![t] = peakLiveBytes]
    /\ at' = [at EXCEPT ![t] = "raise"]
    /\ UNCHANGED <<counters, blocks, size, cur, guard, tracked, history>>

RaiseOnce(t) ==                                 \* mutant of Raise
    /\ at[t] = "raise"
    /\ peakLiveBytes' = IF cur[t] > prev[t] /\ peakLiveBytes = prev[t] THEN cur[t]
                        ELSE peakLiveBytes
    /\ Return(t)
    /\ UNCHANGED <<liveBytes, trackingPeak, blocks, size, guard, tracked, history>>
RaiseBlindly(t) ==                              \* mutant of Raise
    /\ at[t] = "raise"
    /\ peakLiveBytes' = IF cur[t] > prev[t] THEN cur[t] ELSE peakLiveBytes
    /\ Return(t)
    /\ UNCHANGED <<liveBytes, trackingPeak, blocks, size, guard, tracked, history>>
\* One round of the loop on compare_exchange_weak: a failure loads the peak.
\* (A spurious failure changes nothing.)
Raise(t) ==
    /\ at[t] = "raise"
    /\ IF cur[t] <= prev[t]
       THEN Return(t) /\ UNCHANGED peakLiveBytes
       ELSE IF peakLiveBytes = prev[t]
       THEN Return(t) /\ peakLiveBytes' = cur[t]
       ELSE prev' = [prev EXCEPT ![t] = peakLiveBytes] /\ UNCHANGED <<peakLiveBytes, at, cur>>
    /\ UNCHANGED <<liveBytes, trackingPeak, blocks, size, guard, tracked, history>>

\* The size is taken before std::free.
Free(t, n) ==
    /\ Runs(t)
    /\ blocks[n] > 0
    /\ blocks' = [blocks EXCEPT ![n] = @ - 1]
    /\ size' = [size EXCEPT ![t] = n]
    /\ at' = [at EXCEPT ![t] = "freed"]
    /\ UNCHANGED <<counters, cur, prev, guard, tracked, history>>

ForgetFree(t) ==                                \* mutant of RecordFree
    /\ at[t] = "freed"
    /\ liveBytes' = IF trackingPeak THEN liveBytes - size[t] ELSE liveBytes
    /\ size' = [size EXCEPT ![t] = 0]
    /\ Return(t)
    /\ UNCHANGED <<peakLiveBytes, trackingPeak, blocks, guard, tracked, history>>
RecordFree(t) ==
    /\ at[t] = "freed"
    /\ liveBytes' = liveBytes - size[t]
    /\ size' = [size EXCEPT ![t] = 0]
    /\ Return(t)
    /\ UNCHANGED <<peakLiveBytes, trackingPeak, blocks, guard, tracked, history>>

-----------------------------------------------------------------------------
(* ScopedAllocationTrack.                                                  *)

InFlight == {t \in Threads : at[t] \in {"counted", "tracking", "raise"}}

\* The constructor's three steps.
LoadBaseline ==
    /\ guard = "closed" /\ at[Main] = "run"
    /\ opened < MaxGuards
    /\ opened' = opened + 1
    /\ baseline' = liveBytes
    /\ own' = liveBytes
    /\ high' \in {liveBytes} \cup {cur[t] : t \in InFlight}
    /\ high' >= liveBytes /\ \A t \in InFlight : high' >= cur[t]
    /\ guard' = "baseline"
    /\ UNCHANGED <<counters, blocks, thread, reported>>

StorePeak ==
    /\ guard = "baseline"
    /\ peakLiveBytes' = baseline
    /\ guard' = "peak"
    /\ UNCHANGED <<liveBytes, trackingPeak, blocks, thread, tracked, history>>

StoreTracking ==
    /\ guard = "peak"
    /\ trackingPeak' = TRUE
    /\ guard' = "open"
    /\ UNCHANGED <<liveBytes, peakLiveBytes, blocks, thread, tracked, history>>

\* The code under measurement has returned, its threads are joined.
Joined == \A t \in Own : at[t] = "run"

\* stop(), the first time or again.
StopTracking ==
    /\ guard \in {"open", "stopped"} /\ Joined
    /\ trackingPeak' = FALSE
    /\ guard' = "stopping"
    /\ UNCHANGED <<liveBytes, peakLiveBytes, blocks, thread, tracked, history>>

BaselineAbove(p) == IF p > baseline THEN baseline - p ELSE 0   \* mutant of Above
Above(p)         == IF p > baseline THEN p - baseline ELSE 0

Report ==
    /\ guard = "stopping"
    /\ reported' = Above(peakLiveBytes)
    /\ guard' = "stopped"
    /\ UNCHANGED <<counters, blocks, thread, opened, baseline, history>>

\* The destructor calls stop() once more, for its effect on the flag.
Close ==
    /\ guard = "stopped" /\ Joined
    /\ trackingPeak' = FALSE
    /\ guard' = "closed"
    /\ baseline' = 0 /\ reported' = 0
    /\ own' = 0 /\ high' = 0
    /\ UNCHANGED <<liveBytes, peakLiveBytes, blocks, thread, opened>>

-----------------------------------------------------------------------------
GuardStep == LoadBaseline \/ StorePeak \/ StoreTracking \/ StopTracking \/ Report \/ Close

ThreadStep(t) == \/ \E n \in Sizes : Malloc(t, n) \/ Free(t, n)
                 \/ Count(t) \/ LoadTracking(t) \/ LoadPeak(t) \/ Raise(t)
                 \/ RecordFree(t)

Next == GuardStep \/ \E t \in Threads : ThreadStep(t)

Spec == Init /\ [][Next]_vars

-----------------------------------------------------------------------------
\* Every variable has its type.
TypeOK ==
    /\ liveBytes \in Int /\ peakLiveBytes \in Int /\ trackingPeak \in BOOLEAN
    /\ blocks \in [Sizes -> Nat]
    /\ at \in [Threads -> {"run", "allocated", "counted", "tracking", "raise", "freed"}]
    /\ size \in [Threads -> Sizes \cup {0}]
    /\ cur \in [Threads -> Int] /\ prev \in [Threads -> Int]
    /\ guard \in {"closed", "baseline", "peak", "open", "stopping", "stopped"}
    /\ opened \in Nat /\ baseline \in Int /\ reported \in Nat
    /\ own \in Int /\ high \in Int

\* A guard reports at least the highest count of live bytes that the measured
\* code reached, however its threads and others interleave on the two counters;
\* and no more than the highest count of any thread since, or on its way to be
\* recorded when, the guard took its baseline (ScopedAllocationTrack, "the
\* highest number of concurrently-live bytes above the construction-time
\* baseline observed during the guard's lifetime").
ReportedIsThePeak ==
    guard = "stopped" => /\ own - baseline <= reported
                         /\ reported <= high - baseline

\* While a guard is open no thread takes the peak back.
PeakOnlyRises == [][guard = "open" => peakLiveBytes' >= peakLiveBytes]_vars

\* The bytes in the blocks of each size.
bytes == [n \in Sizes |-> n * blocks[n]]

\* The count is of the blocks there are whenever no thread is between an
\* allocation and its record (allocation_hooks.cpp, "recordAlloc() and
\* recordFree() see the same block size").
CountIsExactWhenQuiet ==
    (\A t \in Threads : at[t] \notin {"allocated", "freed"}) =>
        liveBytes = MapThenSumSet(LAMBDA n : bytes[n], Sizes)
=============================================================================

---------------------- MODULE AllocationTrackerProofs ----------------------
(***************************************************************************)
(* Proofs about AllocationTracker, for every number of threads, of blocks  *)
(* and of guards.                                                          *)
(***************************************************************************)
EXTENDS AllocationTracker, Induction

\* Peaks are recorded under an open guard only.
FlagInv == trackingPeak <=> guard = "open"

\* Where the measured code's threads may be.
QuietInv ==
    /\ guard # "open" => \A t \in Workers : at[t] = "run"
    /\ guard \in {"baseline", "peak", "stopping"} => at[Main] = "run"
    /\ guard # "open" => at[Main] \notin {"tracking", "raise"}

\* The baseline and the two histories are in order.
OrderInv == /\ baseline <= own /\ own <= high
            /\ guard \in {"baseline", "peak"} => own = baseline

\* No thread is about to record a count above the highest.
FlightInv ==
    /\ guard \in {"baseline", "peak", "open"} => \A t \in InFlight : cur[t] <= high
    /\ guard \in {"stopping", "stopped"} =>
          \A t \in Threads : at[t] \in {"tracking", "raise"} => cur[t] <= high

\* The peak lies between the baseline and the highest count.
PeakInv == guard \in {"peak", "open", "stopping", "stopped"} =>
               baseline <= peakLiveBytes /\ peakLiveBytes <= high

\* A measured thread that compares has loaded the peak under this guard.
PrevInv == guard = "open" =>
               \A t \in Own : at[t] = "raise" => prev[t] <= peakLiveBytes

\* The measured code's highest count is in the peak, or a thread is about to
\* put it there.
CoverInv ==
    /\ guard = "open" => \/ own <= peakLiveBytes
                         \/ \E t \in Own \cap InFlight : own <= cur[t]
    /\ guard \in {"stopping", "stopped"} => own <= peakLiveBytes

IInv == /\ TypeOK /\ FlagInv /\ QuietInv /\ OrderInv /\ FlightInv /\ PeakInv
        /\ PrevInv /\ CoverInv /\ ReportedIsThePeak

-----------------------------------------------------------------------------
\* The constants' sizes are numbers, and the main thread is a thread.
LEMMA Constants == /\ Main \in Threads /\ Main \in Own /\ Own \subseteq Threads
                   /\ Workers \subseteq Own /\ Main \notin Workers
                   /\ \A n \in Sizes \cup {0} : n \in Int
                   /\ Background \cap Own = {} /\ Threads = Own \cup Background
BY ThreadsAssumption, SizesAssumption DEF Threads, Own

\* Everything holds before anything runs.
LEMMA InitInv == Init => IInv
<1> SUFFICES ASSUME Init PROVE IInv
  OBVIOUS
<1> USE Constants DEF Init
<1>1. TypeOK
  BY DEF TypeOK
<1>2. FlagInv /\ OrderInv
  BY DEF FlagInv, OrderInv
<1>4. QuietInv
  BY DEF QuietInv
<1>5. FlightInv /\ PeakInv /\ PrevInv /\ CoverInv
  BY DEF FlightInv, PeakInv, PrevInv, CoverInv
<1>3. ReportedIsThePeak
  BY DEF ReportedIsThePeak
<1> QED
  BY <1>1, <1>2, <1>3, <1>4, <1>5 DEF IInv

\* A block is allocated, counted by nobody yet.
LEMMA MallocInv ==
    ASSUME IInv, NEW t \in Threads, NEW n \in Sizes, Malloc(t, n)
    PROVE  IInv'
<1> USE Constants DEF IInv, Malloc
<1>1. TypeOK'
  BY DEF TypeOK, counters, tracked, history
<1>2. FlagInv'
  BY DEF FlagInv, counters
<1>3. QuietInv'
  BY DEF QuietInv, Runs, TypeOK
<1>4. OrderInv'
  BY DEF OrderInv, tracked, history
<1>5. InFlight' = InFlight
  BY DEF InFlight, Runs, TypeOK
<1>6. FlightInv'
  BY <1>5 DEF FlightInv, history, TypeOK
<1>7. PeakInv' /\ ReportedIsThePeak'
  BY DEF PeakInv, ReportedIsThePeak, counters, tracked, history
<1>8. PrevInv'
  BY DEF PrevInv, counters, TypeOK
<1>9. CoverInv'
  BY <1>5 DEF CoverInv, counters, history
<1> QED
  BY <1>1, <1>2, <1>3, <1>4, <1>6, <1>7, <1>8, <1>9

\* A free under way, or recorded, touches no count that is being raised.
LEMMA FreeInv ==
    ASSUME IInv, NEW t \in Threads,
           (\E n \in Sizes : Free(t, n)) \/ RecordFree(t)
    PROVE  IInv'
<1> USE Constants DEF IInv, Return
<1>1. CASE \E n \in Sizes : Free(t, n)
  <2>1. PICK n \in Sizes : Free(t, n)
    BY <1>1
  <2> USE <2>1 DEF Free
  <2>2. TypeOK'
    BY DEF TypeOK, counters, tracked, history
  <2>3. FlagInv' /\ QuietInv'
    BY DEF FlagInv, QuietInv, Runs, TypeOK, counters
  <2>4. InFlight' = InFlight
    BY DEF InFlight, Runs, TypeOK
  <2>5. FlightInv' /\ OrderInv' /\ PeakInv' /\ ReportedIsThePeak'
    BY <2>4 DEF FlightInv, OrderInv, PeakInv, ReportedIsThePeak, counters, tracked,
                history, TypeOK
  <2>6. PrevInv' /\ CoverInv'
    BY <2>4 DEF PrevInv, CoverInv, counters, history, TypeOK
  <2> QED
    BY <2>2, <2>3, <2>5, <2>6
<1>2. CASE RecordFree(t)
  <2> USE <1>2 DEF RecordFree
  <2>2. TypeOK'
    BY DEF TypeOK, tracked, history
  <2>3. FlagInv' /\ QuietInv'
    BY DEF FlagInv, QuietInv, TypeOK
  <2>4. InFlight' = InFlight /\ \A u \in InFlight : cur'[u] = cur[u]
    BY DEF InFlight, TypeOK
  <2>5. FlightInv' /\ OrderInv' /\ PeakInv' /\ ReportedIsThePeak'
    BY <2>4 DEF FlightInv, OrderInv, PeakInv, ReportedIsThePeak, tracked, history, TypeOK
  <2>6. PrevInv' /\ CoverInv'
    BY <2>4 DEF PrevInv, CoverInv, history, TypeOK
  <2> QED
    BY <2>2, <2>3, <2>5, <2>6
<1> QED
  BY <1>1, <1>2

\* A count taken under a guard enters the histories, and its thread is about
\* to record it.
LEMMA CountInv ==
    ASSUME IInv, NEW t \in Threads, Count(t)
    PROVE  IInv'
<1> USE Constants DEF IInv, Count
<1>1. /\ liveBytes' \in Int /\ cur'[t] = liveBytes'
      /\ \A u \in Threads \ {t} : cur'[u] = cur[u] /\ at'[u] = at[u]
      /\ at'[t] = "counted" /\ t \notin InFlight
      /\ InFlight' = InFlight \cup {t}
  BY DEF TypeOK, InFlight
<1>2. TypeOK'
  BY <1>1 DEF TypeOK, tracked, Larger
<1>3. FlagInv' /\ QuietInv'
  BY DEF FlagInv, QuietInv, TypeOK
<1>4. /\ own' \in Int /\ high' \in Int /\ own <= own' /\ high <= high'
      /\ guard \in {"baseline", "peak", "open"} => liveBytes' <= high'
      /\ guard \notin {"baseline", "peak", "open"} => high' = high
      /\ guard # "open" => own' = own
  BY <1>1 DEF Larger, TypeOK
<1>5. OrderInv'
  BY <1>1, <1>4 DEF OrderInv, Larger, tracked, TypeOK
<1>6. FlightInv'
  BY <1>1, <1>4 DEF FlightInv, TypeOK, InFlight
<1>7. PeakInv'
  BY <1>4 DEF PeakInv, tracked, TypeOK
<1>8. ReportedIsThePeak'
  BY <1>4 DEF ReportedIsThePeak, tracked, TypeOK
<1>9. PrevInv'
  BY DEF PrevInv, TypeOK
<1>10. CoverInv'
  <2>1. CASE guard = "open"
    <3>1. CASE own' = own
      BY <1>1, <2>1, <3>1 DEF CoverInv
    <3>2. CASE own' # own
      <4>1. t \in Own \cap InFlight' /\ own' <= cur'[t]
        BY <1>1, <2>1, <3>2 DEF Larger, TypeOK
      <4> QED
        BY <2>1, <4>1 DEF CoverInv
    <3> QED
      BY <3>1, <3>2
  <2>2. CASE guard # "open"
    BY <1>4, <2>2 DEF CoverInv
  <2> QED
    BY <2>1, <2>2
<1> QED
  BY <1>2, <1>3, <1>5, <1>6, <1>7, <1>8, <1>9, <1>10

\* A thread that finds the flag down drops its count: under an open guard the
\* flag is up.
LEMMA LoadInv ==
    ASSUME IInv, NEW t \in Threads, LoadTracking(t) \/ LoadPeak(t)
    PROVE  IInv'
<1> USE Constants DEF IInv, Return
<1>1. CASE LoadTracking(t)
  <2> USE <1>1 DEF LoadTracking
  <2>1. TypeOK'
    BY DEF TypeOK, counters, tracked, history
  <2>2. FlagInv' /\ OrderInv' /\ PeakInv' /\ ReportedIsThePeak'
    BY DEF FlagInv, OrderInv, PeakInv, ReportedIsThePeak, counters, tracked, history
  <2>3. QuietInv'
    BY DEF QuietInv, FlagInv, TypeOK
  <2>4. /\ InFlight' \subseteq InFlight
        /\ \A u \in InFlight' : cur'[u] = cur[u]
        /\ guard = "open" => InFlight' = InFlight
    <3>1. CASE trackingPeak
      BY <3>1 DEF InFlight, TypeOK
    <3>2. CASE ~trackingPeak
      <4>1. InFlight' = InFlight \ {t} /\ \A u \in InFlight' : cur'[u] = cur[u]
        BY <3>2 DEF InFlight, TypeOK
      <4> QED
        BY <3>2, <4>1 DEF FlagInv
    <3> QED
      BY <3>1, <3>2
  <2>5. FlightInv'
    <3>1. guard \in {"stopping", "stopped"} =>
              \A u \in Threads : at'[u] \in {"tracking", "raise"} => at'[u] = at[u]
      BY DEF FlagInv, TypeOK
    <3> QED
      BY <2>4, <3>1 DEF FlightInv, history, InFlight
  <2>6. PrevInv'
    BY DEF PrevInv, counters, TypeOK
  <2>7. CoverInv'
    BY <2>4 DEF CoverInv, counters, history, TypeOK
  <2> QED
    BY <2>1, <2>2, <2>3, <2>5, <2>6, <2>7
<1>2. CASE LoadPeak(t)
  <2> USE <1>2 DEF LoadPeak
  <2>1. TypeOK'
    BY DEF TypeOK, counters, tracked, history
  <2>2. FlagInv' /\ OrderInv' /\ PeakInv' /\ ReportedIsThePeak'
    BY DEF FlagInv, OrderInv, PeakInv, ReportedIsThePeak, counters, tracked, history
  <2>3. QuietInv'
    BY DEF QuietInv, TypeOK
  <2>4. InFlight' = InFlight
    BY DEF InFlight, TypeOK
  <2>5. FlightInv'
    BY <2>4 DEF FlightInv, history, TypeOK
  <2>6. PrevInv'
    BY DEF PrevInv, counters, TypeOK
  <2>7. CoverInv'
    BY <2>4 DEF CoverInv, counters, history, TypeOK
  <2> QED
    BY <2>1, <2>2, <2>3, <2>5, <2>6, <2>7
<1> QED
  BY <1>1, <1>2

\* The peak rises to a count no higher than the highest, and a thread gives up
\* only on a peak that covers its count.
LEMMA RaiseInv ==
    ASSUME IInv, NEW t \in Threads, Raise(t)
    PROVE  IInv'
<1> USE Constants DEF IInv, Raise, Return
<1>1. /\ TypeOK' /\ peakLiveBytes' >= peakLiveBytes
      /\ peakLiveBytes' # peakLiveBytes => peakLiveBytes' = cur[t]
  BY DEF TypeOK, tracked, history
<1>2. FlagInv' /\ OrderInv' /\ ReportedIsThePeak'
  BY DEF FlagInv, OrderInv, ReportedIsThePeak, tracked, history
<1>3. QuietInv'
  BY DEF QuietInv, TypeOK
<1>4. /\ InFlight' \in {InFlight, InFlight \ {t}}
      /\ \A u \in InFlight' : cur'[u] = cur[u]
      /\ t \in InFlight
  BY DEF InFlight, TypeOK
<1>5. FlightInv'
  BY <1>4 DEF FlightInv, history, TypeOK, InFlight
<1>6. PeakInv'
  BY <1>1, <1>4 DEF PeakInv, FlightInv, tracked, history, TypeOK
<1>7. PrevInv'
  BY <1>1 DEF PrevInv, TypeOK
<1>8. CoverInv'
  <2>1. t \in Own /\ guard = "open" /\ t \notin InFlight' => cur[t] <= peakLiveBytes'
    BY <1>1 DEF PrevInv, TypeOK, InFlight
  <2>2. CASE guard = "open"
    BY <1>1, <1>4, <2>1, <2>2 DEF CoverInv, history, TypeOK, OrderInv
  <2>3. CASE guard # "open"
    BY <1>1, <2>3 DEF CoverInv, history, TypeOK
  <2> QED
    BY <2>2, <2>3
<1> QED
  BY <1>1, <1>2, <1>3, <1>5, <1>6, <1>7, <1>8

\* Every step of the guard keeps the invariant: it opens on the highest count on
\* its way to be recorded, and stops when the measured threads are joined.
LEMMA GuardInv ==
    ASSUME IInv, GuardStep
    PROVE  IInv'
<1> USE Constants DEF IInv
<1>1. CASE LoadBaseline
  <2> USE <1>1 DEF LoadBaseline, counters, thread
  <2>1. TypeOK' /\ InFlight' = InFlight
    BY DEF TypeOK, InFlight
  <2>2. FlagInv' /\ QuietInv' /\ OrderInv'
    BY DEF FlagInv, QuietInv, OrderInv, TypeOK
  <2>3. FlightInv'
    BY <2>1 DEF FlightInv, TypeOK, InFlight
  <2>4. PeakInv' /\ PrevInv' /\ CoverInv' /\ ReportedIsThePeak'
    BY DEF PeakInv, PrevInv, CoverInv, ReportedIsThePeak
  <2> QED
    BY <2>1, <2>2, <2>3, <2>4
<1>2. CASE StorePeak
  <2> USE <1>2 DEF StorePeak, thread, tracked, history
  <2>1. TypeOK' /\ InFlight' = InFlight
    BY DEF TypeOK, InFlight
  <2>2. FlagInv' /\ QuietInv' /\ OrderInv'
    BY DEF FlagInv, QuietInv, OrderInv, TypeOK
  <2>3. FlightInv' /\ PeakInv'
    BY <2>1 DEF FlightInv, PeakInv, OrderInv, TypeOK
  <2>4. PrevInv' /\ CoverInv' /\ ReportedIsThePeak'
    BY DEF PrevInv, CoverInv, ReportedIsThePeak
  <2> QED
    BY <2>1, <2>2, <2>3, <2>4
<1>3. CASE StoreTracking
  <2> USE <1>3 DEF StoreTracking, thread, tracked, history
  <2>1. TypeOK' /\ InFlight' = InFlight
    BY DEF TypeOK, InFlight
  <2>2. FlagInv' /\ QuietInv' /\ OrderInv'
    BY DEF FlagInv, QuietInv, OrderInv, TypeOK
  <2>3. FlightInv' /\ PeakInv'
    BY <2>1 DEF FlightInv, PeakInv, TypeOK
  <2>4. PrevInv' /\ CoverInv' /\ ReportedIsThePeak'
    BY DEF PrevInv, CoverInv, ReportedIsThePeak, QuietInv, Own, OrderInv, PeakInv, TypeOK
  <2> QED
    BY <2>1, <2>2, <2>3, <2>4
<1>4. CASE StopTracking
  <2> USE <1>4 DEF StopTracking, Joined, thread, tracked, history
  <2>1. TypeOK' /\ InFlight' = InFlight
    BY DEF TypeOK, InFlight
  <2>2. FlagInv' /\ QuietInv' /\ OrderInv'
    BY DEF FlagInv, QuietInv, OrderInv, TypeOK
  <2>3. FlightInv' /\ PeakInv'
    BY <2>1 DEF FlightInv, PeakInv, TypeOK, InFlight
  <2>4. PrevInv' /\ ReportedIsThePeak'
    BY DEF PrevInv, ReportedIsThePeak
  <2>5. CoverInv'
    BY DEF CoverInv, InFlight
  <2> QED
    BY <2>1, <2>2, <2>3, <2>4, <2>5
<1>5. CASE Report
  <2> USE <1>5 DEF Report, counters, thread, history
  <2>1. TypeOK' /\ InFlight' = InFlight
    BY DEF TypeOK, InFlight, Above
  <2>2. FlagInv' /\ QuietInv' /\ OrderInv'
    BY DEF FlagInv, QuietInv, OrderInv, TypeOK
  <2>3. FlightInv' /\ PeakInv' /\ PrevInv' /\ CoverInv'
    BY <2>1 DEF FlightInv, PeakInv, PrevInv, CoverInv, TypeOK
  <2>4. ReportedIsThePeak'
    BY DEF ReportedIsThePeak, Above, PeakInv, CoverInv, OrderInv, TypeOK
  <2> QED
    BY <2>1, <2>2, <2>3, <2>4
<1>6. CASE Close
  <2> USE <1>6 DEF Close, Joined, thread
  <2>1. TypeOK' /\ InFlight' = InFlight
    BY DEF TypeOK, InFlight
  <2>2. FlagInv' /\ QuietInv' /\ OrderInv'
    BY DEF FlagInv, QuietInv, OrderInv, TypeOK
  <2>3. FlightInv' /\ PeakInv' /\ PrevInv' /\ CoverInv' /\ ReportedIsThePeak'
    BY DEF FlightInv, PeakInv, PrevInv, CoverInv, ReportedIsThePeak
  <2> QED
    BY <2>1, <2>2, <2>3
<1> QED
  BY <1>1, <1>2, <1>3, <1>4, <1>5, <1>6 DEF GuardStep

\* A step that changes nothing keeps the invariant.
LEMMA StutterInv == IInv /\ UNCHANGED vars => IInv'
BY DEF IInv, vars, counters, thread, tracked, history, TypeOK, FlagInv, QuietInv,
       OrderInv, FlightInv, PeakInv, PrevInv, CoverInv, ReportedIsThePeak, InFlight

-----------------------------------------------------------------------------
\* IInv is inductive, so it holds of every reachable state.
THEOREM Invariance == Spec => []IInv
<1>1. IInv /\ [Next]_vars => IInv'
  <2> SUFFICES ASSUME IInv, [Next]_vars PROVE IInv'
    OBVIOUS
  <2>1. CASE UNCHANGED vars
    BY <2>1, StutterInv
  <2>2. CASE GuardStep
    BY <2>2, GuardInv
  <2>3. ASSUME NEW t \in Threads, ThreadStep(t) PROVE IInv'
    BY <2>3, MallocInv, FreeInv, CountInv, LoadInv, RaiseInv DEF ThreadStep
  <2> QED
    BY <2>1, <2>2, <2>3 DEF Next
<1> QED
  BY <1>1, InitInv, PTL DEF Spec

\* The variables have their types.
THEOREM TypeCorrect == Spec => []TypeOK
<1>1. IInv => TypeOK
  BY DEF IInv
<1> QED
  BY <1>1, Invariance, PTL

\* A guard reports the peak of the measured code, and nothing above the counts
\* of its lifetime, for every number of threads inside and outside of the
\* measured code (ReportedIsThePeak).
THEOREM PeakReported == Spec => []ReportedIsThePeak
<1>1. IInv => ReportedIsThePeak
  BY DEF IInv
<1> QED
  BY <1>1, Invariance, PTL

\* No thread takes the peak back while a guard is open (PeakOnlyRises).
THEOREM PeakRises == Spec => PeakOnlyRises
<1>1. TypeOK /\ [Next]_vars => [guard = "open" => peakLiveBytes' >= peakLiveBytes]_vars
  <2> SUFFICES ASSUME TypeOK, Next, guard = "open" PROVE peakLiveBytes' >= peakLiveBytes
    OBVIOUS
  <2>1. CASE GuardStep
    BY <2>1 DEF GuardStep, LoadBaseline, StorePeak, StoreTracking, StopTracking, Report,
               Close, counters, TypeOK
  <2>2. ASSUME NEW t \in Threads, ThreadStep(t) PROVE peakLiveBytes' >= peakLiveBytes
    <3>1. peakLiveBytes' = peakLiveBytes \/ Raise(t)
      BY <2>2 DEF ThreadStep, Malloc, Free, Count, LoadTracking, LoadPeak, RecordFree, counters
    <3>2. CASE Raise(t)
      BY <3>2 DEF Raise, TypeOK
    <3> QED
      BY <3>1, <3>2 DEF TypeOK
  <2> QED
    BY <2>1, <2>2 DEF Next
<1> QED
  BY <1>1, TypeCorrect, PTL DEF Spec, PeakOnlyRises
-----------------------------------------------------------------------------
(* The count of the blocks.                                                *)

\* What a thread has allocated and not yet counted, or freed and not yet
\* subtracted.
uncounted == [t \in Threads |-> IF at[t] = "allocated" THEN size[t] ELSE 0]
unfreed   == [t \in Threads |-> IF at[t] = "freed" THEN size[t] ELSE 0]

\* The count lacks what is not yet counted, and has what is not yet subtracted.
LedgerInv == liveBytes + SetSum(uncounted, Threads)
             = SetSum(bytes, Sizes) + SetSum(unfreed, Threads)

\* Nothing is allocated, counted or pending at first.
LEMMA LedgerStarts == Init => LedgerInv
<1> SUFFICES ASSUME Init PROVE LedgerInv
  OBVIOUS
<1>1. uncounted = [t \in Threads |-> 0] /\ unfreed = [t \in Threads |-> 0]
  BY DEF Init, uncounted, unfreed
<1>2. bytes = [n \in Sizes |-> 0]
  <2>1. \A n \in Sizes : n * blocks[n] = 0
    BY SizesAssumption DEF Init
  <2> QED
    BY <2>1 DEF bytes
<1>3. SetSum(uncounted, Threads) = 0 /\ SetSum(unfreed, Threads) = 0
  BY <1>1, ThreadsAssumption, SetSumZero
<1>4. SetSum(bytes, Sizes) = 0
  BY <1>2, SizesAssumption, SetSumZero
<1> QED
  BY <1>3, <1>4 DEF Init, LedgerInv

\* What is pending changes by what the one thread that moves has pending.
LEMMA PendingChanges ==
    ASSUME TypeOK, TypeOK', NEW t \in Threads,
           \A u \in Threads \ {t} : at'[u] = at[u] /\ size'[u] = size[u]
    PROVE  /\ SetSum(uncounted, Threads) \in Nat /\ SetSum(unfreed, Threads) \in Nat
           /\ SetSum(uncounted', Threads) \in Nat /\ SetSum(unfreed', Threads) \in Nat
           /\ SetSum(uncounted', Threads) + uncounted[t]
              = SetSum(uncounted, Threads) + uncounted'[t]
           /\ SetSum(unfreed', Threads) + unfreed[t]
              = SetSum(unfreed, Threads) + unfreed'[t]
<1>1. \A n \in Sizes \cup {0} : n \in Nat
  BY SizesAssumption
<1>2. \A u \in Threads : size[u] \in Nat /\ size'[u] \in Nat
  BY <1>1 DEF TypeOK
<1>3. IsFiniteSet(Threads)
  BY ThreadsAssumption
<1>4. /\ SetSum(uncounted, Threads) \in Nat /\ SetSum(uncounted', Threads) \in Nat
      /\ SetSum(uncounted', Threads) + uncounted[t] = SetSum(uncounted, Threads) + uncounted'[t]
  <2>1. \A u \in Threads : uncounted[u] \in Nat
    BY <1>2 DEF uncounted
  <2>2. \A u \in Threads : uncounted'[u] \in Nat
    BY <1>2 DEF uncounted
  <2>3. \A u \in Threads : u # t => uncounted'[u] = uncounted[u]
    BY DEF uncounted
  <2>4. PICK w \in Nat : uncounted[t] = w
    BY <2>1
  <2>5. PICK v \in Nat : uncounted'[t] = v
    BY <2>2
  <2>6. DifferAt(Threads, uncounted, uncounted', t, w, v)
    BY <2>1, <2>2, <2>3, <2>4, <2>5 DEF DifferAt
  <2>7. /\ SetSum(uncounted, Threads) \in Nat /\ SetSum(uncounted', Threads) \in Nat
        /\ SetSum(uncounted', Threads) + w = SetSum(uncounted, Threads) + v
    BY <1>3, <2>6, SetSumChange
  <2> QED
    BY <2>4, <2>5, <2>7
<1>5. /\ SetSum(unfreed, Threads) \in Nat /\ SetSum(unfreed', Threads) \in Nat
      /\ SetSum(unfreed', Threads) + unfreed[t] = SetSum(unfreed, Threads) + unfreed'[t]
  <2>1. \A u \in Threads : unfreed[u] \in Nat
    BY <1>2 DEF unfreed
  <2>2. \A u \in Threads : unfreed'[u] \in Nat
    BY <1>2 DEF unfreed
  <2>3. \A u \in Threads : u # t => unfreed'[u] = unfreed[u]
    BY DEF unfreed
  <2>4. PICK w \in Nat : unfreed[t] = w
    BY <2>1
  <2>5. PICK v \in Nat : unfreed'[t] = v
    BY <2>2
  <2>6. DifferAt(Threads, unfreed, unfreed', t, w, v)
    BY <2>1, <2>2, <2>3, <2>4, <2>5 DEF DifferAt
  <2>7. /\ SetSum(unfreed, Threads) \in Nat /\ SetSum(unfreed', Threads) \in Nat
        /\ SetSum(unfreed', Threads) + w = SetSum(unfreed, Threads) + v
    BY <1>3, <2>6, SetSumChange
  <2> QED
    BY <2>4, <2>5, <2>7
<1> QED
  BY <1>4, <1>5

\* The bytes in blocks are a number.
LEMMA BytesAreNat == TypeOK => SetSum(bytes, Sizes) \in Nat
<1>1. ASSUME NEW m \in Nat, NEW k \in Nat PROVE m * k \in Nat
  OBVIOUS
<1>2. ASSUME TypeOK PROVE \A n \in Sizes : n \in Nat /\ blocks[n] \in Nat
  BY <1>2, SizesAssumption DEF TypeOK
<1>3. ASSUME TypeOK PROVE \A n \in Sizes : bytes[n] \in Nat
  BY <1>1, <1>2, <1>3 DEF bytes
<1> QED
  BY <1>3, SizesAssumption, SetSumIsNat

\* The bytes in blocks change with the blocks of one size.
LEMMA BytesChange ==
    ASSUME TypeOK, TypeOK', NEW n \in Sizes,
           \A m \in Sizes \ {n} : blocks'[m] = blocks[m]
    PROVE  /\ SetSum(bytes, Sizes) \in Nat /\ SetSum(bytes', Sizes) \in Nat
           /\ SetSum(bytes', Sizes) + n * blocks[n] = SetSum(bytes, Sizes) + n * blocks'[n]
<1>1. ASSUME NEW m \in Nat, NEW k \in Nat PROVE m * k \in Nat
  OBVIOUS
<1>2. \A m \in Sizes : m \in Nat /\ blocks[m] \in Nat /\ blocks'[m] \in Nat
  BY SizesAssumption DEF TypeOK
<1>3. \A m \in Sizes : bytes[m] \in Nat
  BY <1>1, <1>2 DEF bytes
<1>4. \A m \in Sizes : bytes'[m] \in Nat
  BY <1>1, <1>2 DEF bytes
<1>5. \A m \in Sizes : m # n => bytes'[m] = bytes[m]
  BY DEF bytes
<1>6. PICK w \in Nat : w = n * blocks[n]
  BY <1>1, <1>2
<1>7. PICK v \in Nat : v = n * blocks'[n]
  BY <1>1, <1>2
<1>8. bytes[n] = w /\ bytes'[n] = v
  BY <1>6, <1>7 DEF bytes
<1>9. IsFiniteSet(Sizes)
  BY SizesAssumption
<1>10. DifferAt(Sizes, bytes, bytes', n, w, v)
  BY <1>3, <1>4, <1>5, <1>8 DEF DifferAt
<1>11. /\ SetSum(bytes, Sizes) \in Nat /\ SetSum(bytes', Sizes) \in Nat
       /\ SetSum(bytes', Sizes) + w = SetSum(bytes, Sizes) + v
  BY <1>9, <1>10, SetSumChange
<1> QED
  BY <1>6, <1>7, <1>11

\* One more summand of a product's.
LEMMA OneMore ==
    ASSUME NEW n \in Nat, NEW k \in Nat, NEW m \in Nat, m = k + 1,
           NEW a \in Nat, NEW b \in Nat, b + n * k = a + n * m
    PROVE  b = a + n
<1>1. n * m = n * k + n
  OBVIOUS
<1>2. n * k \in Int
  OBVIOUS
<1> QED
  BY <1>1, <1>2

\* A step of a thread keeps the ledger: a block enters the heap with its bytes
\* pending, and they are pending until they are counted.
LEMMA LedgerStep ==
    ASSUME TypeOK, TypeOK', LedgerInv, NEW t \in Threads, ThreadStep(t)
    PROVE  LedgerInv'
<1>1. \A u \in Threads \ {t} : at'[u] = at[u] /\ size'[u] = size[u]
  BY DEF TypeOK, ThreadStep, Malloc, Free, Count, LoadTracking, LoadPeak, Raise, RecordFree,
         Return
<1>2. /\ SetSum(uncounted, Threads) \in Nat /\ SetSum(unfreed, Threads) \in Nat
      /\ SetSum(uncounted', Threads) \in Nat /\ SetSum(unfreed', Threads) \in Nat
      /\ SetSum(uncounted', Threads) + uncounted[t] = SetSum(uncounted, Threads) + uncounted'[t]
      /\ SetSum(unfreed', Threads) + unfreed[t] = SetSum(unfreed, Threads) + unfreed'[t]
  BY <1>1, PendingChanges
<1>8. \A n \in Sizes \cup {0} : n \in Nat
  BY SizesAssumption
<1>9. SetSum(bytes, Sizes) \in Nat /\ liveBytes \in Int
  BY BytesAreNat DEF TypeOK
<1>3. ASSUME NEW n \in Sizes, Malloc(t, n) PROVE LedgerInv'
  <2>1. /\ uncounted[t] = 0 /\ uncounted'[t] = n /\ unfreed[t] = 0 /\ unfreed'[t] = 0
        /\ liveBytes' = liveBytes
    BY <1>3 DEF Malloc, Runs, TypeOK, uncounted, unfreed, counters
  <2>2. /\ \A m \in Sizes \ {n} : blocks'[m] = blocks[m]
        /\ blocks'[n] = blocks[n] + 1 /\ blocks[n] \in Nat
    BY <1>3 DEF Malloc, TypeOK
  <2>3. /\ SetSum(bytes, Sizes) \in Nat /\ SetSum(bytes', Sizes) \in Nat
        /\ SetSum(bytes', Sizes) + n * blocks[n] = SetSum(bytes, Sizes) + n * blocks'[n]
    BY <2>2, BytesChange
  <2>4. n \in Nat
    BY SizesAssumption
  <2>5. SetSum(bytes', Sizes) = SetSum(bytes, Sizes) + n
    BY <2>2, <2>3, <2>4, OneMore
  <2> QED
    BY <1>2, <1>9, <2>1, <2>3, <2>4, <2>5 DEF LedgerInv
<1>4. ASSUME NEW n \in Sizes, Free(t, n) PROVE LedgerInv'
  <2>1. /\ uncounted[t] = 0 /\ uncounted'[t] = 0 /\ unfreed[t] = 0 /\ unfreed'[t] = n
        /\ liveBytes' = liveBytes
    BY <1>4 DEF Free, Runs, TypeOK, uncounted, unfreed, counters
  <2>2. /\ \A m \in Sizes \ {n} : blocks'[m] = blocks[m]
        /\ blocks[n] = blocks'[n] + 1 /\ blocks'[n] \in Nat
    BY <1>4 DEF Free, TypeOK
  <2>3. /\ SetSum(bytes, Sizes) \in Nat /\ SetSum(bytes', Sizes) \in Nat
        /\ SetSum(bytes', Sizes) + n * blocks[n] = SetSum(bytes, Sizes) + n * blocks'[n]
    BY <2>2, BytesChange
  <2>4. n \in Nat
    BY SizesAssumption
  <2>5. SetSum(bytes, Sizes) = SetSum(bytes', Sizes) + n
    BY <2>2, <2>3, <2>4, OneMore
  <2> QED
    BY <1>2, <1>9, <2>1, <2>3, <2>4, <2>5 DEF LedgerInv
<1>5. CASE Count(t)
  <2>1. /\ uncounted[t] = size[t] /\ uncounted'[t] = 0 /\ unfreed[t] = 0 /\ unfreed'[t] = 0
        /\ liveBytes' = liveBytes + size[t] /\ size[t] \in Nat
    <3>1. size[t] \in Nat
      BY <1>8 DEF TypeOK
    <3>2. uncounted[t] = size[t] /\ uncounted'[t] = 0
      BY <1>5 DEF Count, TypeOK, uncounted
    <3>3. unfreed[t] = 0 /\ unfreed'[t] = 0
      BY <1>5 DEF Count, TypeOK, unfreed
    <3>4. liveBytes' = liveBytes + size[t]
      BY <1>5 DEF Count
    <3> QED
      BY <3>1, <3>2, <3>3, <3>4
  <2>2. bytes' = bytes
    BY <1>5 DEF Count, bytes
  <2> QED
    BY <1>2, <1>9, <2>1, <2>2 DEF LedgerInv
<1>6. CASE RecordFree(t)
  <2>1. /\ uncounted[t] = 0 /\ uncounted'[t] = 0 /\ unfreed[t] = size[t] /\ unfreed'[t] = 0
        /\ liveBytes' = liveBytes - size[t] /\ size[t] \in Nat
    <3>1. size[t] \in Nat
      BY <1>8 DEF TypeOK
    <3>2. uncounted[t] = 0 /\ uncounted'[t] = 0
      BY <1>6 DEF RecordFree, Return, TypeOK, uncounted
    <3>3. unfreed[t] = size[t] /\ unfreed'[t] = 0
      BY <1>6 DEF RecordFree, Return, TypeOK, unfreed
    <3>4. liveBytes' = liveBytes - size[t]
      BY <1>6 DEF RecordFree
    <3> QED
      BY <3>1, <3>2, <3>3, <3>4
  <2>2. bytes' = bytes
    <3>1. blocks' = blocks
      BY <1>6 DEF RecordFree
    <3> QED
      BY <3>1 DEF bytes
  <2>3. /\ SetSum(uncounted', Threads) = SetSum(uncounted, Threads)
        /\ SetSum(unfreed', Threads) + size[t] = SetSum(unfreed, Threads)
    BY <1>2, <2>1
  <2> QED
    BY <1>2, <1>9, <2>1, <2>2, <2>3 DEF LedgerInv
<1>7. CASE LoadTracking(t) \/ LoadPeak(t) \/ Raise(t)
  <2>1. /\ uncounted[t] = 0 /\ uncounted'[t] = 0 /\ unfreed[t] = 0 /\ unfreed'[t] = 0
        /\ liveBytes' = liveBytes
    BY <1>7 DEF LoadTracking, LoadPeak, Raise, Return, TypeOK, uncounted, unfreed, counters
  <2>2. bytes' = bytes
    BY <1>7 DEF LoadTracking, LoadPeak, Raise, bytes
  <2> QED
    BY <1>2, <1>9, <2>1, <2>2 DEF LedgerInv
<1> QED
  BY <1>3, <1>4, <1>5, <1>6, <1>7 DEF ThreadStep

\* The count is of the blocks there are, whenever no thread is between an
\* allocation, or a free, and its record; for every number of threads and of
\* blocks, and whatever the guards do (CountIsExactWhenQuiet).
THEOREM CountIsExact == Spec => []CountIsExactWhenQuiet
<1>1. TypeOK /\ TypeOK' /\ LedgerInv /\ [Next]_vars => LedgerInv'
  <2> SUFFICES ASSUME TypeOK, TypeOK', LedgerInv, [Next]_vars PROVE LedgerInv'
    OBVIOUS
  <2>1. ASSUME liveBytes' = liveBytes, bytes' = bytes, at' = at, size' = size PROVE LedgerInv'
    BY <2>1 DEF LedgerInv, uncounted, unfreed
  <2>2. CASE UNCHANGED vars
    BY <2>1, <2>2 DEF vars, counters, thread, bytes
  <2>3. CASE GuardStep
    BY <2>1, <2>3 DEF GuardStep, LoadBaseline, StorePeak, StoreTracking, StopTracking, Report,
                      Close, counters, thread, bytes
  <2>4. CASE \E t \in Threads : ThreadStep(t)
    BY <2>4, LedgerStep
  <2> QED
    BY <2>2, <2>3, <2>4 DEF Next
<1>2. TypeOK /\ LedgerInv => CountIsExactWhenQuiet
  <2> SUFFICES ASSUME TypeOK, LedgerInv,
                      \A t \in Threads : at[t] \notin {"allocated", "freed"}
               PROVE  liveBytes = MapThenSumSet(LAMBDA n : bytes[n], Sizes)
    BY DEF CountIsExactWhenQuiet
  <2>1. uncounted = [t \in Threads |-> 0] /\ unfreed = [t \in Threads |-> 0]
    BY DEF uncounted, unfreed
  <2>2. SetSum(uncounted, Threads) = 0 /\ SetSum(unfreed, Threads) = 0
    BY <2>1, ThreadsAssumption, SetSumZero
  <2>3. SetSum(bytes, Sizes) \in Nat
    BY BytesAreNat
  <2>4. SetSum(bytes, Sizes) = MapThenSumSet(LAMBDA n : bytes[n], Sizes)
    BY SetSumMap
  <2> QED
    BY <2>2, <2>3, <2>4 DEF LedgerInv, TypeOK
<1> QED
  BY <1>1, <1>2, LedgerStarts, TypeCorrect, PTL DEF Spec
=============================================================================

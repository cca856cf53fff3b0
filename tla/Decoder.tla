------------------------------ MODULE Decoder ------------------------------
(***************************************************************************)
(* What a decoder promises its caller, whatever its scheme: the contract   *)
(* of encodings/Encoder.hpp.  One caller asks for an ordered list of row   *)
(* ranges of an encoded buffer of N rows; until the decoder answers it may *)
(* write the slots it was given, in any order and with anything, and no    *)
(* other slot; when it answers "ok" the slots hold the selected rows       *)
(* contiguously and in range order; when it throws they hold anything.     *)
(*                                                                         *)
(* A slot holds a row number, or Junk for every other content.             *)
(***************************************************************************)
EXTENDS Naturals, Sequences, SequencesExt

CONSTANTS N,        \* rows of the encoded buffer
          DstSize,  \* slots of the caller's memory
          Requests, \* the calls made: records [op, ranges, n]
          Junk

Rows  == 0..(N - 1)
Slots == 0..(DstSize - 1)

VARIABLES busy,     \* a call is in progress
          call,     \* the request it answers
          dst,      \* the caller's memory
          outcome   \* how the last call ended: "none", "ok", "threw"

dvars == <<busy, call, dst, outcome>>

\* A range read stops at the last row; the ranges of a gather are not clamped.
Bound(q, r) == IF q.op # "gather" /\ r.end > N THEN N ELSE r.end

RangeRows(q, r) == IF Bound(q, r) <= r.begin THEN <<>>
                   ELSE [i \in 1..(Bound(q, r) - r.begin) |-> r.begin + i - 1]

\* The rows a request selects, in the order they are to be delivered.
Selected(q) == FlattenSeq([i \in 1..Len(q.ranges) |-> RangeRows(q, q.ranges[i])])

Window(q) == 0..(Len(Selected(q)) - 1)

NoCall == [op |-> "none", ranges |-> <<>>, n |-> 0]

Init == /\ busy = FALSE
        /\ call = NoCall
        /\ dst \in [Slots -> {Junk}]
        /\ outcome = "none"

Call == /\ ~busy
        /\ call' \in Requests
        /\ busy' = TRUE
        /\ dst' = [x \in Slots |-> Junk]
        /\ outcome' = "none"

\* Any number of slots of the window change, to anything.
Write == /\ busy
         /\ \A x \in Slots \ Window(call) : dst'[x] = dst[x]
         /\ UNCHANGED <<busy, call, outcome>>

Delivered(q, mem) == \A x \in Window(q) : mem[x] = Selected(q)[x + 1]

Return == /\ busy
          /\ Delivered(call, dst)
          /\ busy' = FALSE
          /\ outcome' = "ok"
          /\ UNCHANGED <<call, dst>>

Throw == /\ busy
         /\ busy' = FALSE
         /\ outcome' = "threw"
         /\ UNCHANGED <<call, dst>>

Next == Call \/ Write \/ Return \/ Throw

Spec == Init /\ [][Next]_dvars /\ WF_dvars(Return \/ Throw)
=============================================================================

----------------------- MODULE MCSubIntSplitDecode -----------------------
(***************************************************************************)
(* Instances of SubIntSplitDecode for TLC.  The calls cover every entry    *)
(* point: the whole buffer, a range inside it, one clamped at its end, one *)
(* past it, an inverted one, a row, a row past the end, and gathers with    *)
(* gaps, with an empty range and with a wrong expected count.              *)
(***************************************************************************)
EXTENDS SubIntSplitDecode, TLC

R(b, e) == [begin |-> b, end |-> e]

Calls ==
    { [op |-> "all",    ranges |-> <<R(0, N)>>,                      n |-> N],
      [op |-> "into",   ranges |-> <<R(1, 4)>>,                      n |-> 3],
      [op |-> "range",  ranges |-> <<R(3, N + 4)>>,                  n |-> N - 3],
      [op |-> "range",  ranges |-> <<R(N + 1, N + 2)>>,              n |-> 0],
      [op |-> "into",   ranges |-> <<R(3, 1)>>,                      n |-> 0],
      [op |-> "at",     ranges |-> <<R(2, 3)>>,                      n |-> 1],
      [op |-> "at",     ranges |-> <<R(N, N + 1)>>,                  n |-> 1],
      [op |-> "gather", ranges |-> <<R(0, 1), R(1, 1), R(2, N)>>,    n |-> N - 1],
      [op |-> "gather", ranges |-> <<R(0, 2), R(3, 4)>>,             n |-> 4] }

\* Every call on a codec with parallel decoding, and on one without.
MCRequests ==
    {[parallel |-> p] @@ q : p \in BOOLEAN, q \in Calls}

MCNoSections   == {}
MCLastSection  == {Splits - 1}
=============================================================================

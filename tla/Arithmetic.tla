----------------------------- MODULE Arithmetic -----------------------------
(***************************************************************************)
(* Powers and sums as recursive functions, which TLC evaluates and the     *)
(* proofs can unfold.                                                      *)
(***************************************************************************)
EXTENDS Integers, Sequences

\* 1 << n
PowerOfTwo[n \in Nat] == IF n = 0 THEN 1 ELSE 2 * PowerOfTwo[n - 1]

\* The sum of the first n elements.
SumTo(seq, n) == LET sum[i \in 0..n] == IF i = 0 THEN 0 ELSE sum[i - 1] + seq[i]
                 IN  sum[n]

Total(seq) == SumTo(seq, Len(seq))
=============================================================================

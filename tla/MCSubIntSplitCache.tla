------------------------- MODULE MCSubIntSplitCache -------------------------
(***************************************************************************)
(* Instances of SubIntSplitCache for TLC.  Contents "a", "b" and "c"       *)
(* differ in everything; "a2" has other values than "a" in the same sizes; *)
(* "e" is empty, and "a3" has another row count, in as many bytes as "a".  *)
(* Section 0 is a dictionary (a view), section 1 FOR (a copy).             *)
(***************************************************************************)
EXTENDS SubIntSplitCache, TLC

MCRowCount ==
    [d \in Datasets |-> CASE d = "e" -> 0 [] d \in {"b", "a3"} -> 3 [] d = "c" -> 4
                         [] OTHER -> 2]

MCSize ==
    [d \in Datasets |-> CASE d = "b" -> 20 [] d = "c" -> 30 [] OTHER -> 10]

MCPayload ==
    [d \in Datasets |-> [s \in Sections |->
        [size   |-> IF d = "b" THEN 2 ELSE 1,
         layout |-> CASE d = "b" -> 2 [] d = "c" -> 3 [] d = "a3" -> 4 [] OTHER -> 1,
         values |-> CASE d = "b" -> 2 [] d = "c" -> 3 [] d = "a3" -> 4
                      [] d = "a2" -> 5 [] OTHER -> 1]]]

\* A careful caller; one with buffers that look alike, empty ones, calls past the
\* end and sections that throw.
MCSetups ==
    {[datasets |-> {"a", "b", "c"}, parallel |-> FALSE, calls |-> {"all", "rows"}],
     [datasets |-> {"a", "a2", "a3", "e"}, parallel |-> TRUE,
      calls |-> {"all", "rows", "past", "throws"}]}

\* Two buffers of one size and row count.
MCAlike == {[datasets |-> {"a", "a2"}, parallel |-> FALSE, calls |-> {"all", "rows"}]}

\* Addresses are only compared.
MCAddresses == Permutations(OuterAddrs) \cup Permutations(ViewAddrs)

MCKind == [s \in Sections |-> IF s = 0 THEN "view" ELSE "copy"]
=============================================================================

------------------------ MODULE MCSubIntSplitEncode ------------------------
(***************************************************************************)
(* Instances of SubIntSplitEncode for TLC: every split of a value's bits   *)
(* in either order, with and without parallelism, and every sequence of at *)
(* most MaxRows values.                                                    *)
(***************************************************************************)
EXTENDS SubIntSplitEncode

CONSTANT MaxRows

MCConfigs == { c \in [bits : UNION {[1..n -> 1..Width] : n \in 1..Width},
                       order : Orders, parallel : BOOLEAN] : Total(c.bits) = Width }

MCInputs == UNION {[1..n -> Values] : n \in 1..MaxRows}
=============================================================================

------------------------------ MODULE MCCodecs ------------------------------
(***************************************************************************)
(* Instances of Codecs: the columns worth trying differ from codec to      *)
(* codec.                                                                  *)
(***************************************************************************)
EXTENDS OtherCodecs

\* Three values where only equality or order matters; steps that wrap around.
MCValues ==
    [k \in AllKinds |->
        CASE k \in {"Delta", "MainlyConstant"} \cup RunLengthKinds -> {0, 1, 3}
          [] k = "SubInt"     -> {0, 1, 4, 6}
          [] k = "AdaptiveFOR" -> {-8, -1, 6}
          [] k = "FramedBitPrefix" -> {0, 1, 3, 7, 12}
          [] k \in {"VarInt", "DeltaVarInt", "CascadingFOR"} -> {0, 1, 6}
          [] k = "BitShuffle" -> {0, 1, 6}
          [] k = "GrayCode"   -> {0, 1, 5, 6}
          [] k \in {"Huffman", "FSE"} -> {0, 1, 2, 3}
          [] k = "BlockFORFPE" -> {0, 1, 5}
          [] k \in Ordinal \cup PartitionKinds \cup {"BitParentheses", "BlockFSE"} -> {0, 1, 2}
          [] OTHER            -> {0, 1, 3, 6}]

\* Differences of seven bits, which two bytes of four bits do not always hold.
WideValues == [k \in AllKinds |-> {0, 90, 127}]

MCMaxRows ==
    [k \in AllKinds |->
        CASE k \in {"Delta", "MainlyConstant", "Huffman"} \cup RunLengthKinds -> 5
          [] k = "FSE" -> 6
          [] k \in {"Sort", "GrayCode", "SubInt", "BitShuffle", "FramedBitPrefix"} -> 3
          [] OTHER -> 4]
=============================================================================

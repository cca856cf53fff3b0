----------------------------- MODULE MCSelector -----------------------------
(***************************************************************************)
(* Instances of Selector for TLC: every table of costs taken from a small  *)
(* set, searched in every way; every pattern of pruning; merges of         *)
(* segments that a reorderer made cheap, into pruned ones; and encodings   *)
(* without a section codec for segments of some widths.                    *)
(***************************************************************************)
EXTENDS Selector

Orders       == {"none", "LSB_TO_MSB", "MSB_TO_LSB"}
OfWidths(ws) == {s \in Segs : WidthOf(s) \in ws}
NoSavings    == [s \in Segs |-> 0]
\* A reorderer saves one on every segment of one width.
SaveOne(w)   == [s \in Segs |-> IF WidthOf(s) = w THEN 1 ELSE 0]

Searches == [opts     |-> [minWidth : {1, 2}, penalty : {1}, forced : {0, 1, 2, 4},
                           exhaustive : BOOLEAN, prune : {FALSE}, merge : {FALSE},
                           order : Orders],
             plains   |-> [Segs -> {1, 2, Inf}],
             saveds   |-> {NoSavings},
             noisies  |-> {{}},
             spreads  |-> {{}},
             uncaseds |-> {{}},
             tieds    |-> {{}}]

Prunes   == [opts     |-> [minWidth : {1}, penalty : {0, 1}, forced : {0},
                           exhaustive : BOOLEAN, prune : {TRUE}, merge : BOOLEAN,
                           order : {"none"}],
             plains   |-> [Segs -> {1, 3}],
             saveds   |-> {NoSavings},
             noisies  |-> SUBSET (Segs \ {Full}),
             spreads  |-> {{}, {Full}},
             uncaseds |-> {{}},
             tieds    |-> {{}}]

\* What pays is a merge into a segment that was pruned.
Merges   == [opts     |-> [minWidth : {1}, penalty : {0, 1}, forced : {0},
                           exhaustive : {FALSE}, prune : {TRUE}, merge : {TRUE},
                           order : {"none", "MSB_TO_LSB"}],
             plains   |-> [Segs -> {1, 2, 4}],
             saveds   |-> {SaveOne(w) : w \in 0..2},
             noisies  |-> SUBSET OfWidths({2}),
             spreads  |-> {{Full}},
             uncaseds |-> {{}},
             tieds    |-> {{}}]

Refusals == [opts     |-> [minWidth : {1}, penalty : {1}, forced : {0},
                           exhaustive : {FALSE}, prune : {TRUE}, merge : BOOLEAN,
                           order : Orders],
             plains   |-> [Segs -> {1, 2}],
             saveds   |-> {NoSavings, SaveOne(1)},
             noisies  |-> {{}, OfWidths({2})},
             spreads  |-> {{Full}},
             uncaseds |-> {OfWidths(ws) : ws \in SUBSET (1..Width)},
             tieds    |-> {{}, OfWidths({2})}]

MCFamilies == {Searches, Prunes, Merges, Refusals}
=============================================================================

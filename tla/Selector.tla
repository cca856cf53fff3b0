------------------------------ MODULE Selector ------------------------------
(***************************************************************************)
(* IDSubStreamEncodingSelector: how the bits of a value are cut into       *)
(* segments with a codec each, and what SubIntSplitAutoEncoder configures  *)
(* from that.                                                              *)
(*                                                                         *)
(* The selector tabulates the cheapest codec of every segment, skipping    *)
(* the segments a heuristic prunes, searches the table for the cheapest    *)
(* cut into segments (dynamic programme or exhaustive search, with or      *)
(* without a forced number of segments), does both again without pruning   *)
(* when pruning left nothing or only the whole width, and may then merge   *)
(* neighbours.  The encoder maps the segments back to the value's bits     *)
(* when they were selected on mirrored samples, and builds the             *)
(* configuration, unless it has no section codec for what was chosen.      *)
(*                                                                         *)
(* Costs are naturals; what the models and metrics say of a sample is a    *)
(* table chosen at the start.  Of the codec chosen for a segment the model *)
(* keeps whether fromSegments can build it: the encoding has a case in its *)
(* switch, or comes with a reorderer, which is built before the switch.    *)
(***************************************************************************)
EXTENDS Arithmetic, FiniteSets, FiniteSetsExt, Functions

CONSTANTS
    Width,     \* bits of a sample (kBits)
    Inf,       \* the infinite cost, above every cost of a plan
    Is64,      \* the samples are 64-bit: a full range has no spread test
    Families   \* sets of configurations, [opts], with sets of samples:
               \* [plains, saveds, noisies, spreads, uncaseds, tieds]

Segs == {s \in (0..(Width - 1)) \X (0..(Width - 1)) : s[1] <= s[2]}
Full == <<0, Width - 1>>

WidthOf(s) == s[2] - s[1] + 1

ASSUME SizeAssumption == Width \in Nat \ {0} /\ Inf \in Nat /\ Is64 \in BOOLEAN
ASSUME FamiliesAssumption ==
    \A f \in Families :
        /\ f.plains \subseteq [Segs -> 0..Inf] /\ f.saveds \subseteq [Segs -> Nat]
        /\ f.noisies \subseteq SUBSET Segs    /\ f.spreads \subseteq SUBSET Segs
        /\ f.uncaseds \subseteq SUBSET Segs   /\ f.tieds \subseteq SUBSET Segs
        /\ \A o \in f.opts :
              /\ o.minWidth \in Nat \ {0} /\ o.penalty \in Nat /\ o.forced \in Nat
              /\ {o.exhaustive, o.prune, o.merge} \subseteq BOOLEAN
              /\ o.order \in {"none", "LSB_TO_MSB", "MSB_TO_LSB"}

VARIABLES
    pc,        \* where select is, or how ensureEncoder ended
    opt,       \* config_, and the encoder's orderHint_ as its order
    plain,     \* cost of every segment with the cheapest codec by itself
    saved,     \* what the best reorderer saves on it
    noisy,     \* the segments of high entropy
    spread,    \* the segments whose values span their whole range
    uncased,   \* those whose cheapest codec by itself is none that
               \* fromSegments has a case for
    tied,      \* those on which a reorderer that saves nothing comes first
    best,      \* bestCost: per segment
    plan,      \* result: [segs, total]; a segment is [seg, cost, built]
    at,        \* the merge phase's iSeg
    merging,   \* its newSegments
    merged,    \* its merged_any
    config     \* the configuration of the encoder: [order, bits]

inputs == <<opt, plain, saved, noisy, spread, uncased, tied>>
phase  == <<at, merging, merged>>
vars   == <<pc, inputs, best, plan, phase, config>>

NoPlan   == [segs |-> <<>>, total |-> Inf]
NoConfig == [order |-> "none", bits |-> <<>>]

Init == /\ pc = "fill"
        /\ \E f \in Families :
               /\ opt \in f.opts
               /\ plain \in f.plains  /\ saved \in f.saveds
               /\ noisy \in f.noisies /\ spread \in f.spreads
               /\ uncased \in f.uncaseds /\ tied \in f.tieds
        /\ best = [s \in Segs |-> Inf]
        /\ plan = NoPlan
        /\ at = 1
        /\ merging = <<>>
        /\ merged = FALSE
        /\ config = NoConfig

-----------------------------------------------------------------------------
(* The table.                                                              *)

Pruned(s) == \/ s # Full /\ s \in noisy
             \/ (s # Full \/ ~Is64) /\ s \in spread

Cheapest(s) == IF plain[s] >= Inf \/ saved[s] > plain[s] THEN plain[s]
               ELSE plain[s] - saved[s]

\* Can fromSegments build what is chosen for a segment: alone, or in the table?
HasCase(s)   == s \notin uncased
Reordered(s) == Cheapest(s) < plain[s] \/ s \in tied
Buildable(s) == Reordered(s) \/ HasCase(s)

Table(prune) == [s \in Segs |-> IF prune /\ Pruned(s) THEN Inf ELSE Cheapest(s)]

Fill == /\ pc = "fill"
        /\ best' = Table(opt.prune)
        /\ pc' = "search"
        /\ UNCHANGED <<inputs, plan, phase, config>>

-----------------------------------------------------------------------------
(* The search.                                                             *)

\* The number of segments asked for, or 0: at most as many as fit.
Forced == IF opt.forced = 0 THEN 0
          ELSE Min({opt.forced, Width \div opt.minWidth})

Usable(table, l, r) == r - l + 1 >= opt.minWidth /\ table[<<l, r>>] < Inf

\* The first j of a range that costs least, and what it costs.
Winner(cost) == LET m == Min(Range(cost)) IN
                [total |-> m, from |-> IF m >= Inf THEN -1
                                       ELSE Min({j \in DOMAIN cost : cost[j] = m})]

NoPenalty == 0                                  \* mutant of Penalty
Penalty   == opt.penalty

\* runDynamicProgramming: dp[i] is the best cut of the lowest i bits.
DP(table) ==
    LET dp[i \in 0..Width] ==
          IF i = 0 THEN [total |-> 0, from |-> -1]
          ELSE Winner([j \in 0..(i - 1) |->
                  IF Usable(table, j, i - 1) /\ dp[j].total < Inf
                  THEN dp[j].total + table[<<j, i - 1>>] + (IF j = 0 THEN 0 ELSE Penalty)
                  ELSE Inf])
    IN  dp

\* runDynamicProgrammingFixed: dp[<<i, k>>] uses exactly k segments.
DPFixed(table) ==
    LET dp[x \in (0..Width) \X (0..Forced)] ==
          LET i == x[1] k == x[2] IN
          IF i = 0 /\ k = 0 THEN [total |-> 0, from |-> -1]
          ELSE IF i = 0 \/ k = 0 THEN [total |-> Inf, from |-> -1]
          ELSE Winner([j \in 0..(i - 1) |->
                  IF Usable(table, j, i - 1) /\ dp[<<j, k - 1>>].total < Inf
                  THEN dp[<<j, k - 1>>].total + table[<<j, i - 1>>]
                         + (IF k > 1 THEN Penalty ELSE 0)
                  ELSE Inf])
    IN  dp

OnePast(table, l, r) ==                         \* mutant of Chosen
    [seg |-> <<l, r + 1>>, cost |-> table[<<l, r>>], built |-> TRUE]
Chosen(table, l, r) ==
    [seg |-> <<l, r>>, cost |-> table[<<l, r>>], built |-> Buildable(<<l, r>>)]

\* Backtracking from the highest bit, which ends where nothing was chosen.
DPPlan(table) ==
    LET dp == DP(table)
        back[i \in 0..Width] ==
            IF i = 0 \/ dp[i].from < 0 THEN <<>>
            ELSE Append(back[dp[i].from], Chosen(table, dp[i].from, i - 1))
    IN  [total |-> dp[Width].total,
         segs  |-> IF dp[Width].total >= Inf THEN <<>> ELSE back[Width]]

DPFixedPlan(table) ==
    LET dp == DPFixed(table)
        back[x \in (0..Width) \X (0..Forced)] ==
            IF x[1] = 0 \/ x[2] = 0 \/ dp[x].from < 0 THEN <<>>
            ELSE LET j == dp[x].from IN
                 Append(back[<<j, x[2] - 1>>], Chosen(table, j, x[1] - 1))
        top == dp[<<Width, Forced>>].total
    IN  [total |-> top,
         segs  |-> IF top >= Inf THEN <<>> ELSE back[<<Width, Forced>>]]

\* runExhaustiveSearch and runExhaustiveSearchFixed: the best cut of the bits
\* from l on, with k segments when a number is forced.
ExhaustivePlan(table) ==
    LET Left(k) == IF Forced = 0 THEN 0 ELSE k - 1
        dfs[x \in (0..Width) \X (0..Forced)] ==
            LET l == x[1] k == x[2] IN
            IF l = Width THEN IF k = 0 THEN [total |-> 0, segs |-> <<>>] ELSE NoPlan
            ELSE IF Forced > 0 /\ k = 0 THEN NoPlan
            ELSE LET cost == [r \in l..(Width - 1) |->
                                IF Usable(table, l, r) /\ dfs[<<r + 1, Left(k)>>].total < Inf
                                THEN table[<<l, r>>] + dfs[<<r + 1, Left(k)>>].total
                                       + (IF r < Width - 1 THEN Penalty ELSE 0)
                                ELSE Inf]
                     w == Winner(cost)
                 IN  IF w.total >= Inf THEN NoPlan
                     ELSE [total |-> w.total,
                           segs  |-> <<Chosen(table, l, w.from)>>
                                         \o dfs[<<w.from + 1, Left(k)>>].segs]
    IN  dfs[<<0, Forced>>]

Found(table) == IF opt.exhaustive THEN ExhaustivePlan(table)
                ELSE IF Forced > 0 THEN DPFixedPlan(table) ELSE DPPlan(table)

Search == /\ pc = "search"
          /\ plan' = Found(best)
          /\ pc' = "check"
          /\ UNCHANGED <<inputs, best, phase, config>>

Degenerate == Len(plan.segs) = 1 /\ plan.segs[1].seg = Full

NothingFound == plan.total >= Inf               \* mutant of Suspect
Suspect      == plan.total >= Inf \/ Degenerate

WantsMerge(p) == opt.merge /\ opt.forced = 0 /\ Len(p.segs) > 1

\* Pruning left no plan, or only the whole width: table and search again
\* without it.  Then the merge phase, if it is asked for.
Check == /\ pc = "check"
         /\ IF opt.prune /\ Suspect
            THEN best' = Table(FALSE) /\ plan' = Found(Table(FALSE))
            ELSE UNCHANGED <<best, plan>>
         /\ pc' = IF WantsMerge(plan') THEN "merge" ELSE "selected"
         /\ UNCHANGED <<inputs, phase, config>>

-----------------------------------------------------------------------------
(* The merge phase.                                                        *)

\* The merged segment is costed without the reorderers, and has none.
Union2(a, b) == LET s == <<a.seg[1], b.seg[2]>> IN
                [seg |-> s, cost |-> plain[s], built |-> HasCase(s)]

MergesAnyway(a, b) ==                           \* mutant of PaysOff
    Union2(a, b).cost < Inf /\ Union2(a, b).cost < a.cost + b.cost + Penalty + 2
PaysOff(a, b) == Union2(a, b).cost < a.cost + b.cost + Penalty

MergeTwo ==
    /\ pc = "merge"
    /\ at < Len(plan.segs)
    /\ PaysOff(plan.segs[at], plan.segs[at + 1])
    /\ merging' = Append(merging, Union2(plan.segs[at], plan.segs[at + 1]))
    /\ at' = at + 2
    /\ merged' = TRUE
    /\ UNCHANGED <<pc, inputs, best, plan, config>>

MergeNone ==
    /\ pc = "merge"
    /\ at <= Len(plan.segs)
    /\ at < Len(plan.segs) => ~PaysOff(plan.segs[at], plan.segs[at + 1])
    /\ merging' = Append(merging, plan.segs[at])
    /\ at' = at + 1
    /\ UNCHANGED <<pc, inputs, best, plan, merged, config>>

CostsOf(segs) == [i \in DOMAIN segs |-> segs[i].cost]
TotalOf(segs) == Total(CostsOf(segs)) + Penalty * (Len(segs) - 1)

KeepsGoing == TRUE                              \* mutant of GoesOn
GoesOn     == merged

\* The end of a pass; after one without a merge the total is added up again.
MergePassDone ==
    /\ pc = "merge"
    /\ at > Len(plan.segs)
    /\ plan' = [segs |-> merging, total |-> IF GoesOn THEN plan.total ELSE TotalOf(merging)]
    /\ pc' = IF GoesOn THEN pc ELSE "selected"
    /\ at' = 1
    /\ merging' = <<>>
    /\ merged' = FALSE
    /\ UNCHANGED <<inputs, best, config>>

-----------------------------------------------------------------------------
(* SubIntSplitAutoEncoder::ensureEncoder.                                  *)

\* Mirrored segments, selected from the highest bit, in the value's own bits.
Mirrored == opt.order = "MSB_TO_LSB"

Remapped(seg) == IF Mirrored THEN <<Width - 1 - seg[2], Width - 1 - seg[1]>> ELSE seg

Segments == [i \in DOMAIN plan.segs |-> Remapped(plan.segs[i].seg)]

\* Without a hint: falling segments are the only ones that start at the top.
InferredOrder == IF \A i \in 2..Len(Segments) : Segments[i][1] >= Segments[i - 1][1]
                 THEN "LSB_TO_MSB" ELSE "MSB_TO_LSB"
Order == IF opt.order = "none" THEN InferredOrder ELSE opt.order

LowFirst(a, b)  == a[1] < b[1]                  \* mutant of InOrder
InOrder(a, b)   == IF Order = "MSB_TO_LSB" THEN a[1] > b[1] ELSE a[1] < b[1]

\* std::sort by InOrder.
Sorted(segs) ==
    LET order == CHOOSE p \in [DOMAIN segs -> DOMAIN segs] :
                    /\ \A i \in DOMAIN segs : \E j \in DOMAIN segs : p[j] = i
                    /\ \A i, j \in DOMAIN segs :
                           i < j => ~InOrder(segs[p[j]], segs[p[i]])
    IN  [i \in DOMAIN segs |-> segs[order[i]]]

\* Neighbours meet, in the order of the sections, and the ends are covered.
Contiguous(segs) ==
    IF Order = "MSB_TO_LSB"
    THEN /\ segs[1][2] = Width - 1 /\ segs[Len(segs)][1] = 0
         /\ \A i \in 2..Len(segs) : segs[i][2] = segs[i - 1][1] - 1
    ELSE /\ segs[1][1] = 0 /\ segs[Len(segs)][2] = Width - 1
         /\ \A i \in 2..Len(segs) : segs[i][1] = segs[i - 1][2] + 1

\* fromSegments, which refuses gaps and segments it has no section codec for.
Configure ==
    /\ pc = "selected"
    /\ LET sorted   == Sorted(Segments)
           accepted == /\ plan.segs # <<>> /\ Contiguous(sorted)
                       /\ \A i \in DOMAIN plan.segs : plan.segs[i].built
       IN  IF accepted
           THEN /\ config' = [order |-> Order,
                              bits  |-> [i \in DOMAIN sorted |-> WidthOf(sorted[i])]]
                /\ pc' = "configured"
           ELSE pc' = "threw" /\ UNCHANGED config
    /\ UNCHANGED <<inputs, best, plan, phase>>

-----------------------------------------------------------------------------
Merging == MergeTwo \/ MergeNone \/ MergePassDone

Next == Fill \/ Search \/ Check \/ Merging \/ Configure

\* One thread runs select to its end; only its loop could keep it from one.
Spec == Init /\ [][Next]_vars /\ WF_vars(Merging \/ Configure)

-----------------------------------------------------------------------------
(* What a best plan is: the cheapest of all the ways to cut.               *)

\* Where to cut, as the set of the segments' ends.
Cuts == {c \in SUBSET (0..(Width - 1)) : Width - 1 \in c}

SegmentsOf(c) == {s \in Segs : /\ s[2] \in c
                               /\ s[1] = 0 \/ s[1] - 1 \in c
                               /\ \A b \in s[1]..(s[2] - 1) : b \notin c}

Allowed(c, table) == /\ \A s \in SegmentsOf(c) : WidthOf(s) >= opt.minWidth /\ table[s] < Inf
                     /\ Forced > 0 => Cardinality(c) = Forced

CostOf(c, table) == MapThenSumSet(LAMBDA s : table[s], SegmentsOf(c))
                        + opt.penalty * (Cardinality(c) - 1)

LeastCost(table) == Min({CostOf(c, table) : c \in {x \in Cuts : Allowed(x, table)}} \cup {Inf})

\* Every variable has its type.
TypeOK ==
    /\ pc \in {"fill", "search", "check", "merge", "selected", "configured", "threw"}
    /\ best \in [Segs -> 0..Inf]
    /\ plan.segs \in Seq([seg : Segs, cost : 0..(Inf - 1), built : BOOLEAN])
    /\ plan.total \in 0..Inf
    /\ at \in 1..(Width + 2) /\ merged \in BOOLEAN
    /\ config.bits \in Seq(1..Width)

\* What the search returns costs as little as any allowed cut of the table it
\* was given, with exactly the forced number of segments, and it finds a plan
\* whenever there is one (select's dynamic programme and its exhaustive search,
\* in both forms).
FindsTheCheapest == pc = "check" => plan.total = LeastCost(best)

\* Whichever way a plan was found, pruned and merged: fromSegments never finds its
\* segments not contiguous.  It throws for an empty plan, and for a segment whose
\* encoding it has no case for (BlockFrequencyPartitionFOREncoding, which the default
\* cost models include), nothing else.  The section that reads a segment's bits has
\* its width, and the total reported is the cost of the segments reported.
PlanConfigures ==
    /\ pc \in {"selected", "configured"} /\ plan.segs # <<>> =>
          plan.total = Total(CostsOf(plan.segs)) + opt.penalty * (Len(plan.segs) - 1)
    /\ pc = "threw" => \/ plan.segs = <<>>
                       \/ \E i \in DOMAIN plan.segs : plan.segs[i].seg \in uncased
    /\ pc = "configured" =>
          LET Taken(i) == SumTo(config.bits, i) IN
          \A i \in DOMAIN config.bits :
              IF config.order = "MSB_TO_LSB"
              THEN Segments[i] = <<Width - Taken(i), Width - Taken(i - 1) - 1>>
              ELSE Segments[i] = <<Taken(i - 1), Taken(i) - 1>>

\* Pruning never quietly turns the selection into one segment over the whole
\* width: that plan is only taken when it is the cheapest without pruning
\* (select, "A heuristic that is allowed to change the answer rather than the
\* runtime has to notice when it has").
CollapseIsCheapest ==
    pc = "selected" /\ Degenerate /\ ~opt.merge =>
        plan.total = LeastCost(Table(FALSE))

\* Merging neighbours never makes the plan dearer.
MergingPays == [][pc = "merge" => plan'.total <= plan.total]_vars

\* The loop over merges ends, whatever merging changes about the costs of the
\* pairs it meets next (tryMergeAdjacentSegments, while merged_any).
MergingEnds == pc = "merge" ~> pc \in {"configured", "threw"}
=============================================================================

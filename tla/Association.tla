----------------------------- MODULE Association -----------------------------
(***************************************************************************)
(* How the trackers pair the tracks they have with the detections of a     *)
(* frame.  ByteTracker solves an assignment problem (hungarian_assignment, *)
(* the algorithm with potentials, row by row) and then drops pairs that    *)
(* overlap too little; DemoTracker takes pairs greedily, best first.       *)
(*                                                                         *)
(* Overlaps (IoU) are whole numbers 0..MaxIou; the cost of a pair is what  *)
(* its overlap lacks, plus what the scene grid adds or, with fuse_score,   *)
(* the detection's score leaves of it.  Rounding of floats is left out.    *)
(***************************************************************************)
EXTENDS Integers, Sequences, FiniteSets, FiniteSetsExt, Functions

CONSTANTS
  MaxSide,    \* bound: tracks, and detections, of a frame
  GridPairs,  \* bound: pairs of a frame to whose costs the grid adds
  MaxIou,     \* bound: the greatest overlap
  MaxExtra,   \* max_extra_cost of the scene grid; 0 is a grid that is off
  Threshold   \* iou_threshold

Infinity == 1000  \* inf, 1e9 in the code: more than any cost

ASSUME AssociationAssumption ==
  /\ MaxSide \in Nat /\ GridPairs \in Nat /\ MaxIou \in Nat /\ MaxExtra \in Nat /\ Threshold \in Nat
  /\ MaxIou + MaxExtra < Infinity

VARIABLES
  step,      \* where the call is
  iou,       \* ious, by track and detection
  cost,      \* costs, by track and detection
  current,   \* i of the outer loop: the row being assigned
  rowOf,     \* p: the row of a column, 0 for none; p[0] is the current row
  rowPrice,  \* u
  colPrice,  \* v
  slack,     \* minv
  way,       \* the column before a column on the path to it
  used,      \* columns reached
  at,        \* j0
  left,      \* the pairs the greedy tracker has not looked at
  matches    \* the result: pairs of a track and a detection

assocVars == << step, iou, cost, current, rowOf, rowPrice, colPrice, slack, way,
                used, at, left, matches >>

search == << current, rowOf, rowPrice, colPrice, slack, way, used, at >>

Tracks == DOMAIN iou
Detected == DOMAIN iou[1]

\* The matrix is turned when there are more tracks than detections.
Turned == Len(iou) > Len(iou[1])
Rows == IF Turned THEN Detected ELSE Tracks
Columns == IF Turned THEN Tracks ELSE Detected
Mat(i, j) == IF Turned THEN cost[j][i] ELSE cost[i][j]

Zero == [j \in 0..MaxSide |-> 0]

AssocInit ==
  /\ step = "boxes"
  /\ iou = << << 0 >> >> /\ cost = << << 0 >> >>
  /\ current = 0 /\ at = 0
  /\ rowOf = Zero /\ rowPrice = Zero /\ colPrice = Zero /\ way = Zero
  /\ slack = [j \in 0..MaxSide |-> Infinity]
  /\ used = {}
  /\ left = {}
  /\ matches = {}

\* What the scene grid may add: nothing before it has seen enough frames,
\* and never more than its maximum.
ExtraCosts(n, k) ==
  [1..n -> [1..k -> IF n * k <= GridPairs THEN 0..MaxExtra ELSE {0}]]

\* associate_detections up to the call, for tracks and detections that are
\* both there (without either, nothing is paired).
Prepare ==
  /\ step = "boxes"
  /\ \E n, k \in 1..MaxSide :
       /\ iou' \in [1..n -> [1..k -> 0..MaxIou]]
       /\ \E extra \in ExtraCosts(n, k) :
            cost' = [i \in 1..n |-> [j \in 1..k |-> MaxIou - iou'[i][j] + extra[i][j]]]
  /\ step' = "row"
  /\ UNCHANGED << search, left, matches >>

(***************************************************************************)
(* hungarian_assignment.                                                   *)
(***************************************************************************)
StartRow ==
  /\ step = "row" /\ current < Cardinality(Rows)
  /\ current' = current + 1
  /\ rowOf' = [rowOf EXCEPT ![0] = current + 1]
  /\ at' = 0
  /\ slack' = [j \in 0..MaxSide |-> Infinity]
  /\ used' = {}
  /\ step' = "scan"
  /\ UNCHANGED << iou, cost, rowPrice, colPrice, way, left, matches >>

Reached == used \cup {at}
Reduced(j) == Mat(rowOf[at], j) - rowPrice[rowOf[at]] - colPrice[j]

\* minv of the columns not reached, and the first column with the least.
Slacks == [j \in Columns \ Reached |-> IF Reduced(j) < slack[j] THEN Reduced(j) ELSE slack[j]]
Nearest(near) == CHOOSE j \in DOMAIN near :
                   \A k \in DOMAIN near : near[j] < near[k] \/ (near[j] = near[k] /\ j <= k)

\* The prices of the rows and columns reached.  The mutant forgets the rows.
RowPrices_Kept(delta) == rowPrice
RowPrices(delta) ==
  [i \in 0..MaxSide |-> rowPrice[i] + (IF \E j \in Reached : rowOf[j] = i THEN delta ELSE 0)]

\* One turn of the inner loop: the cheapest column that can be reached next.
Scan ==
  /\ step = "scan"
  /\ LET near  == Slacks
         best  == Nearest(near)
         delta == near[best]
     IN /\ rowPrice' = RowPrices(delta)
        /\ colPrice' = [j \in 0..MaxSide |-> colPrice[j] - (IF j \in Reached THEN delta ELSE 0)]
        /\ slack' = [j \in 0..MaxSide |->
                       IF j \in DOMAIN near THEN near[j] - delta ELSE slack[j]]
        /\ way' = [j \in 0..MaxSide |-> IF j \in DOMAIN near /\ near[j] < slack[j] THEN at ELSE way[j]]
        /\ at' = best
        /\ step' = IF rowOf[best] = 0 THEN "augment" ELSE "scan"
  /\ used' = Reached
  /\ UNCHANGED << iou, cost, current, rowOf, left, matches >>

\* Back along the path: every column takes the row of the one before.
Augment ==
  /\ step = "augment"
  /\ rowOf' = [rowOf EXCEPT ![at] = rowOf[way[at]]]
  /\ at' = way[at]
  /\ step' = IF way[at] = 0 THEN "row" ELSE "augment"
  /\ UNCHANGED << iou, cost, current, rowPrice, colPrice, slack, way, used, left, matches >>

Assignment ==
  {pair \in Tracks \X Detected :
     IF Turned THEN rowOf[pair[1]] = pair[2] ELSE rowOf[pair[2]] = pair[1]}

\* The rest of associate_detections: the pairs that overlap enough.
Collect ==
  /\ step = "row" /\ current = Cardinality(Rows)
  /\ matches' = {pair \in Assignment : iou[pair[1]][pair[2]] >= Threshold}
  /\ step' = "assigned"
  /\ UNCHANGED << iou, cost, search, left >>

(***************************************************************************)
(* DemoTracker::match_greedy_: the same boxes, without the grid.           *)
(***************************************************************************)
StartGreedy ==
  /\ step = "row" /\ current = 0
  /\ left' = {pair \in Tracks \X Detected : iou[pair[1]][pair[2]] >= Threshold}
  /\ step' = "greedy"
  /\ UNCHANGED << iou, cost, search, matches >>

\* A pair that is not skipped once another one has been taken.
Free(pair, other) == other[1] # pair[1] /\ other[2] # pair[2]

MatchGreedy ==
  /\ step = "greedy"
  /\ \E pair \in left :
       /\ \A other \in left : iou[other[1]][other[2]] <= iou[pair[1]][pair[2]]
       /\ left' = {other \in left : Free(pair, other)}
       /\ matches' = matches \cup {pair}
  /\ UNCHANGED << step, iou, cost, search >>

EndGreedy ==
  /\ step = "greedy" /\ left = {}
  /\ step' = "taken"
  /\ UNCHANGED << iou, cost, search, left, matches >>

AssocNext ==
  \/ Prepare \/ StartRow \/ Scan \/ Augment \/ Collect
  \/ StartGreedy \/ MatchGreedy \/ EndGreedy

AssocSpec == AssocInit /\ [][AssocNext]_assocVars

-----------------------------------------------------------------------------
OneToOne(pairs) == \A a, b \in pairs : a # b => a[1] # b[1] /\ a[2] # b[2]

TotalCost(pairs) == MapThenSumSet(LAMBDA pair : cost[pair[1]][pair[2]], pairs)

\* hungarian_assignment gives every track a detection of its own, or every
\* detection a track, and no other way to do so costs less; what is kept of
\* it is one-to-one.  Pairs above the threshold that the cheapest assignment
\* does not contain are lost (association.cpp:178-198).
AssignmentIsOptimal ==
  step = "assigned" =>
    /\ OneToOne(Assignment)
    /\ Cardinality(Assignment) = Cardinality(Rows)
    /\ \A f \in Injection(Rows, Columns) :
         TotalCost(Assignment) <=
           TotalCost({IF Turned THEN << f[i], i >> ELSE << i, f[i] >> : i \in Rows})

\* match_greedy_ leaves no track and detection that would both be better off
\* with each other: of a pair above the threshold one is taken by a match
\* that overlaps at least as much.
GreedyIsStable ==
  step = "taken" =>
    /\ OneToOne(matches)
    /\ \A pair \in Tracks \X Detected :
         iou[pair[1]][pair[2]] >= Threshold =>
           \E m \in matches : /\ m[1] = pair[1] \/ m[2] = pair[2]
                              /\ iou[m[1]][m[2]] >= iou[pair[1]][pair[2]]

\* Both ways to associate tracks with detections, by cost for ByteTrack and
\* greedily for the demo tracker.
AssociationIsBest == AssignmentIsOptimal /\ GreedyIsStable
===============================================================================

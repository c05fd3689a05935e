------------------------------- MODULE Detection -------------------------------
(***************************************************************************)
(* One call of a detector: YOLOX and UHD find persons, SCRFD and YuNet     *)
(* faces.  They load a network, decode its output row by row, drop weak    *)
(* and empty boxes, and suppress boxes that overlap a better one.          *)
(*                                                                         *)
(* The network (external) is known by the order of its output: the three   *)
(* levels of a pyramid, each in row-major order, one value per anchor; or, *)
(* for UHD, 56 channels of an 8 by 8 grid.  A box is its score and whether *)
(* clipping leaves anything of it; overlaps are an arbitrary relation.     *)
(***************************************************************************)
EXTENDS Integers, Sequences, FiniteSets

CONSTANTS
  InputSizes,  \* bound: widths and heights of the network's input
  TopK,        \* top_k, 0 for no limit
  MaxBoxes,    \* bound: rows of the output
  MaxScore     \* bound: scores are 0..MaxScore; the threshold is 1

ASSUME DetectionAssumption ==
  /\ InputSizes \subseteq Nat \ {0} /\ TopK \in Nat
  /\ MaxBoxes \in Nat /\ MaxScore \in Nat

VARIABLES
  phase,     \* where the call is
  row,       \* one row of the output: what computed it and what it is decoded to
  rows,      \* the boxes of the output, in its order
  overlap,   \* pairs of them with an IoU above nms_threshold
  order,     \* indices of the candidates by falling score, cut to TopK
  dropped,   \* history: candidates the cut left out
  next,      \* how far the suppression is
  kept       \* keep_indices

detectVars == << phase, row, rows, overlap, order, dropped, next, kept >>

Levels == 1..3
Stride == << 8, 16, 32 >>
Anchors == 0..7
NoRow == [kind |-> "none", cell |-> << >>, decoded |-> << >>, exact |-> TRUE]

AtLeastOne(n) == IF n < 1 THEN 1 ELSE n
Cells(n, l) == n \div Stride[l]
Ceiling(n, l) == (n + Stride[l] - 1) \div Stride[l]

DetectInit ==
  /\ phase = "load"
  /\ row = NoRow
  /\ rows = << >> /\ overlap = {}
  /\ order = << >> /\ dropped = {}
  /\ next = 1
  /\ kept = << >>

\* Variant, parameter file, weights: any of them missing throws, and the
\* pipeline that wanted the detector does not start.
Load ==
  /\ phase = "load"
  /\ phase' \in {"ready", "threw"}
  /\ UNCHANGED << row, rows, overlap, order, dropped, next, kept >>

(***************************************************************************)
(* The position of a cell in the network's output, and what each detector  *)
(* makes of that position.                                                 *)
(***************************************************************************)
LevelSize(w, h, l) == Ceiling(w, l) * Ceiling(h, l)
LevelStart(w, h, l) == IF l = 1 THEN 0
                       ELSE LevelSize(w, h, 1) + (IF l = 3 THEN LevelSize(w, h, 2) ELSE 0)

\* decode_raw_yolox: the levels follow one another.
YoloxLevel(w, h, l) == AtLeastOne(Cells(w, l)) * AtLeastOne(Cells(h, l))
YoloxStart(w, h, l) == IF l = 1 THEN 0
                       ELSE YoloxLevel(w, h, 1) + (IF l = 3 THEN YoloxLevel(w, h, 2) ELSE 0)
YoloxCell(w, h, i) ==
  LET within == {l \in Levels : i < YoloxStart(w, h, l) + YoloxLevel(w, h, l)}
      l      == CHOOSE l \in within : \A k \in within : l <= k
      local  == i - YoloxStart(w, h, l)
      cols   == AtLeastOne(Cells(w, l))
  IN IF within = {} THEN << >> ELSE << l, local % cols, local \div cols >>

\* SCRFD: the levels are outputs of their own, with the anchors of a cell
\* side by side.
ScrfdAnchors(w, h, l, count) == AtLeastOne(count \div (Cells(w, l) * Cells(h, l)))
ScrfdCell(w, h, l, count, i) ==
  LET pos == i \div ScrfdAnchors(w, h, l, count)
      cols == Cells(w, l)
  IN IF pos >= cols * Cells(h, l) THEN << >>
     ELSE << l, pos - (pos \div cols) * cols, pos \div cols >>

\* YuNet: one anchor, levels apart.
YunetCell(w, h, l, i) ==
  IF i >= Cells(w, l) * Cells(h, l) THEN << >>
  ELSE << l, i - (i \div Cells(w, l)) * Cells(w, l), i \div Cells(w, l) >>

\* UHD: the channel of a field of an anchor, in the two layouts of the
\* network's tail; fields 0-3 are the box, 4-6 the scores.
UhdChannel(layout, anchor, field) ==
  CASE layout = "gathered"                 -> anchor * 7 + field
    [] layout = "catenated" /\ field < 4  -> anchor * 4 + field
    [] layout = "catenated" /\ field >= 4 -> 32 + (field - 4) * 8 + anchor

\* The heads the catenated tail puts side by side: boxes, then three scores.
UhdHead(channel) ==
  IF channel < 32 THEN << channel \div 4, channel % 4 >>
  ELSE << (channel - 32) % 8, 4 + ((channel - 32) \div 8) >>

Decode(kind, w, h, cell, decoded) ==
  row' = [kind |-> kind, cell |-> cell, decoded |-> decoded,
          exact |-> w % 32 = 0 /\ h % 32 = 0]

DecodeRow ==
  /\ phase = "ready"
  /\ phase' = "decoded"
  /\ \/ \E w, h \in InputSizes, l \in Levels, anchors \in {1, 2}, a \in {0, 1} :
          \E x \in 0..(Ceiling(w, l) - 1), y \in 0..(Ceiling(h, l) - 1) :
            LET place == y * Ceiling(w, l) + x IN
            /\ a < anchors
            /\ \/ Decode("yolox", w, h, << l, x, y >>,
                         YoloxCell(w, h, LevelStart(w, h, l) + place))
               \/ Decode("scrfd", w, h, << l, x, y >>,
                         ScrfdCell(w, h, l, anchors * LevelSize(w, h, l), place * anchors + a))
               \/ Decode("yunet", w, h, << l, x, y >>, YunetCell(w, h, l, place))
     \/ \E a \in Anchors, field \in 0..6 :
          \/ Decode("uhd", 64, 64, << a, field >>, UhdHead(UhdChannel("catenated", a, field)))
          \/ LET c == UhdChannel("gathered", a, field)
             IN Decode("uhd", 64, 64, << a, field >>, << c \div 7, c % 7 >>)
  /\ UNCHANGED << rows, overlap, order, dropped, next, kept >>

(***************************************************************************)
(* From rows to boxes.                                                     *)
(***************************************************************************)
\* An empty image, a failed extraction or an output of another shape.
NoOutput ==
  /\ phase = "ready"
  /\ phase' = "done"
  /\ UNCHANGED << row, rows, overlap, order, dropped, next, kept >>

\* A box of which clipping leaves nothing may score anything: one score
\* stands for all.
Boxes == {b \in [score : 0..MaxScore, empty : BOOLEAN] : b.empty => b.score = MaxScore}
Candidate(b) == b.score >= 1 /\ ~b.empty

Infer ==
  /\ phase = "ready"
  /\ \E n \in 1..MaxBoxes :
       /\ rows' \in [1..n -> Boxes]
       /\ overlap' \in SUBSET {p \in (1..n) \X (1..n) : p[1] < p[2]}
  /\ phase' = "rank"
  /\ UNCHANGED << row, order, dropped, next, kept >>

\* The candidates by falling score; the order of equals is the sort's.
Rankings ==
  LET C == {i \in 1..Len(rows) : Candidate(rows[i])}
  IN {q \in [1..Cardinality(C) -> C] :
        /\ \A i, j \in 1..Cardinality(C) : i < j => q[i] # q[j]
        /\ \A i, j \in 1..Cardinality(C) : i < j => rows[q[i]].score >= rows[q[j]].score}

Cut(q) == IF TopK > 0 /\ Len(q) > TopK THEN SubSeq(q, 1, TopK) ELSE q

Rank ==
  /\ phase = "rank"
  /\ \E q \in Rankings :
       /\ order' = Cut(q)
       /\ dropped' = {q[i] : i \in 1..Len(q)} \ {Cut(q)[i] : i \in 1..Len(Cut(q))}
  /\ phase' = "suppress"
  /\ UNCHANGED << row, rows, overlap, next, kept >>

Overlap(i, j) == << i, j >> \in overlap \/ << j, i >> \in overlap

\* A candidate is kept unless it overlaps one that is; the mutant looks at
\* the last one only.
Survives_Last(i) == kept = << >> \/ ~Overlap(i, kept[Len(kept)])
Survives(i) == \A k \in 1..Len(kept) : ~Overlap(i, kept[k])

Suppress ==
  /\ phase = "suppress"
  /\ IF next > Len(order)
     THEN phase' = "done" /\ UNCHANGED << next, kept >>
     ELSE /\ next' = next + 1
          /\ kept' = IF Survives(order[next]) THEN Append(kept, order[next]) ELSE kept
          /\ UNCHANGED phase
  /\ UNCHANGED << row, rows, overlap, order, dropped >>

DetectNext == Load \/ DecodeRow \/ NoOutput \/ Infer \/ Rank \/ Suppress

DetectSpec == DetectInit /\ [][DetectNext]_detectVars

-----------------------------------------------------------------------------
\* Every value is read for the cell, the anchor and the field the network
\* computed it for, when the input's sides are multiples of 32; with other
\* sides the code's rounding down does not match the network's grid.
CellsAreDecoded == row.exact => row.decoded = row.cell

\* No two boxes returned overlap, and a candidate that is not returned
\* overlaps a returned one that scores as high, or top_k left it out for
\* candidates that do: a person is lost to a duplicate only.
KeptBoxesStandForAll ==
  phase = "done" /\ rows # << >> =>
    LET Kept == {kept[k] : k \in 1..Len(kept)} IN
    /\ \A i, j \in Kept : i # j => ~Overlap(i, j)
    /\ \A i \in 1..Len(rows) :
         Candidate(rows[i]) =>
           \/ i \in Kept
           \/ \E k \in Kept : Overlap(i, k) /\ rows[k].score >= rows[i].score
           \/ /\ i \in dropped /\ Len(order) = TopK
              /\ \A k \in 1..Len(order) : rows[order[k]].score >= rows[i].score
    /\ \A i \in Kept : Candidate(rows[i])

\* A network's output becomes boxes: read where it was written, and thinned
\* out to one box per person or face.
DetectionsAreTrue == CellsAreDecoded /\ KeptBoxesStandForAll
===============================================================================

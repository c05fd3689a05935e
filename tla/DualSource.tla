------------------------------ MODULE DualSource ------------------------------
(***************************************************************************)
(* GstDualSource: one camera or file, decoded once and scaled by two       *)
(* GStreamer branches, the small frames for inference and the large ones   *)
(* for display.  Both end in an appsink that keeps one buffer and drops    *)
(* the older one, so each branch delivers the moments of the video in      *)
(* order and with gaps of its own (external).  read() pulls from both,     *)
(* keeps what has no partner yet in two bounded queues, pairs frames by    *)
(* timestamp, and trims the queues.                                        *)
(*                                                                         *)
(* A frame is its timestamp.  The first moment of a video has timestamp 0, *)
(* which the code takes for "no timestamp".                                *)
(***************************************************************************)
EXTENDS Integers, Sequences

CONSTANTS
  PendingCap,  \* pending_cap_, 8 in the code
  MaxPts       \* bound: the last moment of the video

ASSUME PendingCapAssumption == PendingCap \in Nat \ {0}
ASSUME MaxPtsAssumption == MaxPts \in Nat

VARIABLES
  source,      \* the GStreamer pipeline: "stopped" or "playing"
  reader,      \* where read() is
  pendingInf,  \* pending_inf_
  pendingUi,   \* pending_ui_
  pulledInf,   \* history: what each branch has delivered
  pulledUi,
  aged,        \* history: moments trimmed as too old, by branch
  capped,      \* history: moments a full queue pushed out
  packet,      \* the last packet of read(): its two frames and its id
  nextFrameId  \* next_frame_id_

sourceVars == << source, reader, pendingInf, pendingUi, pulledInf, pulledUi,
                 aged, capped, packet, nextFrameId >>

Moments == 0..MaxPts
NoPacket == [inf |-> -1, ui |-> -1, id |-> -1]
Pts(q) == {q[i] : i \in 1..Len(q)}
Without(q, i) == SubSeq(q, 1, i - 1) \o SubSeq(q, i + 1, Len(q))

SourceInit ==
  /\ source = "stopped"
  /\ reader = "idle"
  /\ pendingInf = << >> /\ pendingUi = << >>
  /\ pulledInf = {} /\ pulledUi = {}
  /\ aged = [inf |-> {}, ui |-> {}]
  /\ capped = {}
  /\ packet = NoPacket
  /\ nextFrameId = 0

(***************************************************************************)
(* try_match_: the first inference frame with a timestamp that a display   *)
(* frame shares, or else the two fronts when neither has a timestamp.      *)
(***************************************************************************)
Timed(inf, ui) == {i \in 1..Len(inf) : inf[i] > 0 /\ inf[i] \in Pts(ui)}

\* The fronts, when neither has a timestamp.
Untimed(inf, ui) ==
  inf # << >> /\ ui # << >> /\ Head(inf) <= 0 /\ Head(ui) <= 0

\* Indices of the pair to take, or << >>.
Match(inf, ui) ==
  IF Timed(inf, ui) # {}
  THEN LET i == CHOOSE i \in Timed(inf, ui) : \A k \in Timed(inf, ui) : i <= k
           j == CHOOSE j \in 1..Len(ui) : /\ ui[j] = inf[i]
                                          /\ \A k \in 1..(j - 1) : ui[k] # inf[i]
       IN << i, j >>
  ELSE IF Untimed(inf, ui) THEN << 1, 1 >> ELSE << >>

(***************************************************************************)
(* trim_pending_: the cap first, then fronts that cannot find a partner.   *)
(***************************************************************************)
Capped(q) == IF Len(q) > PendingCap
             THEN SubSeq(q, Len(q) - PendingCap + 1, Len(q)) ELSE q

\* A front is too old when the other queue does not hold its partner and is
\* already past it; the mutant drops the newer front instead.
TooOld_Newer(mine, other) ==
  /\ Head(mine) \notin Pts(other)
  /\ Head(other) \in Pts(mine) \/ Head(mine) > Head(other)
TooOld(mine, other) ==
  /\ Head(mine) \notin Pts(other)
  /\ Head(other) \in Pts(mine) \/ Head(mine) < Head(other)

Comparable(inf, ui) ==
  /\ inf # << >> /\ ui # << >>
  /\ Head(inf) > 0 /\ Head(ui) > 0 /\ Head(inf) # Head(ui)

\* The cap comes first.
Queues ==
  {q \in Seq(Moments) \X Seq(Moments) : Len(q[1]) <= PendingCap /\ Len(q[2]) <= PendingCap}

Aging[q \in Queues] ==
  LET inf == q[1]
      ui  == q[2]
  IN CASE Comparable(inf, ui) /\ TooOld(inf, ui) -> Aging[<< Tail(inf), ui >>]
       [] Comparable(inf, ui) /\ ~TooOld(inf, ui) /\ TooOld(ui, inf) ->
            Aging[<< inf, Tail(ui) >>]
       [] OTHER -> q

(***************************************************************************)
(* read() after something was pulled: what the queues are now, whether     *)
(* they are trimmed, and where to go on when nothing matches.              *)
(***************************************************************************)
Settle(inf, ui, trims, otherwise) ==
  LET c == IF trims THEN << Capped(inf), Capped(ui) >> ELSE << inf, ui >>
      q == IF trims THEN Aging[c] ELSE c
      m == IF trims /\ otherwise = "top" THEN << >> ELSE Match(q[1], q[2])
  IN /\ capped' = capped \cup (Pts(inf) \ Pts(c[1])) \cup (Pts(ui) \ Pts(c[2]))
     /\ aged' = [inf |-> aged.inf \cup (Pts(c[1]) \ Pts(q[1])),
                 ui  |-> aged.ui \cup (Pts(c[2]) \ Pts(q[2]))]
     /\ IF m = << >>
        THEN /\ pendingInf' = q[1] /\ pendingUi' = q[2]
             /\ reader' = otherwise
             /\ UNCHANGED << packet, nextFrameId >>
        ELSE /\ pendingInf' = Without(q[1], m[1])
             /\ pendingUi' = Without(q[2], m[2])
             /\ packet' = [inf |-> q[1][m[1]], ui |-> q[2][m[2]], id |-> nextFrameId]
             /\ nextFrameId' = nextFrameId + 1
             /\ reader' = "idle"

\* What pull_bgr_ may return: nothing before its timeout, or a later moment.
Pulled(seen) == {<< >>} \cup {<< p >> : p \in {m \in Moments : \A s \in seen : m > s}}

Start ==
  /\ source = "stopped"
  /\ source' = "playing"
  /\ UNCHANGED << reader, pendingInf, pendingUi, pulledInf, pulledUi, aged,
                  capped, packet, nextFrameId >>

\* stop(), also called by a start() that fails after the pipeline was parsed.
Stop ==
  /\ source = "playing" /\ reader = "idle"
  /\ source' = "stopped"
  /\ pendingInf' = << >> /\ pendingUi' = << >>
  /\ pulledInf' = {} /\ pulledUi' = {}
  /\ aged' = [inf |-> {}, ui |-> {}]
  /\ capped' = {}
  /\ packet' = NoPacket
  /\ nextFrameId' = 0
  /\ UNCHANGED reader

Read ==
  /\ source = "playing" /\ reader = "idle"
  /\ reader' = "top"
  /\ UNCHANGED << source, pendingInf, pendingUi, pulledInf, pulledUi, aged,
                  capped, packet, nextFrameId >>

ReadTop ==
  /\ reader = "top"
  /\ Settle(pendingInf, pendingUi, FALSE, "inf")
  /\ UNCHANGED << source, pulledInf, pulledUi >>

PullInf ==
  /\ reader = "inf"
  /\ \E s \in Pulled(pulledInf) :
       /\ pulledInf' = pulledInf \cup Pts(s)
       /\ Settle(pendingInf \o s, pendingUi, FALSE, "ui")
  /\ UNCHANGED << source, pulledUi >>

PullUi ==
  /\ reader = "ui"
  /\ \E s \in Pulled(pulledUi) :
       /\ pulledUi' = pulledUi \cup Pts(s)
       /\ Settle(pendingInf, pendingUi \o s, TRUE, "top")
  /\ UNCHANGED << source, pulledInf >>

\* The deadline has passed, or nothing was pulled in the last round.
TimeOut ==
  /\ reader = "top"
  /\ Settle(pendingInf, pendingUi, TRUE, "idle")
  /\ UNCHANGED << source, pulledInf, pulledUi >>

SourceNext == Start \/ Stop \/ Read \/ ReadTop \/ PullInf \/ PullUi \/ TimeOut

SourceSpec == SourceInit /\ [][SourceNext]_sourceVars

-----------------------------------------------------------------------------
SourceTypeOK ==
  /\ source \in {"stopped", "playing"}
  /\ reader \in {"idle", "top", "inf", "ui"}
  /\ pendingInf \in Seq(Moments) /\ pendingUi \in Seq(Moments)
  /\ pulledInf \subseteq Moments /\ pulledUi \subseteq Moments
  /\ nextFrameId \in Nat

\* Every packet shows one moment twice, packets follow each other in time,
\* and their ids count up from 0 (try_match_ and emit_pair_), whatever the
\* two branches drop.
PairsInOrder ==
  [][ packet'.id > packet.id =>
        /\ packet'.inf = packet'.ui
        /\ packet'.inf > packet.inf
        /\ packet'.id = packet.id + 1 ]_sourceVars

\* trim_pending_ never ages out a frame whose partner is delivered, before
\* or after, unless the cap had pushed that partner out (line 166; it does so
\* even in the round that delivers the second frame of a pair).
NoMatchLost ==
  /\ aged.inf \cap pulledUi \subseteq capped
  /\ aged.ui \cap pulledInf \subseteq capped

\* What DualSource promises the coordinator: two views of one moment, one
\* after the other, and every pair that the bounded buffers allow.
PairsAreRight == [](SourceTypeOK /\ NoMatchLost) /\ PairsInOrder
===============================================================================

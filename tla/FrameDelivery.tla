---------------------------- MODULE FrameDelivery ----------------------------
(***************************************************************************)
(* What a stream promises its viewers, whatever happens inside the         *)
(* pipeline: a frame is published at most once, frames leave in the order  *)
(* the source numbered them, only a frame that was ingested leaves, and    *)
(* the boxes a frame is published with are the decided ones and never      *)
(* change afterwards (the anonymizer reads them on another thread).        *)
(* Frames may be left out; they are never reordered.                       *)
(***************************************************************************)
EXTENDS Integers, Sequences

VARIABLES
  ingested,   \* the number of frames the source has produced: ids 0 .. ingested - 1
  commits,    \* the ids published so far, in order
  published   \* the pairs <<id, boxes>> the frames were published with

vars == <<ingested, commits, published>>

Init ==
  /\ ingested = 0
  /\ commits = <<>>
  /\ published = {}

Ingest ==
  /\ ingested' = ingested + 1
  /\ UNCHANGED <<commits, published>>

(* Publish a frame younger than every frame published before it. *)
Commit(f) ==
  /\ \A i \in DOMAIN commits : commits[i] < f
  /\ commits' = Append(commits, f)
  /\ published' = published \cup {<<f, "decided">>}
  /\ UNCHANGED ingested

Next ==
  \/ Ingest
  \/ \E f \in 0 .. ingested - 1 : Commit(f)

Spec == Init /\ [][Next]_vars
=============================================================================

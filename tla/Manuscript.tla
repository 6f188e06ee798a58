----------------------------- MODULE Manuscript -----------------------------
(***************************************************************************)
(* What the engine promises about a book, without saying how: once the     *)
(* planning is over chapters appear one at a time, each the next after the *)
(* last or one that a review has asked for; while any are asked for no     *)
(* other appears; none ever disappears; and a book is finished once, with  *)
(* an empty queue, after which no chapter is touched.                      *)
(***************************************************************************)
EXTENDS Integers, FiniteSetsExt

CONSTANT Chapters    \* the chapters a review may ask for

VARIABLES
  stage,    \* "planning", "writing" or "complete"
  written,  \* the chapters that exist
  queue     \* chapters owed a rework

manuscript == <<stage, written, queue>>

MInit == stage = "planning" /\ written = {} /\ queue = {}

Open ==
  /\ stage = "planning" /\ stage' = "writing"
  /\ UNCHANGED <<written, queue>>

Write ==
  /\ stage = "writing" /\ queue = {}
  /\ written' = written \cup {Max({0} \cup written) + 1}
  /\ UNCHANGED <<stage, queue>>

\* The review that ends a book may still ask for chapters, which stay as they are.
Review(chapters) ==
  /\ stage # "planning" /\ written # {} /\ chapters # {}
  /\ queue' = chapters
  /\ UNCHANGED <<stage, written>>

\* Nothing keeps a review from naming a chapter that is not there: it is written.
Rework(chapter) ==
  /\ stage = "writing"
  /\ written' = written \cup {chapter}
  /\ queue' = queue \ {chapter}
  /\ UNCHANGED stage

Finish ==
  /\ stage = "writing" /\ queue = {} /\ written # {}
  /\ stage' = "complete"
  /\ UNCHANGED <<written, queue>>

MNext ==
  \/ Open \/ Write \/ Finish
  \/ \E chapters \in SUBSET Chapters : Review(chapters)
  \/ \E chapter \in queue : Rework(chapter)

MSpec == MInit /\ [][MNext]_manuscript
=============================================================================

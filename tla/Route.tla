------------------------------- MODULE Route --------------------------------
(***************************************************************************)
(* The router: from the facts assembled out of the store to the next       *)
(* instruction for a worker, or to none.  Translated from                  *)
(* src/src/store/foundation.ts (what is missing), src/src/store/state.ts   *)
(* (the snapshot) and src/src/flow/route.ts (the priority table).          *)
(*                                                                         *)
(* The store is one record `s`: the progress record, the planning tier of  *)
(* run_meta ("" when unset), and which artifacts exist.                    *)
(*   files      those of book, premise, characters, world_rules on disk    *)
(*   outlined   chapters in outline.json, 0 when the file is absent        *)
(*   volumes    layered_outline.json, <<>> when the file is absent         *)
(*   globalReviews, arcReviews      review files, by their chapter         *)
(*   arcSummaries, volumeSummaries  summary files, by the indexes in their *)
(*                                  names                                  *)
(***************************************************************************)
EXTENDS Domain, Outline

Artifacts == {"book", "premise", "characters", "world_rules"}

ResolveFoundationTier(s) ==
  CASE s.tier # ""                                      -> s.tier
    [] s.tier = "" /\ (s.progress.layered \/ s.volumes # <<>>)  -> "mid"
    [] s.tier = "" /\ ~s.progress.layered /\ s.volumes = <<>>   -> "short"

OutlineRequirementSatisfied(s) ==
  s.outlined > 0 \/ (ResolveFoundationTier(s) # "short" /\ s.volumes # <<>>)

\* Slip: the outline is not asked for.
FoundationGaps_NoOutline(s) == Artifacts \ s.files

FoundationGaps(s) ==
  (Artifacts \ s.files) \cup (IF OutlineRequirementSatisfied(s) THEN {} ELSE {"outline"})

\* Slip: an outline-phase book is taken for an audited one.
FoundationMissing_Audited(s) ==
  IF FoundationGaps(s) = {} /\ s.progress.phase \notin {"outline", "writing", "complete"}
  THEN {"foundation_audit"}
  ELSE FoundationGaps(s)

\* The audit is asked for only when nothing else is missing.
FoundationMissing(s) ==
  IF FoundationGaps(s) = {} /\ s.progress.phase \notin {"writing", "complete"}
  THEN {"foundation_audit"}
  ELSE FoundationGaps(s)

-----------------------------------------------------------------------------
(* The snapshot.  An absent fact is FALSE, NoRefresh or NoBoundary. *)

NoRefresh == [kind |-> "none", volume |-> 0, arc |-> 0, startChapter |-> 0, endChapter |-> 0]

RefreshFrom(kind, b) ==
  [kind |-> kind, volume |-> b.volume, arc |-> b.arc,
   startChapter |-> b.startChapter, endChapter |-> b.endChapter]

\* What the end of arc x still lacks, in the order the code asks for it.
ArcGap(s, x) ==
  LET b == Boundary(s.volumes, x)
  IN  IF b.endChapter \notin s.arcReviews THEN RefreshFrom("arc_review", b)
      ELSE IF <<b.volume, b.arc>> \notin s.arcSummaries THEN RefreshFrom("arc_summary", b)
      ELSE IF b.isVolumeEnd /\ b.volume \notin s.volumeSummaries
      THEN RefreshFrom("volume_summary", b)
      ELSE NoRefresh

LayeredRefresh(s) ==
  LET gaps == {x \in CompletedArcs(s.volumes, LatestCompleted(s.progress)) :
                 ArcGap(s, x) # NoRefresh}
  IN  IF gaps = {} THEN NoRefresh
      ELSE ArcGap(s, CHOOSE x \in gaps : \A y \in gaps \ {x} : StoryBefore(x, y))

\* Slip: a review that was missed is not looked for.
FlatRefresh_Never(s) == NoRefresh

FlatRefresh(s) ==
  LET done == s.progress.completed
      gaps == {n \in DOMAIN done : ShouldReview(n) /\ done[n] \notin s.globalReviews}
  IN  IF gaps = {} THEN NoRefresh
      ELSE [NoRefresh EXCEPT !.kind = "global_review", !.endChapter = done[Min(gaps)]]

\* Slip: off by one, the first chapter opens no arc.
HasArcFacts_FromTwo(s) ==
  s.progress.layered /\ LatestCompleted(s.progress) > 1 /\ s.volumes # <<>>

HasArcFacts(s) ==
  s.progress.layered /\ LatestCompleted(s.progress) > 0 /\ s.volumes # <<>>

AssembleState(s) ==
  LET p       == s.progress
      last    == LatestCompleted(p)
      layered == HasArcFacts(s)
      flat    == ~p.layered /\ last > 0
      b       == IF layered THEN CheckArcBoundary(s.volumes, last) ELSE NoBoundary
  IN  [ progress |-> p, planningTier |-> s.tier, foundationMissing |-> FoundationMissing(s),
        lastCompleted |-> last, immediateFeedbackCount |-> 0,
        aggregateRefresh |-> IF layered THEN LayeredRefresh(s)
                             ELSE IF flat THEN FlatRefresh(s) ELSE NoRefresh,
        arcBoundary |-> b,
        hasArcReview |-> b.isArcEnd /\ last \in s.arcReviews,
        hasArcSummary |-> b.isArcEnd /\ <<b.volume, b.arc>> \in s.arcSummaries,
        hasVolumeSummary |-> b.isVolumeEnd /\ b.volume \in s.volumeSummaries,
        hasGlobalReview |-> flat /\ ShouldReview(Len(p.completed)) /\ last \in s.globalReviews ]

-----------------------------------------------------------------------------
(* Instructions.  Two are the same to the deadlock and retry counters when  *)
(* agent and task text agree: `kind` names the sentence, `missing` and `at` *)
(* are what it is filled with.  `chapter` is 0 where the code leaves it out. *)

Instruction(agent, kind, missing, at, chapter) ==
  [agent |-> agent, kind |-> kind, missing |-> missing, at |-> at, chapter |-> chapter]

NoInstruction == Instruction("", "none", {}, <<>>, 0)

\* The sentence for a review that was missed differs from that for one that is
\* due; the sentence for a summary is the same.
RefreshKind == [arc_review |-> "refresh_arc_review", arc_summary |-> "arc_summary",
                volume_summary |-> "volume_summary", global_review |-> "refresh_global_review"]

RefreshInstruction(r) ==
  Instruction("editor", RefreshKind[r.kind], {},
              CASE r.kind = "arc_review"     -> <<r.volume, r.arc, r.startChapter, r.endChapter>>
                [] r.kind = "arc_summary"    -> <<r.volume, r.arc>>
                [] r.kind = "volume_summary" -> <<r.volume>>
                [] r.kind = "global_review"  -> <<r.endChapter>>,
              0)

\* The arc-end duties, in order; NoInstruction when the arc end has none left.
ArcEndInstruction(f) ==
  LET b == f.arcBoundary
  IN  IF ~f.hasArcReview
      THEN Instruction("editor", "arc_review", {},
                       <<b.volume, b.arc, b.startChapter, b.endChapter>>, 0)
      ELSE IF ~f.hasArcSummary
      THEN Instruction("editor", "arc_summary", {}, <<b.volume, b.arc>>, 0)
      ELSE IF b.isVolumeEnd /\ ~f.hasVolumeSummary
      THEN Instruction("editor", "volume_summary", {}, <<b.volume>>, 0)
      ELSE IF b.needsExpansion /\ b.nextArc > 0
      THEN Instruction("architect_long", "expand_arc", {}, <<b.nextVolume, b.nextArc>>, 0)
      ELSE IF b.needsNewVolume
      THEN Instruction("architect_long", "new_volume", {}, <<>>, 0)
      ELSE NoInstruction

\* Nothing else is due: the next chapter, or the end of a flat outline.
NextChapterInstruction(f) ==
  LET p == f.progress
      n == NextChapter(p)
  IN  IF ~p.layered /\ p.total > 0 /\ n > p.total
      THEN Instruction(PlannerForTier(f.planningTier), "outline_done", {},
                       <<Len(p.completed), p.total, n>>, 0)
      ELSE Instruction("writer", "write", {}, <<>>, n)

WritingInstruction(f) ==
  LET p == f.progress
  IN  IF p.pending # <<>>
      THEN Instruction("writer", IF p.flow = "polishing" THEN "polish" ELSE "rewrite",
                       {}, <<>>, p.pending[1])
      ELSE IF p.flow \in {"reviewing", "steering"} THEN NoInstruction
      ELSE IF f.aggregateRefresh # NoRefresh THEN RefreshInstruction(f.aggregateRefresh)
      ELSE IF f.immediateFeedbackCount > 0
      THEN Instruction(PlannerForTier(f.planningTier), "feedback", {}, <<>>, 0)
      ELSE IF p.layered /\ f.arcBoundary.isArcEnd /\ ArcEndInstruction(f) # NoInstruction
      THEN ArcEndInstruction(f)
      ELSE IF ~p.layered /\ f.lastCompleted > 0 /\ ShouldReview(Len(p.completed))
              /\ ~f.hasGlobalReview
      THEN Instruction("editor", "global_review", {}, <<f.lastCompleted>>, 0)
      ELSE NextChapterInstruction(f)

RouteOf(f) ==
  CASE f.progress.phase = "complete" -> NoInstruction
    [] f.progress.phase = "writing"  -> WritingInstruction(f)
    [] f.progress.phase \notin {"writing", "complete"} ->
         IF f.foundationMissing # {} /\ f.planningTier # ""
         THEN Instruction(PlannerForTier(f.planningTier), "fill", f.foundationMissing, <<>>, 0)
         ELSE NoInstruction
=============================================================================

-------------------------------- MODULE Book --------------------------------
(***************************************************************************)
(* The store effects of every tool a worker can call, translated from      *)
(* src/src/workers/tools.ts, and the specification of a book.  A refused   *)
(* call throws, and so ends its worker.                                    *)
(***************************************************************************)
EXTENDS BookLoop

AdvancePhase(s, to) ==
  IF CanTransitionPhase(to, s.progress.phase) THEN s ELSE [s EXCEPT !.progress.phase = to]

PhaseIs(s, phases) == s.progress.phase \in phases

-----------------------------------------------------------------------------
(* Architect: the foundation. *)

SaveBook ==
  /\ Calls(Architects, "save_book")
  /\ Reply(TRUE, <<[store EXCEPT !.files = @ \cup {"book"}]>>)

\* save_foundation stores a given scale before it looks at anything else, also
\* when it then refuses the call.
Scaled(scale) == IF scale = "" THEN store ELSE [store EXCEPT !.tier = scale]

ReplyScaled(scale, ok, writes) ==
  Reply(ok, (IF scale = "" THEN <<>> ELSE <<Scaled(scale)>>) \o writes)

ScaleArgs == {""} \cup (IF Cooperative THEN {} ELSE Scales)

\* Content that does not parse, or an append or a completion without a reason.
SaveFoundationRefused(scale) ==
  /\ ~Cooperative /\ Calls(Architects, "save_foundation")
  /\ ReplyScaled(scale, FALSE, <<>>)

SavePremise(scale) ==
  /\ Calls(Architects, "premise")
  /\ LET s1 == [Scaled(scale) EXCEPT !.files = @ \cup {"premise"}]
     IN  ReplyScaled(scale, TRUE, <<s1, AdvancePhase(s1, "premise")>>)

SaveOutline(scale, n) ==
  /\ Calls(Architects, "outline")
  /\ IF PhaseIs(store, {"writing", "complete"})
     THEN ReplyScaled(scale, FALSE, <<>>)
     ELSE LET s1 == [Scaled(scale) EXCEPT !.outlined = n]
              s2 == AdvancePhase(s1, "outline")
              s3 == [s2 EXCEPT !.progress.total = n, !.progress.layered = FALSE]
          IN  ReplyScaled(scale, TRUE, <<s1, s2, s3>>)

\* saveLayeredViews: layered_outline.json first, then the flat view of it.
LayeredViews(s, vols) ==
  LET repaired == RepairMissingLayeredIndexes(vols)
      s1       == [s EXCEPT !.volumes = repaired]
  IN  <<s1, [s1 EXCEPT !.outlined = FlattenedLength(repaired)]>>

WithCapacity(s, vols) ==
  [s EXCEPT !.progress.total = EstimatedChapterCapacity(vols), !.progress.layered = TRUE]

\* Bound: outlines that fit the model.
Fits(vols) == EstimatedChapterCapacity(vols) \in 0..MaxChapter

SaveLayeredOutline(scale, vols) ==
  /\ Calls(Architects, "layered_outline") /\ Fits(vols)
  /\ IF \/ PhaseIs(store, {"writing", "complete"})
        \/ vols = <<>> \/ vols[1].arcs = <<>> \/ ~IsArcExpanded(vols[1].arcs[1])
     THEN ReplyScaled(scale, FALSE, <<>>)
     ELSE LET views == LayeredViews(Scaled(scale), vols)
              s3    == AdvancePhase(views[2], "outline")
          IN  ReplyScaled(scale, TRUE, views \o <<s3, WithCapacity(s3, vols)>>)

SaveList(scale, file) ==
  /\ Calls(Architects, file)
  /\ ReplyScaled(scale, TRUE, <<[Scaled(scale) EXCEPT !.files = @ \cup {file}]>>)

\* The model may have read another fingerprint, or find issues (ready FALSE);
\* the audit file itself is read by nobody.
AuditFoundation(current, ready) ==
  /\ Calls(Architects, "audit_foundation")
  /\ Cooperative => current /\ ready
  /\ IF ~(FoundationMissing(store) \subseteq {"foundation_audit"}) \/ ~current
     THEN Reply(FALSE, <<>>)
     ELSE Reply(TRUE, IF ready THEN <<AdvancePhase(store, "writing")>> ELSE <<>>)

-----------------------------------------------------------------------------
(* Architect: the end of an arc, of a volume, of the book. *)

\* The volume is parsed against the outline there is, by every call anew.
AppendVolume(scale, raw) ==
  /\ Calls(Architects, "append_volume")
  /\ LET s0       == Scaled(scale)
         volume   == ParseVolumeOutline(raw, Len(s0.volumes) + 1)
         appended == AppendVolumePlan(s0.volumes, volume)
     IN  /\ Fits(appended.vols)
         /\ IF PhaseIs(s0, {"complete"}) \/ ~s0.progress.layered \/ ~appended.ok
            THEN ReplyScaled(scale, FALSE, <<>>)
            ELSE LET views == LayeredViews(s0, appended.vols)
                 IN  ReplyScaled(scale, TRUE,
                                 Append(views, WithCapacity(views[2], appended.vols)))

\* A layered book counts the chapters of its expanded arcs, a flat one its total.
OutlinedChapters(s) ==
  IF s.progress.layered THEN FlattenedLength(s.volumes) ELSE s.progress.total

Completed(s) == [s EXCEPT !.progress.phase = "complete"]

CompleteBook(scale) ==
  /\ Calls(Architects, "complete_book")
  /\ LET s0 == Scaled(scale)
     IN  IF MayComplete(s0.progress, OutlinedChapters(s0))
         THEN ReplyScaled(scale, TRUE, <<Completed(s0)>>)
         ELSE ReplyScaled(scale, FALSE, <<>>)

ExpandNextArc(e) ==
  /\ Calls(Architects, "expand_next_arc")
  /\ LET p        == store.progress
         expanded == ExpandArcAt(store.volumes, LatestCompleted(p), e.size, e.plan)
     IN  /\ Fits(expanded.vols)
         /\ IF ~p.layered \/ store.volumes = <<>> \/ ~expanded.ok
            THEN Reply(FALSE, <<>>)
            ELSE LET views == LayeredViews(store, expanded.vols)
                 IN  Reply(TRUE, Append(views, WithCapacity(views[2], expanded.vols)))

-----------------------------------------------------------------------------
(* Writer. *)

ChapterArgs ==
  IF Adversary THEN Numbers ELSE {inst.chapter} \cap Numbers

DraftChapter(ch) ==
  /\ Calls({"writer"}, "draft_chapter")
  /\ Reply(TRUE, <<[store EXCEPT !.drafts = @ \cup {ch}]>>)

\* Slip: any drafted chapter may be committed.
CommitRefused_AnyChapter(s, ch) == s.progress.phase # "writing" \/ ch \notin s.drafts

CommitRefused(s, ch) ==
  s.progress.phase # "writing" \/ ch # ExpectedChapter(s.progress) \/ ch \notin s.drafts

\* Slip: the progress record first.
CommitWrites_ProgressFirst(s, ch) ==
  LET s1 == [s EXCEPT !.progress = CommittedProgress(@, ch)]
      s2 == [s1 EXCEPT !.finals = @ \cup {ch}]
  IN  <<s1, s2, [s2 EXCEPT !.summaries = @ \cup {ch}]>>

\* The final text, then the progress record, then the summary.
CommitWrites(s, ch) ==
  LET s1 == [s EXCEPT !.finals = @ \cup {ch}]
      s2 == [s1 EXCEPT !.progress = CommittedProgress(@, ch)]
  IN  <<s1, s2, [s2 EXCEPT !.summaries = @ \cup {ch}]>>

\* A completed chapter is skipped before anything but the phase is looked at.
CommitChapter(ch) ==
  /\ Calls({"writer"}, "commit_chapter")
  /\ IF PhaseIs(store, {"writing"}) /\ ch \in ToSet(store.progress.completed)
     THEN Reply(TRUE, <<>>)
     ELSE IF CommitRefused(store, ch) THEN Reply(FALSE, <<>>)
     ELSE Reply(TRUE, CommitWrites(store, ch))

-----------------------------------------------------------------------------
(* Editor. *)

\* Only an adversary reviews or summarises anything but what it was asked to.
ReviewArgs ==
  IF Adversary THEN {"arc", "global"} \X Numbers
  ELSE IF inst.kind \in {"arc_review", "refresh_arc_review"} THEN {<<"arc", Last(inst.at)>>}
  ELSE IF inst.kind \in {"global_review", "refresh_global_review"} THEN {<<"global", Last(inst.at)>>}
  ELSE {}

ArcReviewAccepts(s, ch, issues) ==
  LET b == CheckArcBoundary(s.volumes, ch)
  IN  /\ b.isArcEnd
      /\ \A i \in DOMAIN issues : issues[i] \in b.startChapter..b.endChapter

ReviewRefused(s, scope, ch, issues) ==
  \/ scope = "arc" /\ s.volumes # <<>> /\ ~ArcReviewAccepts(s, ch, issues)
  \/ s.progress.phase = "writing" /\ ch \notin ToSet(s.progress.completed)

\* The review file.
SavedReview(s, scope, ch) ==
  IF scope = "arc" THEN [s EXCEPT !.arcReviews = @ \cup {ch}]
                   ELSE [s EXCEPT !.globalReviews = @ \cup {ch}]

\* The review is written first; then the chapters to change replace the queue,
\* unless the flow may not change to `desired`: then the call throws.
SaveReview(scope, ch, issues, desired) ==
  /\ Calls({"editor"}, "save_review")
  /\ LET s1 == SavedReview(store, scope, ch)
         s2 == [s1 EXCEPT !.progress.pending = issues, !.progress.flow = desired]
     IN  IF ReviewRefused(store, scope, ch, issues) THEN Reply(FALSE, <<>>)
         ELSE IF issues = <<>> THEN Reply(TRUE, <<s1>>)
         ELSE IF CanTransitionFlow(store.progress.flow, desired) THEN Reply(TRUE, <<s1, s2>>)
         ELSE Reply(FALSE, <<s1>>)

NamesArc == inst.kind \in {"arc_review", "refresh_arc_review", "arc_summary"}

ArcArgs ==
  IF Adversary THEN VolumeIndexes \X ArcIndexes
  ELSE IF NamesArc THEN {<<inst.at[1], inst.at[2]>>} ELSE {}

\* A summary that exists is kept; a different one is refused.
SaveArcSummary(volume, arc, same) ==
  /\ Calls({"editor"}, "save_arc_summary")
  /\ IF <<volume, arc>> \in store.arcSummaries
     THEN Reply(same, <<>>)
     ELSE Reply(TRUE, <<[store EXCEPT !.arcSummaries = @ \cup {<<volume, arc>>}]>>)

VolumeArgs ==
  IF Adversary THEN VolumeIndexes
  ELSE IF NamesArc \/ inst.kind = "volume_summary" THEN {inst.at[1]} ELSE {}

\* Slip: the final volume is taken for written.
FinalVolumeIsWritten_Unread(s) ==
  /\ s.progress.layered /\ s.progress.pending = <<>> /\ s.progress.phase = "writing"
  /\ s.volumes # <<>> /\ Last(s.volumes).final

\* Slip: nothing completes by itself.
FinalVolumeIsWritten_Never(s) == FALSE

\* maybeCompleteFinalVolume
FinalVolumeIsWritten(s) ==
  /\ s.progress.layered /\ s.progress.pending = <<>> /\ s.progress.phase = "writing"
  /\ s.volumes # <<>> /\ Last(s.volumes).final
  /\ NextChapter(s.progress) > FlattenedLength(s.volumes)

SaveVolumeSummary(volume, same) ==
  /\ Calls({"editor"}, "save_volume_summary")
  /\ LET known == volume \in store.volumeSummaries
         s1    == [store EXCEPT !.volumeSummaries = @ \cup {volume}]
     IN  IF known /\ ~same THEN Reply(FALSE, <<>>)
         ELSE Reply(TRUE, (IF known THEN <<>> ELSE <<s1>>)
                          \o (IF FinalVolumeIsWritten(s1) THEN <<Completed(s1)>> ELSE <<>>))

-----------------------------------------------------------------------------
Architect ==
  \/ SaveBook
  \/ \E scale \in ScaleArgs :
       \/ SaveFoundationRefused(scale)
       \/ SavePremise(scale)
       \/ \E n \in FlatLengths : SaveOutline(scale, n)
       \/ \E vols \in LayeredPlans : SaveLayeredOutline(scale, vols)
       \/ \E file \in {"characters", "world_rules"} : SaveList(scale, file)
       \/ \E raw \in NewVolumes : AppendVolume(scale, raw)
       \/ CompleteBook(scale)
  \/ \E current, ready \in BOOLEAN : AuditFoundation(current, ready)
  \/ \E e \in Expansions : ExpandNextArc(e)

Writer ==
  \E ch \in ChapterArgs : DraftChapter(ch) \/ CommitChapter(ch)

Editor ==
  \/ \E r \in ReviewArgs, issues \in IssueLists, desired \in {"rewriting", "polishing"} :
       SaveReview(r[1], r[2], issues, desired)
  \/ \E a \in ArcArgs, same \in BOOLEAN : SaveArcSummary(a[1], a[2], same)
  \/ \E v \in VolumeArgs, same \in BOOLEAN : SaveVolumeSummary(v, same)

\* The engine and its workers; the user only starts runs.
EngineStep ==
  \/ LoadState \/ FinishRun \/ Dispatch \/ WorkerFailed
  \/ EndTurn \/ WorkerThrows \/ WriteNext \/ Consult
  \/ Architect \/ Writer \/ Editor

Runs == \E tier \in PlanTiers : StartRun(tier)

Next == Runs \/ EngineStep \/ Crash

Spec == Init /\ [][Next]_vars

\* A run that is started goes on; the language model answers every request.
FairRun == Spec /\ WF_vars(EngineStep)

\* And the user starts the next run until the book is complete.
FairBook == FairRun /\ WF_vars(Runs)
=============================================================================

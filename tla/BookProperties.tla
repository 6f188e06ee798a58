--------------------------- MODULE BookProperties ---------------------------
(***************************************************************************)
(* What must hold of a book that one engine writes, whatever the language  *)
(* model asks its tools to do and wherever the process dies.               *)
(***************************************************************************)
EXTENDS Book

Done == ToSet(store.progress.completed)

-----------------------------------------------------------------------------
(* Safety. *)

\* A chapter the progress record calls completed has its final text on disk, at
\* every moment and so after a crash: commit_chapter writes the text first.
CommittedHasFinal == Done \subseteq store.finals

\* Writing starts only on a whole foundation, and no later call or crash takes
\* a part of it away (audit_foundation, the phase guards of save_foundation).
WritingHasFoundation ==
  store.progress.phase \in {"writing", "complete"} =>
    Artifacts \subseteq store.files /\ (store.outlined > 0 \/ store.volumes # <<>>)

\* The flow says "rewriting" or "polishing" exactly while chapters are queued:
\* a stale flow makes save_review refuse the next review (validateFlowTransition),
\* a lost one makes the router send the wrong instruction.
FlowMatchesQueue ==
  store.progress.flow \in {"rewriting", "polishing"} <=> store.progress.pending # <<>>

\* The reviews and summaries owed before chapter ch of a layered or flat book,
\* said over positions and chapter numbers, not over the boundary facts.
DuesPaid(ch) ==
  IF store.progress.layered
  THEN \A x \in Arcs(store.volumes) :
         IsArcExpanded(ArcAt(store.volumes, x)) /\ EndChapter(store.volumes, x) < ch =>
           /\ EndChapter(store.volumes, x) \in store.arcReviews
           /\ <<store.volumes[x[1]].index, ArcAt(store.volumes, x).index>> \in store.arcSummaries
           /\ EndsVolume(store.volumes, x) =>
                store.volumes[x[1]].index \in store.volumeSummaries
  ELSE \A n \in 1..ch - 1 : n % ReviewInterval = 0 => n \in store.globalReviews

\* No new chapter is begun while a finished arc, volume or review interval
\* still lacks its review or summary, also one missed before a crash.
DuesBeforeWriting == pc = "work" /\ inst.kind = "write" => DuesPaid(inst.chapter)

\* The writer is never sent past the outline: a layered book stops at its
\* expanded arcs, a flat one at its total.
WriteInsideOutline ==
  pc = "work" /\ inst.kind = "write" =>
    \/ store.progress.layered /\ inst.chapter <= FlattenedLength(store.volumes)
    \/ ~store.progress.layered /\ store.progress.total = 0
    \/ ~store.progress.layered /\ inst.chapter <= store.progress.total

\* "The final volume completes by itself when written": the router asks nobody
\* for a volume after the final one.
FinalVolumeIsLast ==
  pc = "route" /\ next.kind = "new_volume" => ~Last(store.volumes).final

\* append_volume called again with the same volume, because its answer was lost
\* or the process died half-way, does not append the volume twice: no two volumes in
\* a row have the same title and text.  A volume supplied without a title is another
\* one to the second call, which names it by the number of volumes there are by then
\* (workers/tools.ts:249, store/layered.ts:410), and is appended again.
NoVolumeTwice ==
  \A v \in 1..Len(store.volumes) - 1 :
    store.volumes[v].title = store.volumes[v + 1].title =>
      store.volumes[v].plan # store.volumes[v + 1].plan

-----------------------------------------------------------------------------
(* Action properties. *)

\* The book becomes complete only when no chapter is queued for rework and every
\* chapter of the outline, as the progress record counts it, is committed.
CompletionIsEarned ==
  [][store.progress.phase # "complete" /\ store.progress.phase' = "complete" =>
       store.progress.pending = <<>> /\ 1..OutlinedChapters(store) \subseteq Done]_store

\* Growing the outline never renumbers what is written: an arc that holds a
\* committed chapter keeps its place, its first chapter and its length.
OutlineGrowsAhead ==
  [][\A x \in Arcs(store.volumes) :
       /\ store.progress.layered /\ IsArcExpanded(ArcAt(store.volumes, x))
       /\ StartChapter(store.volumes, x) <= LatestCompleted(store.progress)
       => /\ x \in Arcs(store'.volumes)
          /\ ArcAt(store'.volumes, x) = ArcAt(store.volumes, x)
          /\ StartChapter(store'.volumes, x) = StartChapter(store.volumes, x)]_store

-----------------------------------------------------------------------------
(* Liveness. *)

\* Every run ends, whatever the language model answers, if it answers at all:
\* turns, steps and repetitions are all limited, and a failure is retried once.
RunsEnd == pc = "loop" ~> pc = "idle"

\* With a model that follows its instructions and reviews that ask for nothing,
\* a book whose runs are restarted is finished.
BookIsFinished == <>(store.progress.phase = "complete")

\* "pendingRewrites: Engine Route queue for rewrite/polish after review": what
\* is queued is reworked and leaves the queue.
QueueDrains == store.progress.pending # <<>> ~> store.progress.pending = <<>>

-----------------------------------------------------------------------------
(* The abstract book. *)

Stage ==
  CASE store.progress.phase \in {"init", "premise", "outline"} -> "planning"
    [] store.progress.phase \in {"writing", "complete"}        -> store.progress.phase

M == INSTANCE Manuscript WITH
       Chapters <- Numbers,
       stage    <- Stage,
       written  <- Done,
       queue    <- ToSet(store.progress.pending)

\* The engine, its tools and its crashes implement the abstract book: a chapter is
\* committed as the next one or from the queue (commit_chapter), none out of turn
\* while others are queued, none is lost, and the book is completed only with an
\* empty queue (complete_book, maybeCompleteFinalVolume).
ImplementsManuscript == M!MSpec
=============================================================================

---------------------------- MODULE ProgressOps -----------------------------
(***************************************************************************)
(* The progress records the engine and the tools compute from the one they *)
(* have read: dispatching a writer, committing a chapter, completing the   *)
(* book.  They are pure; who reads and saves, and what happens in between, *)
(* is the matter of Book and of Engine.                                    *)
(***************************************************************************)
EXTENDS Domain

\* The queue or the list of completed chapters without chapter `ch`: filter, said
\* by the rank of what stays and not by recursion.
Without(chapters, ch) ==
  LET stays   == {i \in DOMAIN chapters : chapters[i] # ch}
      Rank(i) == Cardinality({j \in stays : j <= i})
  IN  [n \in 1..Cardinality(stays) |-> chapters[CHOOSE i \in stays : Rank(i) = n]]

\* currentChapter only moves up, and is at least `chapter` afterwards.
AdvanceCursor(p, chapter) == Max({p.current, chapter})

\* Slip: every dispatch of the writer resets the flow.
DispatchedProgress_Reset(p, chapter) ==
  [p EXCEPT !.current = AdvanceCursor(p, chapter), !.flow = "writing"]

\* dispatch() moves the cursor and leaves "reviewing" and "steering" behind.
DispatchedProgress(p, chapter) ==
  [p EXCEPT !.current = AdvanceCursor(p, chapter),
            !.flow = IF @ \in {"rewriting", "polishing"} THEN @ ELSE "writing"]

ExpectedChapter(p) == IF p.pending # <<>> THEN p.pending[1] ELSE NextChapter(p)

\* The progress a commit of `ch` saves.
CommittedProgress(p, ch) ==
  LET pending == Without(p.pending, ch)
  IN  [p EXCEPT !.phase = "writing",
                !.completed = Append(@, ch),
                !.pending = pending,
                !.current = AdvanceCursor(p, ch + 1),
                !.flow = IF pending # <<>> THEN @ ELSE "writing"]

-----------------------------------------------------------------------------
(* What the session's chapter calls save. *)

\* No progress record has been saved yet.
NoProgress == [EmptyProgress EXCEPT !.phase = "none"]

Early(p) == p.phase \in {"none", "init", "premise", "outline"}

\* A record to edit chapter `ch` under: made up, or moved on to "writing".
EnsuredProgress(p, ch) ==
  IF p = NoProgress
  THEN [EmptyProgress EXCEPT !.phase = "writing", !.total = ch, !.current = ch]
  ELSE [p EXCEPT !.phase = "writing", !.current = AdvanceCursor(p, ch)]

WithChapter(p, ch) == IF ch \in ToSet(p.completed) THEN p.completed ELSE Append(p.completed, ch)

\* Slip: an edit reopens a finished book.
EditedProgress_Reopens(p, ch) ==
  [p EXCEPT !.phase = "writing",
            !.completed = WithChapter(p, ch),
            !.current = AdvanceCursor(p, ch),
            !.total = Max({@, ch})]

\* saveFinal, and a commit with sessionOverride: the queue and the flow stay, a
\* finished book stays finished.
EditedProgress(p, ch) ==
  [p EXCEPT !.phase = IF @ = "complete" THEN @ ELSE "writing",
            !.completed = WithChapter(p, ch),
            !.current = AdvanceCursor(p, ch),
            !.total = Max({@, ch})]

\* Slip: the chapter stays completed.
DroppedProgress_Completed(p, ch) ==
  [p EXCEPT !.pending = Without(@, ch)]

\* Slip: the later chapters go with it.
DroppedProgress_Later(p, ch) ==
  [p EXCEPT !.completed = SelectSeq(@, LAMBDA c : c < ch),
            !.pending = Without(@, ch)]

\* Slip: the chapter stays queued for rework.
DroppedProgress_Queued(p, ch) ==
  LET completed == Without(p.completed, ch)
  IN  [p EXCEPT !.phase = IF @ = "complete" /\ completed # p.completed THEN "writing" ELSE @,
                !.completed = completed,
                !.current = IF @ = ch THEN Max({0} \cup ToSet(completed)) ELSE @]

\* Deleting a chapter; a finished book that loses one goes back to writing.
DroppedProgress(p, ch) ==
  LET completed == Without(p.completed, ch)
  IN  [p EXCEPT !.phase = IF @ = "complete" /\ completed # p.completed THEN "writing" ELSE @,
                !.completed = completed,
                !.pending = Without(@, ch),
                !.current = IF @ = ch THEN Max({0} \cup ToSet(completed)) ELSE @]

-----------------------------------------------------------------------------
\* complete_book: nothing queued, something written, nothing outlined unwritten.
MayComplete(p, outlined) ==
  /\ p.phase = "writing" /\ p.pending = <<>> /\ p.completed # <<>>
  /\ NextChapter(p) > outlined
=============================================================================

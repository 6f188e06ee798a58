------------------------------ MODULE Chapters -------------------------------
(***************************************************************************)
(* The chapters of one book under the calls of src/src/session/chapter.ts: *)
(* saveFinal, write and delete, next to the automatic writing of the       *)
(* engine.  A call reads the progress record, writes files, and saves the  *)
(* record it computed from what it had read; other calls run at each of    *)
(* these awaits.  write, delete and automatic writing exclude each other   *)
(* (LongCallsExclude of Session); saveFinal takes no lock.                 *)
(*                                                                         *)
(* The process may die between two accesses; the files stay.               *)
(***************************************************************************)
EXTENDS ProgressOps

CONSTANTS
  Slots,        \* bound: calls in flight at once
  MaxChapter,   \* bound: chapters
  Starts,       \* progress records the book may have to begin with
  Overlap,      \* TRUE: saveFinal is called while another call is in flight
  Crashes       \* TRUE: the process may die at any moment

Numbers == 1..MaxChapter

ASSUME ChapterAssumption == MaxChapter \in Nat \ {0} /\ Overlap \in BOOLEAN /\ Crashes \in BOOLEAN
ASSUME StartAssumption == Starts \subseteq Progress(Numbers, Numbers) \cup {NoProgress}

VARIABLES
  progress,     \* meta/progress.json
  drafts, finals, summaries,    \* chapters that have such a file
  call,         \* the call in each slot
  kept,         \* history: chapters a call has resolved for, and nobody deletes
  halfDeleted   \* history: chapters whose deletion has begun and is not through

files == <<drafts, finals, summaries>>
vars == <<progress, drafts, finals, summaries, call, kept, halfDeleted>>

Kinds == {"saveFinal", "write", "delete", "auto"}
Modes == {"create", "overwrite", "continue", "rewrite", "polish"}

\* Where a call stands: the access it makes next, or "ask" for the model.
Places == {"none", "check", "load", "open", "ask", "read", "text", "record", "summary",
           "dispatch", "draft", "final", "note", "reload", "drop"}

\* chapter: the one the call is for; ch: the one it is busy with; seen: the
\* record it has read.
Idle == [kind |-> "none", at |-> "none", chapter |-> 0, ch |-> 0, seen |-> NoProgress]

Done(p) == ToSet(p.completed)

Init ==
  /\ progress \in Starts
  /\ drafts = {} /\ finals = Done(progress) /\ summaries = finals
  /\ call = [s \in Slots |-> Idle]
  /\ kept = {} /\ halfDeleted = {}

-----------------------------------------------------------------------------
(* Steps that calls are made of. *)

At(s, kinds, place) == call[s].kind \in kinds /\ call[s].at = place

Goes(s, place) == call' = [call EXCEPT ![s].at = place]

\* The call reads the record, and goes on.
Reads(s, place) == call' = [call EXCEPT ![s].at = place, ![s].seen = progress]

\* The call is over, or throws.
Ends(s) == call' = [call EXCEPT ![s] = Idle]

Locked == {"write", "delete", "auto"}

\* The session's busy flag; without Overlap the host awaits every call.
MayStart(kind) ==
  \A t \in Slots : \/ call[t].kind = "none"
                   \/ Overlap /\ ~({kind, call[t].kind} \subseteq Locked)

\* What the engine routes to: the head of the queue, or the next chapter.
Routed(p) ==
  p.phase = "writing" /\ (p.pending # <<>> \/ NextChapter(p) <= p.total)

Begins(s, kind, place, ch) ==
  /\ call[s] = Idle /\ MayStart(kind)
  /\ call' = [call EXCEPT ![s] = [Idle EXCEPT !.kind = kind, !.at = place, !.chapter = ch, !.ch = ch]]
  /\ UNCHANGED <<progress, files>>

Start(s) ==
  \/ \E ch \in Numbers :
       \/ Begins(s, "saveFinal", "load", ch) /\ UNCHANGED <<kept, halfDeleted>>
       \/ Begins(s, "write", "check", ch) /\ UNCHANGED <<kept, halfDeleted>>
       \/ /\ Begins(s, "delete", "draft", ch)
          /\ kept' = kept \ {ch} /\ halfDeleted' = halfDeleted \cup {ch}
  \/ /\ Routed(progress)
     /\ Begins(s, "auto", "load", ExpectedChapter(progress))
     /\ UNCHANGED <<kept, halfDeleted>>

-----------------------------------------------------------------------------
(* chapter.write: its preconditions, then the writer's tools. *)

\* "overwrite" is "create" with force.
Conflict(mode, ch) ==
  \/ mode = "create" /\ ch \in finals
  \/ mode = "continue" /\ (ch \in finals \/ ch \notin drafts)
  \/ mode \in {"rewrite", "polish"} /\ ch \notin finals

Check(s) ==
  /\ At(s, {"write"}, "check")
  /\ \E mode \in Modes : IF Conflict(mode, call[s].chapter) THEN Ends(s) ELSE Goes(s, "load")
  /\ UNCHANGED <<progress, files, kept, halfDeleted>>

\* ensureWritingProgress, and the engine's dispatch.
Load(s) ==
  /\ call[s].at = "load"
  /\ CASE call[s].kind = "auto"      -> Reads(s, "dispatch")
       [] call[s].kind = "write"     -> Reads(s, IF Early(progress) THEN "open" ELSE "ask")
       [] call[s].kind = "saveFinal" -> Reads(s, IF Early(progress) THEN "open" ELSE "text")
  /\ UNCHANGED <<progress, files, kept, halfDeleted>>

Open(s) ==
  /\ call[s].at = "open"
  /\ progress' = EnsuredProgress(call[s].seen, call[s].chapter)
  /\ Goes(s, IF call[s].kind = "write" THEN "ask" ELSE "text")
  /\ UNCHANGED <<files, kept, halfDeleted>>

Dispatch(s) ==
  /\ At(s, {"auto"}, "dispatch")
  /\ progress' = DispatchedProgress(call[s].seen, call[s].chapter)
  /\ Goes(s, "ask")
  /\ UNCHANGED <<files, kept, halfDeleted>>

\* draft_chapter, for whatever chapter the model names.
Draft(s, ch) ==
  /\ At(s, {"write", "auto"}, "ask")
  /\ drafts' = drafts \cup {ch}
  /\ UNCHANGED <<progress, finals, summaries, call, kept, halfDeleted>>

\* The first part of commit_chapter; only chapter.write overrides the order.
Commit(s, ch) ==
  /\ At(s, {"write", "auto"}, "ask")
  /\ IF progress = NoProgress THEN Ends(s)
     ELSE IF call[s].kind = "write"
     THEN call' = [call EXCEPT ![s].at = "read", ![s].ch = ch, ![s].seen = progress]
     ELSE IF progress.phase # "writing" THEN Ends(s)
     ELSE IF ch \in Done(progress) THEN UNCHANGED call
     ELSE IF ch # ExpectedChapter(progress) THEN Ends(s)
     ELSE call' = [call EXCEPT ![s].at = "read", ![s].ch = ch, ![s].seen = progress]
  /\ UNCHANGED <<progress, files, kept, halfDeleted>>

Read(s) ==
  /\ call[s].at = "read"
  /\ IF call[s].ch \in drafts THEN Goes(s, "text") ELSE Ends(s)
  /\ UNCHANGED <<progress, files, kept, halfDeleted>>

\* The model is done, with or without the chapter it was asked for, or the model,
\* a tool or the turn limit fails; the engine's worker likewise.
EndWrite(s) ==
  /\ At(s, {"write", "auto"}, "ask")
  /\ Ends(s)
  /\ UNCHANGED <<progress, files, kept, halfDeleted>>

-----------------------------------------------------------------------------
(* Text, record, summary: saveFinal and commit_chapter. *)

\* saveFinal reads the record again once the text is there.
Text(s) ==
  /\ call[s].at = "text"
  /\ finals' = finals \cup {call[s].ch}
  /\ Goes(s, IF call[s].kind = "saveFinal" THEN "reload" ELSE "record")
  /\ UNCHANGED <<progress, drafts, summaries, kept, halfDeleted>>

Reload(s) ==
  /\ At(s, {"saveFinal"}, "reload")
  /\ Reads(s, "record")
  /\ UNCHANGED <<progress, files, kept, halfDeleted>>

Record(s) ==
  /\ call[s].at = "record"
  /\ progress' = IF call[s].kind = "auto" THEN CommittedProgress(call[s].seen, call[s].ch)
                                          ELSE EditedProgress(call[s].seen, call[s].ch)
  /\ Goes(s, "summary")
  /\ UNCHANGED <<files, kept, halfDeleted>>

Deleting == {call[t].chapter : t \in {u \in Slots : call[u].kind = "delete"}}

\* saveFinal resolves, commit_chapter answers that the chapter is saved.
Summary(s) ==
  /\ call[s].at = "summary"
  /\ summaries' = summaries \cup {call[s].ch}
  /\ IF call[s].kind = "saveFinal" THEN Ends(s) ELSE Goes(s, "ask")
  /\ kept' = kept \cup ({call[s].ch} \ Deleting)
  /\ halfDeleted' = halfDeleted \ ({call[s].ch} \ Deleting)
  /\ UNCHANGED <<progress, drafts, finals>>

-----------------------------------------------------------------------------
(* chapter.delete: the files, then the record. *)

RemoveFile(s) ==
  /\ call[s].kind = "delete"
  /\ \/ call[s].at = "draft" /\ drafts' = drafts \ {call[s].ch} /\ Goes(s, "final")
        /\ UNCHANGED <<finals, summaries>>
     \/ call[s].at = "final" /\ finals' = finals \ {call[s].ch} /\ Goes(s, "note")
        /\ UNCHANGED <<drafts, summaries>>
     \/ call[s].at = "note" /\ summaries' = summaries \ {call[s].ch} /\ Goes(s, "reload")
        /\ UNCHANGED <<drafts, finals>>
  /\ UNCHANGED <<progress, kept, halfDeleted>>

ReadDrop(s) ==
  /\ At(s, {"delete"}, "reload")
  /\ IF progress = NoProgress
     THEN Ends(s) /\ halfDeleted' = halfDeleted \ {call[s].ch}
     ELSE Reads(s, "drop") /\ UNCHANGED halfDeleted
  /\ UNCHANGED <<progress, files, kept>>

Drop(s) ==
  /\ At(s, {"delete"}, "drop")
  /\ progress' = DroppedProgress(call[s].seen, call[s].ch)
  /\ Ends(s)
  /\ halfDeleted' = halfDeleted \ {call[s].ch}
  /\ UNCHANGED <<files, kept>>

-----------------------------------------------------------------------------
Crash ==
  /\ Crashes
  /\ call' = [s \in Slots |-> Idle]
  /\ UNCHANGED <<progress, files, kept, halfDeleted>>

CallStep(s) ==
  \/ Check(s) \/ Load(s) \/ Open(s) \/ Dispatch(s) \/ Read(s) \/ EndWrite(s)
  \/ \E ch \in Numbers : Draft(s, ch) \/ Commit(s, ch)
  \/ Text(s) \/ Reload(s) \/ Record(s) \/ Summary(s)
  \/ RemoveFile(s) \/ ReadDrop(s) \/ Drop(s)

Next == Crash \/ \E s \in Slots : Start(s) \/ CallStep(s)

Spec == Init /\ [][Next]_vars

-----------------------------------------------------------------------------
\* A chapter the record calls completed has its final text, unless its deletion
\* was begun: every call writes the text before the record.
CompletedHasText == Done(progress) \subseteq finals \cup halfDeleted

\* A chapter that saveFinal, chapter.write or the engine has reported saved stays
\* completed, with its text, until somebody deletes it.
KeptStays == kept \subseteq Done(progress) \cap finals

\* A deletion that is not cut short leaves nothing of the chapter, whatever an
\* earlier one that was cut short has left.
DeletionIsThrough ==
  [][\A s \in Slots : call[s].kind = "delete" /\ call[s].ch \in halfDeleted \ halfDeleted' =>
       /\ call[s].ch \notin drafts' \cup finals' \cup summaries'
       /\ call[s].ch \notin Done(progress') \cup ToSet(progress'.pending)]_vars

\* Editing a finished book leaves it finished; only a deletion reopens it.
EditsKeepComplete ==
  [][progress.phase = "complete" /\ progress'.phase # "complete" =>
       \E s \in Slots : call[s].kind = "delete" /\ call[s].ch \in Done(progress)]_vars
=============================================================================

--------------------------- MODULE ChaptersProofs ----------------------------
(***************************************************************************)
(* The chapters of a book under the session's chapter calls, for any       *)
(* number of chapters and any start: when the host awaits each call before *)
(* the next one, a chapter called completed has its text, what a call has  *)
(* reported saved stays, and a deletion is through or begun again, though  *)
(* the process dies between any two accesses.                              *)
(***************************************************************************)
EXTENDS Chapters, OperatorProofs

-----------------------------------------------------------------------------
(* One call at a time, on its path, with the record that is on disk.        *)

IsRecord(p) ==
  /\ DOMAIN p = {"phase", "flow", "current", "total", "completed", "pending", "layered"}
  /\ IsSequence(p.completed) /\ IsSequence(p.pending)

Paths ==
  [ none      |-> {"none"},
    saveFinal |-> {"load", "open", "text", "reload", "record", "summary"},
    write     |-> {"check", "load", "open", "ask", "read", "text", "record", "summary"},
    auto      |-> {"load", "dispatch", "ask", "read", "text", "record", "summary"},
    delete    |-> {"draft", "final", "note", "reload", "drop"} ]

CallType ==
  /\ DOMAIN call = Slots
  /\ \A s \in Slots :
       /\ DOMAIN call[s] = {"kind", "at", "chapter", "ch", "seen"}
       /\ call[s].kind \in DOMAIN Paths /\ call[s].at \in Paths[call[s].kind]

OneCall == \A s, t \in Slots : call[s].kind # "none" /\ call[t].kind # "none" => s = t

\* A call that will save a record made from the one it has read, and what made
\* it go on with it.
Fresh(s) ==
  /\ \/ call[s].at \in {"open", "dispatch", "read", "record", "drop"}
     \/ call[s].at = "text" /\ call[s].kind # "saveFinal"
     => call[s].seen = progress
  /\ call[s].at = "open" => Early(progress)
  /\ call[s].kind = "auto" /\ call[s].at \in {"read", "text", "record"}
     => progress.phase = "writing"

\* The text comes before the record, and the record before the answer.
Written(s) ==
  call[s].kind # "delete" =>
    /\ call[s].at \in {"reload", "record", "summary"} => call[s].ch \in finals
    /\ call[s].at = "summary" => call[s].ch \in Done(progress)

\* A deletion goes through the files one by one.
Removed(s) ==
  call[s].kind = "delete" =>
    /\ call[s].ch \in halfDeleted /\ call[s].ch \notin kept
    /\ call[s].at \in {"final", "note", "reload", "drop"} => call[s].ch \notin drafts
    /\ call[s].at \in {"note", "reload", "drop"} => call[s].ch \notin finals
    /\ call[s].at \in {"reload", "drop"} => call[s].ch \notin summaries

CallsInv == CallType /\ OneCall /\ \A s \in Slots : Fresh(s) /\ Written(s) /\ Removed(s)

ChaptersInv == IsRecord(progress) /\ CallsInv /\ CompletedHasText /\ KeptStays

-----------------------------------------------------------------------------
(* What the records that are saved say of the chapters.                     *)

LEMMA EmptyIsRecord == IsRecord(EmptyProgress) /\ IsRecord(NoProgress) /\ Done(NoProgress) = {}
<1>1. <<>> \in Seq({})
  OBVIOUS
<1>2. IsSequence(<<>>)
  BY <1>1 DEF IsSequence
<1>3. ToSet(<<>>) = {}
  BY DEF ToSet
<1> QED
  BY <1>2, <1>3 DEF EmptyProgress, NoProgress, IsRecord, Done

\* Opening the book for an edit and dispatching the writer complete nothing.
LEMMA OpenedRecord ==
  ASSUME NEW p, IsRecord(p), NEW ch
  PROVE  /\ IsRecord(EnsuredProgress(p, ch)) /\ Done(EnsuredProgress(p, ch)) = Done(p)
         /\ IsRecord(DispatchedProgress(p, ch)) /\ Done(DispatchedProgress(p, ch)) = Done(p)
         /\ DispatchedProgress(p, ch).phase = p.phase
<1>1. IsRecord(EnsuredProgress(p, ch)) /\ Done(EnsuredProgress(p, ch)) = Done(p)
  <2>1. CASE p = NoProgress
    BY <2>1, EmptyIsRecord DEF EnsuredProgress, EmptyProgress, NoProgress, IsRecord, Done
  <2>2. CASE p # NoProgress
    BY <2>2 DEF EnsuredProgress, IsRecord, Done
  <2> QED
    BY <2>1, <2>2
<1>2. /\ IsRecord(DispatchedProgress(p, ch)) /\ Done(DispatchedProgress(p, ch)) = Done(p)
      /\ DispatchedProgress(p, ch).phase = p.phase
  BY DEF DispatchedProgress, IsRecord, Done
<1> QED
  BY <1>1, <1>2

\* A commit and an edit complete the chapter they are for, and no other.
LEMMA WrittenRecord ==
  ASSUME NEW p, IsRecord(p), NEW ch
  PROVE  /\ IsRecord(CommittedProgress(p, ch)) /\ Done(CommittedProgress(p, ch)) = Done(p) \cup {ch}
         /\ IsRecord(EditedProgress(p, ch)) /\ Done(EditedProgress(p, ch)) = Done(p) \cup {ch}
         /\ p.phase = "complete" => EditedProgress(p, ch).phase = "complete"
<1>1. IsSequence(p.completed) /\ IsSequence(p.pending)
  BY DEF IsRecord
<1>2. IsRecord(CommittedProgress(p, ch)) /\ Done(CommittedProgress(p, ch)) = Done(p) \cup {ch}
  <2>1. /\ CommittedProgress(p, ch).completed = Append(p.completed, ch)
        /\ CommittedProgress(p, ch).pending = Without(p.pending, ch)
        /\ DOMAIN CommittedProgress(p, ch) = DOMAIN p
    BY DEF CommittedProgress, IsRecord
  <2> QED
    BY <1>1, <2>1, ListChanges DEF IsRecord, Done
<1>3. IsRecord(EditedProgress(p, ch)) /\ Done(EditedProgress(p, ch)) = Done(p) \cup {ch}
  <2>1. /\ EditedProgress(p, ch).completed = WithChapter(p, ch)
        /\ EditedProgress(p, ch).pending = p.pending
        /\ DOMAIN EditedProgress(p, ch) = DOMAIN p
    BY DEF EditedProgress, IsRecord
  <2>2. IsSequence(WithChapter(p, ch)) /\ ToSet(WithChapter(p, ch)) = ToSet(p.completed) \cup {ch}
    BY <1>1, ListChanges DEF WithChapter
  <2> QED
    BY <1>1, <2>1, <2>2 DEF IsRecord, Done
<1>4. p.phase = "complete" => EditedProgress(p, ch).phase = "complete"
  BY DEF EditedProgress, IsRecord
<1> QED
  BY <1>2, <1>3, <1>4

\* A deletion takes the chapter from both lists, and reopens only a book that has it.
LEMMA DroppedRecord ==
  ASSUME NEW p, IsRecord(p), NEW ch
  PROVE  /\ IsRecord(DroppedProgress(p, ch)) /\ Done(DroppedProgress(p, ch)) = Done(p) \ {ch}
         /\ ch \notin ToSet(DroppedProgress(p, ch).pending)
         /\ ch \notin Done(p) => DroppedProgress(p, ch).phase = p.phase
<1>1. IsSequence(p.completed) /\ IsSequence(p.pending)
  BY DEF IsRecord
<1>2. /\ DroppedProgress(p, ch).completed = Without(p.completed, ch)
      /\ DroppedProgress(p, ch).pending = Without(p.pending, ch)
      /\ DOMAIN DroppedProgress(p, ch) = DOMAIN p
      /\ Without(p.completed, ch) = p.completed => DroppedProgress(p, ch).phase = p.phase
  BY DEF DroppedProgress, IsRecord
<1> QED
  BY <1>1, <1>2, ListChanges DEF IsRecord, Done

-----------------------------------------------------------------------------
(* The steps of a call.                                                     *)

\* A call goes along its path, and leaves the others as they are.
LEMMA CallStepMoves ==
  ASSUME CallType, NEW s \in Slots, CallStep(s)
  PROVE  /\ CallType' /\ call[s].kind # "none"
         /\ \A t \in Slots : t # s => call'[t] = call[t]
         /\ call'[s].kind \in {"none", call[s].kind}
<1> USE DEF CallType, Paths, At, Goes, Reads, Ends, Idle
<1>1. CASE Check(s)
  BY <1>1 DEF Check
<1>2. CASE Load(s)
  <2>1. call[s].kind \in {"saveFinal", "write", "auto"}
    BY <1>2 DEF Load
  <2>2. PICK place \in Paths[call[s].kind] : Reads(s, place)
    <3>1. CASE call[s].kind = "auto"
      BY <1>2, <3>1 DEF Load
    <3>2. CASE call[s].kind = "write"
      BY <1>2, <3>2 DEF Load
    <3>3. CASE call[s].kind = "saveFinal"
      BY <1>2, <3>3 DEF Load
    <3> QED
      BY <2>1, <3>1, <3>2, <3>3
  <2> QED
    BY <2>1, <2>2
<1>3. CASE Open(s) \/ Dispatch(s)
  BY <1>3 DEF Open, Dispatch
<1>4. CASE Read(s) \/ EndWrite(s)
  BY <1>4 DEF Read, EndWrite
<1>5. ASSUME NEW ch \in Numbers, Draft(s, ch) \/ Commit(s, ch)
      PROVE  /\ CallType' /\ call[s].kind # "none"
             /\ \A t \in Slots : t # s => call'[t] = call[t]
             /\ call'[s].kind \in {"none", call[s].kind}
  BY <1>5 DEF Draft, Commit
<1>6. CASE Text(s) \/ Reload(s)
  BY <1>6 DEF Text, Reload
<1>7. CASE Record(s) \/ Summary(s)
  BY <1>7 DEF Record, Summary
<1>8. CASE RemoveFile(s)
  BY <1>8 DEF RemoveFile
<1>9. CASE ReadDrop(s) \/ Drop(s)
  BY <1>9 DEF ReadDrop, Drop
<1> QED
  BY <1>1, <1>2, <1>3, <1>4, <1>5, <1>6, <1>7, <1>8, <1>9 DEF CallStep

\* What becomes of the call itself.
LEMMA CallFields ==
  ASSUME CallType, NEW s \in Slots
  PROVE  /\ \A place : Goes(s, place) =>
              call'[s].at = place /\ call'[s].kind = call[s].kind
              /\ call'[s].ch = call[s].ch /\ call'[s].seen = call[s].seen
         /\ \A place : Reads(s, place) =>
              call'[s].at = place /\ call'[s].kind = call[s].kind
              /\ call'[s].ch = call[s].ch /\ call'[s].seen = progress
         /\ Ends(s) => call'[s] = Idle
BY DEF CallType, Goes, Reads, Ends

\* A commit that is taken up is for a chapter the model names, and for the record
\* as it is.
LEMMA CommitFields ==
  ASSUME CallType, NEW s \in Slots, NEW ch \in Numbers, Commit(s, ch)
  PROVE  \/ call'[s] = Idle \/ call' = call
         \/ /\ call'[s].kind = call[s].kind /\ call'[s].at = "read" /\ call'[s].seen = progress
            /\ call[s].kind = "auto" => progress.phase = "writing"
BY DEF CallType, Commit, Ends

LEMMA CallStepKeeps ==
  ASSUME ChaptersInv, NEW s \in Slots, CallStep(s)
  PROVE  ChaptersInv'
<1> DEFINE Local == /\ Fresh(s) /\ Written(s) /\ Removed(s)
                    /\ IsRecord(progress) /\ CompletedHasText /\ KeptStays
<1>1. CallType /\ Local
  BY DEF ChaptersInv, CallsInv
<1>2. /\ CallType' /\ call[s].kind # "none"
      /\ \A t \in Slots : t # s => call'[t] = call[t] /\ call'[t].kind = "none"
      /\ call'[s].kind \in {"none", call[s].kind}
  BY <1>1, CallStepMoves DEF ChaptersInv, CallsInv, OneCall
<1>3. ASSUME Local' PROVE ChaptersInv'
  <2>1. \A t \in Slots : t # s => call'[t].at = "none"
    BY <1>2 DEF CallType, Paths
  <2>2. \A t \in Slots : Fresh(t)' /\ Written(t)' /\ Removed(t)'
    BY <1>2, <1>3, <2>1 DEF Fresh, Written, Removed
  <2>3. OneCall'
    BY <1>2 DEF OneCall
  <2> QED
    BY <1>2, <1>3, <2>2, <2>3 DEF ChaptersInv, CallsInv
<1>4. call[s].kind \in {"saveFinal", "write", "auto", "delete"} /\ call[s].at \in Paths[call[s].kind]
  BY <1>1, <1>2 DEF CallType, Paths
<1>5. /\ \A place : Goes(s, place) =>
           call'[s].at = place /\ call'[s].kind = call[s].kind
           /\ call'[s].ch = call[s].ch /\ call'[s].seen = call[s].seen
      /\ \A place : Reads(s, place) =>
           call'[s].at = place /\ call'[s].kind = call[s].kind
           /\ call'[s].ch = call[s].ch /\ call'[s].seen = progress
      /\ Ends(s) => call'[s].kind = "none" /\ call'[s].at = "none"
  BY <1>1, CallFields DEF Idle
<1>6. CASE Check(s)
  BY <1>1, <1>3, <1>5, <1>6 DEF Check, At, files, Fresh, Written, Removed, CompletedHasText, KeptStays
<1>7. CASE Load(s)
  <2>1. /\ call[s].kind \in {"saveFinal", "write", "auto"}
        /\ UNCHANGED <<progress, drafts, finals, summaries, kept, halfDeleted>>
    BY <1>4, <1>7 DEF Load, Paths, files
  <2>2. \/ Reads(s, "ask") \/ Reads(s, "dispatch")
        \/ Reads(s, "open") /\ Early(progress)
        \/ Reads(s, "text") /\ call[s].kind = "saveFinal"
    BY <1>7, <2>1 DEF Load
  <2>3. Fresh(s)' /\ Written(s)' /\ Removed(s)'
    BY <1>5, <2>1, <2>2 DEF Fresh, Early, Written, Removed
  <2> QED
    BY <1>1, <1>3, <2>1, <2>3 DEF CompletedHasText, KeptStays
<1>8. CASE Open(s) \/ Dispatch(s)
  <2>1. call[s].seen = progress /\ UNCHANGED <<files, kept, halfDeleted>>
    BY <1>1, <1>8 DEF Open, Dispatch, At, Fresh
  <2>2. IsRecord(progress') /\ Done(progress') = Done(progress)
    BY <1>1, <1>8, <2>1, OpenedRecord DEF Open, Dispatch
  <2>3. CompletedHasText' /\ KeptStays'
    BY <1>1, <2>1, <2>2 DEF files, CompletedHasText, KeptStays
  <2>4. Fresh(s)' /\ Written(s)' /\ Removed(s)'
    BY <1>4, <1>5, <1>8 DEF Open, Dispatch, At, Paths, Fresh, Written, Removed
  <2> QED
    BY <1>3, <2>2, <2>3, <2>4
<1>9. CASE Read(s) \/ EndWrite(s)
  BY <1>1, <1>3, <1>5, <1>9 DEF Read, EndWrite, At, files, Fresh, Written, Removed,
     CompletedHasText, KeptStays
<1>10. ASSUME NEW ch \in Numbers, Draft(s, ch) PROVE ChaptersInv'
  BY <1>1, <1>3, <1>10 DEF Draft, At, Fresh, Written, Removed, CompletedHasText, KeptStays
<1>11. ASSUME NEW ch \in Numbers, Commit(s, ch) PROVE ChaptersInv'
  <2>1. /\ UNCHANGED <<progress, files, kept, halfDeleted>>
        /\ call[s].kind \in {"write", "auto"}
    BY <1>11 DEF Commit, At
  <2>2. Fresh(s)' /\ Written(s)' /\ Removed(s)'
    BY <1>1, <1>11, <2>1, CommitFields DEF Idle, files, Fresh, Written, Removed
  <2> QED
    BY <1>1, <1>3, <2>1, <2>2 DEF files, CompletedHasText, KeptStays
<1>12. CASE Text(s)
  BY <1>1, <1>3, <1>4, <1>5, <1>12 DEF Text, Paths, Fresh, Written, Removed, CompletedHasText,
     KeptStays
<1>13. CASE Reload(s)
  BY <1>1, <1>3, <1>5, <1>13 DEF Reload, At, files, Fresh, Written, Removed, CompletedHasText,
     KeptStays
<1>14. CASE Record(s)
  <2>1. /\ call[s].seen = progress /\ call[s].kind # "delete" /\ call[s].ch \in finals
        /\ UNCHANGED <<files, kept, halfDeleted>>
    BY <1>1, <1>4, <1>14 DEF Record, Paths, Fresh, Written
  <2>2. IsRecord(progress') /\ Done(progress') = Done(progress) \cup {call[s].ch}
    BY <1>1, <1>14, <2>1, WrittenRecord DEF Record
  <2>3. CompletedHasText' /\ KeptStays'
    BY <1>1, <2>1, <2>2 DEF files, CompletedHasText, KeptStays
  <2>4. Fresh(s)' /\ Written(s)' /\ Removed(s)'
    BY <1>5, <1>14, <2>1, <2>2 DEF Record, files, Fresh, Written, Removed
  <2> QED
    BY <1>3, <2>2, <2>3, <2>4
<1>15. CASE Summary(s)
  <2>1. /\ call[s].ch \in finals /\ call[s].ch \in Done(progress)
        /\ call[s].kind # "delete"
        /\ UNCHANGED <<progress, drafts, finals>>
        /\ kept' \subseteq kept \cup {call[s].ch}
        /\ halfDeleted \subseteq halfDeleted' \cup {call[s].ch}
    BY <1>1, <1>4, <1>15 DEF Summary, Paths, Written
  <2>2. CompletedHasText' /\ KeptStays'
    BY <1>1, <2>1 DEF CompletedHasText, KeptStays
  <2>3. Fresh(s)' /\ Written(s)' /\ Removed(s)'
    BY <1>5, <1>15, <2>1 DEF Summary, Fresh, Written, Removed
  <2> QED
    BY <1>1, <1>3, <2>1, <2>2, <2>3
<1>16. CASE RemoveFile(s)
  BY <1>1, <1>3, <1>5, <1>16 DEF RemoveFile, Fresh, Written, Removed, CompletedHasText, KeptStays
<1>17. CASE ReadDrop(s)
  <2>1. progress = NoProgress => CompletedHasText'
    BY <1>17, EmptyIsRecord DEF ReadDrop, files, CompletedHasText
  <2> QED
    BY <1>1, <1>3, <1>5, <1>17, <2>1 DEF ReadDrop, At, files, Fresh, Written, Removed,
       CompletedHasText, KeptStays
<1>18. CASE Drop(s)
  <2>1. /\ call[s].seen = progress /\ call[s].ch \notin kept
        /\ UNCHANGED <<files, kept>> /\ halfDeleted' = halfDeleted \ {call[s].ch}
    BY <1>1, <1>18 DEF Drop, At, Fresh, Removed
  <2>2. IsRecord(progress') /\ Done(progress') = Done(progress) \ {call[s].ch}
    BY <1>1, <1>18, <2>1, DroppedRecord DEF Drop
  <2>3. CompletedHasText' /\ KeptStays'
    BY <1>1, <2>1, <2>2 DEF files, CompletedHasText, KeptStays
  <2> QED
    BY <1>3, <1>5, <1>18, <2>2, <2>3 DEF Drop, Fresh, Written, Removed
<1> QED
  BY <1>6, <1>7, <1>8, <1>9, <1>10, <1>11, <1>12, <1>13, <1>14, <1>15, <1>16, <1>17, <1>18
     DEF CallStep

\* A call that starts finds no other, and has read nothing.
LEMMA StartKeeps ==
  ASSUME ~Overlap, ChaptersInv, NEW s \in Slots, Start(s)
  PROVE  ChaptersInv'
<1>1. PICK kind \in {"saveFinal", "write", "delete", "auto"},
             ch \in Numbers \cup {ExpectedChapter(progress)} :
        /\ Begins(s, kind, CASE kind = "write" -> "check" [] kind = "delete" -> "draft"
                             [] kind \in {"saveFinal", "auto"} -> "load", ch)
        /\ \/ kind # "delete" /\ UNCHANGED <<kept, halfDeleted>>
           \/ kind = "delete" /\ kept' = kept \ {ch} /\ halfDeleted' = halfDeleted \cup {ch}
  <2>1. CASE \E ch \in Numbers : Begins(s, "saveFinal", "load", ch) /\ UNCHANGED <<kept, halfDeleted>>
    BY <2>1
  <2>2. CASE \E ch \in Numbers : Begins(s, "write", "check", ch) /\ UNCHANGED <<kept, halfDeleted>>
    BY <2>2
  <2>3. CASE \E ch \in Numbers : /\ Begins(s, "delete", "draft", ch)
                                 /\ kept' = kept \ {ch} /\ halfDeleted' = halfDeleted \cup {ch}
    BY <2>3
  <2>4. CASE Begins(s, "auto", "load", ExpectedChapter(progress)) /\ UNCHANGED <<kept, halfDeleted>>
    BY <2>4
  <2> QED
    BY <2>1, <2>2, <2>3, <2>4 DEF Start
<1>2. /\ \A t \in Slots : call[t].kind = "none" /\ call[t].at = "none"
      /\ \A t \in Slots : t # s => call'[t] = call[t]
      /\ call'[s].kind = kind /\ call'[s].ch = ch
      /\ call'[s].at \in Paths[kind] /\ call'[s].at \in {"check", "draft", "load"}
      /\ UNCHANGED <<progress, drafts, finals, summaries>>
  <2>1. \A t \in Slots : call[t].kind = "none"
    BY <1>1 DEF Begins, MayStart
  <2>2. \A t \in Slots : call[t].at = "none"
    BY <2>1 DEF ChaptersInv, CallsInv, CallType, Paths
  <2>3. PICK place \in {"check", "draft", "load"} :
          place \in Paths[kind] /\ Begins(s, kind, place, ch)
    <3>1. CASE kind = "write"
      BY <1>1, <3>1 DEF Paths
    <3>2. CASE kind = "delete"
      BY <1>1, <3>2 DEF Paths
    <3>3. CASE kind \in {"saveFinal", "auto"}
      BY <1>1, <3>3 DEF Paths
    <3> QED
      BY <3>1, <3>2, <3>3
  <2>4. /\ call' = [call EXCEPT ![s] = [Idle EXCEPT !.kind = kind, !.at = place, !.chapter = ch,
                                                     !.ch = ch]]
        /\ UNCHANGED <<progress, drafts, finals, summaries>>
    BY <2>3 DEF Begins, files
  <2> QED
    BY <2>1, <2>2, <2>3, <2>4 DEF ChaptersInv, CallsInv, CallType, Idle
<1>3. CallType'
  <2>1. call' = [call EXCEPT ![s] = call'[s]]
        /\ DOMAIN call'[s] = {"kind", "at", "chapter", "ch", "seen"}
    BY <1>1 DEF Begins, ChaptersInv, CallsInv, CallType, Idle
  <2> QED
    BY <1>2, <2>1 DEF ChaptersInv, CallsInv, CallType, Paths
<1>4. OneCall'
  BY <1>2 DEF OneCall
<1>5. \A t \in Slots : Fresh(t)' /\ Written(t)' /\ Removed(t)'
  BY <1>1, <1>2 DEF Fresh, Written, Removed
<1>6. CompletedHasText' /\ KeptStays'
  BY <1>1, <1>2 DEF ChaptersInv, CompletedHasText, KeptStays
<1> QED
  BY <1>2, <1>3, <1>4, <1>5, <1>6 DEF ChaptersInv, CallsInv

LEMMA ChaptersInvInductive ==
  ASSUME ~Overlap
  PROVE  Spec => []ChaptersInv
<1>1. Init => ChaptersInv
  <2> SUFFICES ASSUME Init PROVE ChaptersInv
    OBVIOUS
  <2>1. IsRecord(progress)
    BY StartAssumption, EmptyIsRecord DEF Init, Progress, IsRecord, IsSequence
  <2> QED
    BY <2>1 DEF Init, Idle, ChaptersInv, CallsInv, CallType, Paths, OneCall, Fresh, Written,
       Removed, CompletedHasText, KeptStays
<1>2. ChaptersInv /\ [Next]_vars => ChaptersInv'
  <2> SUFFICES ASSUME ChaptersInv, [Next]_vars PROVE ChaptersInv'
    OBVIOUS
  <2>1. CASE Crash
    BY <2>1 DEF Crash, Idle, files, ChaptersInv, CallsInv, CallType, Paths, OneCall, Fresh,
       Written, Removed, CompletedHasText, KeptStays
  <2>2. ASSUME NEW s \in Slots, Start(s) PROVE ChaptersInv'
    BY <2>2, StartKeeps
  <2>3. ASSUME NEW s \in Slots, CallStep(s) PROVE ChaptersInv'
    BY <2>3, CallStepKeeps
  <2>4. CASE UNCHANGED vars
    BY <2>4 DEF vars, ChaptersInv, CallsInv, CallType, OneCall, Fresh, Written, Removed,
       CompletedHasText, KeptStays
  <2> QED
    BY <2>1, <2>2, <2>3, <2>4 DEF Next
<1> QED
  BY <1>1, <1>2, PTL DEF Spec

\* A chapter the progress record calls completed has its final text, or was about
\* to be deleted, wherever the process has died.
THEOREM CompletedChaptersHaveText ==
  ASSUME ~Overlap
  PROVE  Spec => []CompletedHasText
<1>1. ChaptersInv => CompletedHasText
  BY DEF ChaptersInv
<1> QED
  BY <1>1, ChaptersInvInductive, PTL

\* What saveFinal, chapter.write or the engine has reported saved stays completed
\* and keeps its text until a deletion of it begins.
THEOREM ReportedChaptersStay ==
  ASSUME ~Overlap
  PROVE  Spec => []KeptStays
<1>1. ChaptersInv => KeptStays
  BY DEF ChaptersInv
<1> QED
  BY <1>1, ChaptersInvInductive, PTL

-----------------------------------------------------------------------------
(* What a step may not do.                                                  *)

\* A deletion that is through has removed the chapter from all three folders and
\* from both lists, even where one that was cut short had left it half deleted.
THEOREM DeletionsAreThrough ==
  ASSUME ~Overlap
  PROVE  Spec => DeletionIsThrough
<1> DEFINE Through ==
      \A s \in Slots : call[s].kind = "delete" /\ call[s].ch \in halfDeleted \ halfDeleted' =>
        /\ call[s].ch \notin drafts' \cup finals' \cup summaries'
        /\ call[s].ch \notin Done(progress') \cup ToSet(progress'.pending)
<1>1. ChaptersInv /\ [Next]_vars => [Through]_vars
  <2> SUFFICES ASSUME ChaptersInv, Next, NEW s \in Slots, call[s].kind = "delete",
                      call[s].ch \in halfDeleted, call[s].ch \notin halfDeleted'
               PROVE  /\ call[s].ch \notin drafts' \cup finals' \cup summaries'
                      /\ call[s].ch \notin Done(progress') \cup ToSet(progress'.pending)
    OBVIOUS
  <2>1. PICK t \in Slots : CallStep(t)
    <3>1. ~Crash
      BY DEF Crash
    <3>2. ASSUME NEW t \in Slots, Start(t) PROVE FALSE
      BY <3>2 DEF Start
    <3> QED
      BY <3>1, <3>2 DEF Next
  <2>2. t = s
    BY <2>1, CallStepMoves DEF ChaptersInv, CallsInv, OneCall
  <2>3. Fresh(s) /\ Removed(s) /\ IsRecord(progress) /\ call[s].at \in Paths["delete"]
    BY DEF ChaptersInv, CallsInv, CallType
  <2>4. ReadDrop(s) \/ Drop(s)
    BY <2>1, <2>2, <2>3 DEF CallStep, Check, Load, Open, Dispatch, Draft, Commit, Read, EndWrite,
       Text, Reload, Record, Summary, RemoveFile, At, Paths
  <2>5. CASE ReadDrop(s)
    <3>1. progress = NoProgress /\ UNCHANGED <<progress, drafts, finals, summaries>>
      BY <2>5 DEF ReadDrop, files
    <3>2. ToSet(NoProgress.pending) = {} /\ Done(NoProgress) = {}
      BY EmptyIsRecord DEF NoProgress, EmptyProgress, Done
    <3> QED
      BY <2>3, <2>5, <3>1, <3>2 DEF ReadDrop, At, Removed
  <2>6. CASE Drop(s)
    <3>1. progress' = DroppedProgress(progress, call[s].ch)
      BY <2>3, <2>6 DEF Drop, At, Fresh
    <3>2. UNCHANGED <<drafts, finals, summaries>>
      BY <2>6 DEF Drop, files
    <3>3. call[s].ch \notin drafts \cup finals \cup summaries
      BY <2>3, <2>6 DEF Drop, At, Removed
    <3>4. call[s].ch \notin Done(progress') \cup ToSet(progress'.pending)
      BY <2>3, <3>1, DroppedRecord
    <3> QED
      BY <3>2, <3>3, <3>4
  <2> QED
    BY <2>4, <2>5, <2>6
<1> QED
  BY <1>1, ChaptersInvInductive, PTL DEF Spec, DeletionIsThrough

\* saveFinal, chapter.write and a commit leave a finished book finished: the book
\* goes back to writing only when a chapter it counts as completed is deleted.
THEOREM EditsKeepFinished ==
  ASSUME ~Overlap
  PROVE  Spec => EditsKeepComplete
<1>1. ChaptersInv /\ [Next]_vars =>
        [progress.phase = "complete" /\ progress'.phase # "complete" =>
           \E s \in Slots : call[s].kind = "delete" /\ call[s].ch \in Done(progress)]_vars
  <2> SUFFICES ASSUME ChaptersInv, Next, progress.phase = "complete", progress'.phase # "complete"
               PROVE  \E s \in Slots : call[s].kind = "delete" /\ call[s].ch \in Done(progress)
    OBVIOUS
  <2>1. PICK s \in Slots : CallStep(s)
    <3>1. ~Crash
      BY DEF Crash
    <3>2. ASSUME NEW t \in Slots, Start(t) PROVE FALSE
      BY <3>2 DEF Start, Begins
    <3> QED
      BY <3>1, <3>2 DEF Next
  <2>2. /\ Fresh(s) /\ IsRecord(progress)
        /\ call[s].kind \in {"saveFinal", "write", "auto", "delete"}
        /\ call[s].at \in Paths[call[s].kind]
    BY <2>1, CallStepMoves DEF ChaptersInv, CallsInv, CallType, Paths
  <2>3. Open(s) \/ Dispatch(s) \/ Record(s) \/ Drop(s)
    BY <2>1 DEF CallStep, Check, Load, Draft, Commit, Read, EndWrite, Text, Reload, Summary,
       RemoveFile, ReadDrop
  <2>4. call[s].seen = progress /\ call[s].at # "open"
    BY <2>2, <2>3 DEF Open, Dispatch, Record, Drop, At, Fresh, Early
  <2>5. ~Open(s)
    BY <2>4 DEF Open
  <2>6. ~Dispatch(s)
    BY <2>2, <2>4, OpenedRecord DEF Dispatch
  <2>7. ~Record(s)
    <3>1. CASE call[s].kind = "auto"
      BY <2>2, <3>1 DEF Record, Fresh
    <3>2. CASE call[s].kind # "auto"
      BY <2>2, <2>4, <3>2, WrittenRecord DEF Record
    <3> QED
      BY <3>1, <3>2
  <2>8. CASE Drop(s)
    <3>1. call[s].kind = "delete" /\ progress' = DroppedProgress(progress, call[s].ch)
      BY <2>4, <2>8 DEF Drop, At
    <3>2. call[s].ch \in Done(progress)
      BY <2>2, <3>1, DroppedRecord
    <3> QED
      BY <3>1, <3>2
  <2> QED
    BY <2>3, <2>5, <2>6, <2>7, <2>8
<1> QED
  BY <1>1, ChaptersInvInductive, PTL DEF Spec, EditsKeepComplete
=============================================================================

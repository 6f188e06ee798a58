-------------------------- MODULE OpfsStoreProofs ---------------------------
(***************************************************************************)
(* A path of the OPFS store is an atomic file, with renaming or copying,     *)
(* failures and crashes anywhere, for any contents and any number of         *)
(* callers, as long as no two write the path at the same time.               *)
(***************************************************************************)
EXTENDS OpfsStore, TLAPS

Alone == \A s, t \in Slots : at[s] # "idle" /\ at[t] # "idle" => s = t

\* The temporary file holds what its write was given until it is renamed or read;
\* a removal is a write of Absent.
Carried ==
  \A s \in Slots :
    /\ at[s] \in {"move", "dest", "source"} => tmp = data[s]
    /\ at[s] \in CopyPlaces => seen[s] = data[s]
    /\ at[s] = "remove" => data[s] = Absent

StoreInv == TypeOK /\ Alone /\ Carried

LEMMA InitHasInv == Init => StoreInv
  BY DEF Init, StoreInv, TypeOK, Alone, Carried, Files, Places, TempPlaces, CopyPlaces

\* A call that is not idle is the only one, whatever it does next.
LEMMA StepKeepsInv ==
  ASSUME ~Overlap, StoreInv, [Next]_vars
  PROVE  StoreInv'
<1> USE ContentAssumption DEF StoreInv, TypeOK, Alone, Carried, Files, Places, TempPlaces, CopyPlaces
<1>1. CASE UNCHANGED vars
  BY <1>1 DEF vars
<1>2. CASE Crash
  BY <1>2 DEF Crash
<1>3. ASSUME NEW s \in Slots, NEW d \in Contents \cup {Absent}, Begin(s, d)
      PROVE  StoreInv'
  BY <1>3 DEF Begin
<1>4. ASSUME NEW s \in Slots, CallStep(s)
      PROVE  StoreInv'
  <2>1. CASE Handle(s)
    BY <2>1 DEF Handle, Goes, Ends
  <2>2. CASE Stream(s)
    BY <2>2 DEF Stream, Goes, Ends
  <2>3. CASE WriteTemp(s)
    BY <2>3 DEF WriteTemp, Goes
  <2>4. CASE CloseTemp(s)
    BY <2>4 DEF CloseTemp, Goes
  <2>5. CASE Abandon(s)
    BY <2>5 DEF Abandon, Goes
  <2>6. CASE Discard(s)
    BY <2>6 DEF Discard, Ends
  <2>7. CASE Move(s)
    BY <2>7 DEF Move, Goes, Ends
  <2>8. CASE Dest(s)
    BY <2>8 DEF Dest, Goes, Ends
  <2>9. CASE Source(s)
    BY <2>9 DEF Source, Goes, Ends
  <2>10. CASE DestStream(s)
    BY <2>10 DEF DestStream, Goes, Ends
  <2>11. CASE DestWrite(s)
    BY <2>11 DEF DestWrite, Goes, Ends
  <2>12. CASE DestClose(s)
    BY <2>12 DEF DestClose, Goes, Ends
  <2>13. CASE Unlink(s)
    BY <2>13 DEF Unlink, Ends
  <2>14. CASE Remove(s)
    BY <2>14 DEF Remove, Ends
  <2> QED
    BY <1>4, <2>1, <2>2, <2>3, <2>4, <2>5, <2>6, <2>7, <2>8, <2>9, <2>10, <2>11, <2>12, <2>13, <2>14
       DEF CallStep
<1> QED
  BY <1>1, <1>2, <1>3, <1>4 DEF Next

LEMMA StoreInvariant ==
  ASSUME ~Overlap
  PROVE  Spec => []StoreInv
<1>1. StoreInv /\ [Next]_vars => StoreInv'
  BY StepKeepsInv
<1> QED
  BY InitHasInv, <1>1, PTL DEF Spec

-----------------------------------------------------------------------------
(* The refinement. *)

StageOf(place) ==
  IF place = "idle" THEN "idle" ELSE IF place = "unlink" THEN "written" ELSE "pending"

stages == [s \in Slots |-> Stage(s)]

LEMMA StageMoves ==
  ASSUME NEW s \in Slots, NEW place, at \in [Slots -> Places], at' = [at EXCEPT ![s] = place]
  PROVE  stages' = [stages EXCEPT ![s] = StageOf(place)]
  BY DEF stages, Stage, StageOf

\* Going on inside a write shows nothing, answering ends it.
LEMMA GoesShown ==
  ASSUME NEW s \in Slots, NEW place, at \in [Slots -> Places], Goes(s, place)
  PROVE  /\ stages' = [stages EXCEPT ![s] = StageOf(place)]
         /\ UNCHANGED <<data, result>>
  BY StageMoves DEF Goes

LEMMA EndsShown ==
  ASSUME NEW s \in Slots, NEW how, at \in [Slots -> Places], Ends(s, how)
  PROVE  /\ stages' = [stages EXCEPT ![s] = "idle"]
         /\ result' = [result EXCEPT ![s] = how]
         /\ UNCHANGED data
<1>1. stages' = [stages EXCEPT ![s] = StageOf("idle")]
  BY StageMoves DEF Ends
<1> QED
  BY <1>1 DEF Ends, StageOf

\* What a reader and a caller may see of a step.
Visible == File!Next \/ UNCHANGED File!vars

LEMMA InitShown == Init => File!Init
  BY DEF Init, File!Init, Stage

LEMMA StayShown ==
  ASSUME NEW s \in Slots, NEW place, at \in [Slots -> Places], Goes(s, place),
         stages[s] = StageOf(place), UNCHANGED file
  PROVE  Visible
<1>1. UNCHANGED <<stages, data, result>>
  BY GoesShown DEF stages
<1> QED
  BY <1>1 DEF Visible, File!vars, stages

LEMMA FailShown ==
  ASSUME NEW s \in Slots, at \in [Slots -> Places], at[s] # "idle", Ends(s, "failed"), UNCHANGED file
  PROVE  Visible
<1>1. stages[s] # "idle"
  BY DEF stages, Stage
<1>2. File!Fail(s)
  BY <1>1, EndsShown DEF File!Fail, File!Answers, stages
<1> QED
  BY <1>2 DEF Visible, File!Next

LEMMA StepShown ==
  ASSUME ~Overlap, StoreInv, [Next]_vars
  PROVE  Visible
<1>t. at \in [Slots -> Places] /\ \A s \in Slots : stages[s] = StageOf(at[s])
  BY DEF StoreInv, TypeOK, stages, Stage, StageOf
<1>1. CASE UNCHANGED vars
  BY <1>1 DEF vars, Visible, File!vars, Stage
<1>2. CASE Crash
  <2>1. stages' = [s \in Slots |-> "idle"]
    BY <1>2 DEF Crash, stages, Stage
  <2>2. File!Crash
    BY <1>2, <2>1 DEF Crash, File!Crash, stages
  <2> QED
    BY <2>2 DEF Visible, File!Next
<1>3. ASSUME NEW s \in Slots, NEW d \in Contents \cup {Absent}, Begin(s, d)
      PROVE  Visible
  <2> DEFINE place == IF d = Absent THEN "remove" ELSE "handle"
  <2>a. at' = [at EXCEPT ![s] = place] /\ StageOf(place) = "pending"
    BY <1>3 DEF Begin, StageOf
  <2>b. stages' = [stages EXCEPT ![s] = StageOf(place)]
    <3> HIDE DEF place
    <3> QED
      BY <2>a, <1>t, StageMoves
  <2>1. stages[s] = "idle" /\ stages' = [stages EXCEPT ![s] = "pending"]
    BY <1>3, <1>t, <2>a, <2>b DEF Begin, StageOf
  <2>2. File!Begin(s)
    BY <1>3, <2>1 DEF Begin, File!Begin, stages
  <2> QED
    BY <2>2 DEF Visible, File!Next
<1>4. ASSUME NEW s \in Slots, CallStep(s)
      PROVE  Visible
  <2> USE <1>t
  <2>1. CASE Handle(s)
    BY <2>1, StayShown, FailShown DEF Handle, StageOf
  <2>2. CASE Stream(s)
    BY <2>2, StayShown, FailShown DEF Stream, StageOf
  <2>3. CASE WriteTemp(s)
    BY <2>3, StayShown DEF WriteTemp, StageOf
  <2>4. CASE CloseTemp(s)
    BY <2>4, StayShown DEF CloseTemp, StageOf
  <2>5. CASE Abandon(s)
    BY <2>5, StayShown DEF Abandon, StageOf
  <2>6. CASE Discard(s)
    BY <2>6, FailShown DEF Discard
  <2>7. CASE Move(s)
    <3>1. CASE Goes(s, "dest") /\ UNCHANGED <<file, tmp, seen>>
      BY <2>7, <3>1, StayShown DEF Move, StageOf
    <3>2. CASE file' = tmp /\ Ends(s, "ok")
      <4>1. stages[s] = "pending" /\ file' = data[s]
        BY <2>7, <3>2 DEF Move, StageOf, StoreInv, Carried
      <4>2. File!Return(s)
        BY <3>2, <4>1, EndsShown DEF File!Return, File!Answers, stages
      <4> QED
        BY <4>2 DEF Visible, File!Next
    <3> QED
      BY <2>7, <3>1, <3>2 DEF Move
  <2>8. CASE Dest(s)
    <3>1. CASE UNCHANGED file /\ Ends(s, "failed")
      BY <2>8, <3>1, FailShown DEF Dest
    <3>2. CASE file # Absent /\ UNCHANGED file /\ Goes(s, "source")
      BY <2>8, <3>2, StayShown DEF Dest, StageOf
    <3>3. CASE file = Absent /\ file' = Empty /\ Goes(s, "source")
      <4>1. stages[s] = "pending" /\ data[s] # Absent
        BY <2>8 DEF Dest, StageOf, StoreInv, TypeOK, TempPlaces
      <4>2. stages' = [stages EXCEPT ![s] = "pending"] /\ UNCHANGED <<data, result>>
        BY <3>3, GoesShown DEF StageOf
      <4>3. File!Create(s)
        BY <3>3, <4>1, <4>2 DEF File!Create, stages
      <4> QED
        BY <4>3 DEF Visible, File!Next
    <3> QED
      BY <2>8, <3>1, <3>2, <3>3 DEF Dest
  <2>9. CASE Source(s)
    BY <2>9, StayShown, FailShown DEF Source, StageOf
  <2>10. CASE DestStream(s)
    BY <2>10, StayShown, FailShown DEF DestStream, StageOf
  <2>11. CASE DestWrite(s)
    BY <2>11, StayShown, FailShown DEF DestWrite, StageOf
  <2>12. CASE DestClose(s)
    <3>1. CASE UNCHANGED file /\ Ends(s, "failed")
      BY <2>12, <3>1, FailShown DEF DestClose
    <3>2. CASE file' = seen[s] /\ Goes(s, "unlink")
      <4>1. stages[s] = "pending" /\ file' = data[s]
        BY <2>12, <3>2 DEF DestClose, StageOf, StoreInv, Carried, CopyPlaces
      <4>2. stages' = [stages EXCEPT ![s] = "written"] /\ UNCHANGED <<data, result>>
        BY <3>2, GoesShown DEF StageOf
      <4>3. File!Commit(s)
        BY <4>1, <4>2 DEF File!Commit, stages
      <4> QED
        BY <4>3 DEF Visible, File!Next
    <3> QED
      BY <2>12, <3>1, <3>2 DEF DestClose
  <2>13. CASE Unlink(s)
    <3>1. CASE Ends(s, "failed")
      BY <2>13, <3>1, FailShown DEF Unlink
    <3>2. CASE Ends(s, "ok")
      <4>1. File!Return(s)
        BY <2>13, <3>2, EndsShown DEF Unlink, StageOf, File!Return, File!Answers, stages
      <4> QED
        BY <4>1 DEF Visible, File!Next
    <3> QED
      BY <2>13, <3>1, <3>2 DEF Unlink
  <2>14. CASE Remove(s)
    <3>1. CASE UNCHANGED file /\ Ends(s, "failed")
      BY <2>14, <3>1, FailShown DEF Remove
    <3>2. CASE file' = Absent /\ Ends(s, "ok")
      <4>1. stages[s] = "pending" /\ file' = data[s]
        BY <2>14, <3>2 DEF Remove, StageOf, StoreInv, Carried
      <4>2. File!Return(s)
        BY <3>2, <4>1, EndsShown DEF File!Return, File!Answers, stages
      <4> QED
        BY <4>2 DEF Visible, File!Next
    <3> QED
      BY <2>14, <3>1, <3>2 DEF Remove
  <2> QED
    BY <1>4, <2>1, <2>2, <2>3, <2>4, <2>5, <2>6, <2>7, <2>8, <2>9, <2>10, <2>11, <2>12, <2>13, <2>14
       DEF CallStep
<1> QED
  BY <1>1, <1>2, <1>3, <1>4 DEF Next
-----------------------------------------------------------------------------
\* "A crash mid-write does not truncate the previous artifact", for any contents.
THEOREM NothingTruncated ==
  ASSUME ~Overlap
  PROVE  Spec => NeverTruncated
<1>1. ASSUME StoreInv, [Next]_vars
      PROVE  file' = Empty => file \in {Absent, Empty}
  <2>1. \A s \in Slots : data[s] # Empty
    BY <1>1, ContentAssumption DEF StoreInv, TypeOK
  <2>2. Visible
    BY <1>1, StepShown
  <2>3. CASE UNCHANGED File!vars
    BY <2>3 DEF File!vars
  <2>4. CASE File!Next
    BY <2>1, <2>4
       DEF File!Next, File!Crash, File!Begin, File!Create, File!Commit, File!Return, File!Fail
  <2> QED
    BY <2>2, <2>3, <2>4 DEF Visible
<1> QED
  BY StoreInvariant, <1>1, PTL DEF Spec, NeverTruncated

\* Every step of a write, a removal or a crash is a step of the atomic file, or none
\* that a reader or a caller can see.
THEOREM StoreIsAtomicFile ==
  ASSUME ~Overlap
  PROVE  Spec => ImplementsFile
<1>1. StoreInv /\ [Next]_vars => [File!Next]_File!vars
  BY StepShown DEF Visible
<1> QED
  BY StoreInvariant, InitShown, <1>1, PTL DEF Spec, ImplementsFile, File!Spec
=============================================================================

---------------------------- MODULE EngineProofs ----------------------------
(***************************************************************************)
(* The control calls of the engine, for every start, every number of calls *)
(* and every bound.  Whatever overlaps, a parked loop is never left asleep *)
(* and a cancel is honoured.  A user who awaits each call sees at most one *)
(* more instruction after pause(); and if he steers only while the loop    *)
(* rests, no commit is lost, steering holds until resume(), and the flow   *)
(* that steer() found comes back.                                          *)
(***************************************************************************)
EXTENDS Engine, OperatorProofs

-----------------------------------------------------------------------------
(* Types.  Every progress record in memory has the fields of one and a flow; *)
(* the step limit is kept because only the boundary lets a run go on.        *)

IsRecord(p) ==
  /\ DOMAIN p = {"phase", "flow", "current", "total", "completed", "pending", "layered"}
  /\ p.flow \in Flows

CallType ==
  /\ DOMAIN ctl = Slots
  /\ \A s \in Slots :
       /\ DOMAIN ctl[s] = {"op", "at", "copy", "previous"}
       /\ IsRecord(ctl[s].copy) /\ ctl[s].previous \in Flows \cup {"none"}

TypeInv ==
  /\ TypeOK
  /\ IsRecord(progress) /\ IsRecord(read) /\ CallType
  /\ pc \in {"load", "parked"} => steps < MaxSteps

LEMMA FlowsAre == Flows = {"writing", "reviewing", "rewriting", "polishing", "steering"}
BY DEF Flows, FlowTargets

LEMMA EmptyIsRecord == IsRecord(EmptyProgress)
BY FlowsAre DEF IsRecord, EmptyProgress

\* Each record that is saved is one.
LEMMA RecordsStayRecords ==
  ASSUME NEW p, IsRecord(p), NEW ch, NEW f \in Flows
  PROVE  /\ IsRecord(DispatchedProgress(p, ch)) /\ IsRecord(CommittedProgress(p, ch))
         /\ IsRecord([p EXCEPT !.phase = "complete"]) /\ IsRecord([p EXCEPT !.flow = f])
<1>1. IsRecord(DispatchedProgress(p, ch))
  BY FlowsAre DEF IsRecord, DispatchedProgress
<1>2. IsRecord(CommittedProgress(p, ch))
  BY FlowsAre DEF IsRecord, CommittedProgress
<1>3. IsRecord([p EXCEPT !.phase = "complete"]) /\ IsRecord([p EXCEPT !.flow = f])
  BY DEF IsRecord
<1> QED
  BY <1>1, <1>2, <1>3

\* The Boolean part of the type invariant, and the rest of it.
Booleans ==
  /\ pauseRequested \in BOOLEAN /\ waiting \in BOOLEAN
  /\ running \in BOOLEAN /\ abortRequested \in BOOLEAN
  /\ owed \in BOOLEAN /\ steered \in BOOLEAN /\ cancelled \in BOOLEAN

Others ==
  /\ pc \in {"off", "top", "parked", "load", "dispatch", "save", "llm", "tool", "toolSave", "ending"}
  /\ steps \in 0..MaxSteps /\ turns \in 0..MaxWorkerTurns /\ sincePause \in 0..2
  /\ pendingSteer \in Flows \cup {"none"} /\ IsRecord(progress) /\ IsRecord(read)
  /\ CallType /\ \A s \in Slots : ctl[s].op \in {"none", "steer", "resume"}
  /\ pc \in {"load", "parked"} => steps < MaxSteps

LEMMA TypeParts == TypeInv <=> Booleans /\ Others /\ (running <=> pc # "off")
BY DEF TypeInv, TypeOK, Booleans, Others, IsRecord

LEMMA CallStepTypes ==
  ASSUME TypeInv, NEW s \in Slots, CallStep(s)
  PROVE  TypeInv'
<1> USE DEF TypeInv, TypeOK, CallType
<1>1. Previous(pendingSteer) \in Flows /\ Previous(ctl[s].previous) \in Flows
  BY FlowsAre DEF Previous
<1>2. CASE SteerRead(s)
  BY <1>2 DEF SteerRead, flags, loopVars, history, IsRecord
<1>3. CASE SteerReadMeta(s)
  BY <1>1, <1>3 DEF SteerReadMeta, flags, loopVars, history
<1>4. CASE SteerSave(s)
  <2>1. IsRecord(progress') /\ progress'.flow \in Flows
    BY <1>4, FlowsAre, RecordsStayRecords DEF SteerSave, IsRecord
  <2> QED
    BY <1>4, <2>1 DEF SteerSave, flags, loopVars, history
<1>5. CASE SteerSaveMeta(s)
  BY <1>5 DEF SteerSaveMeta, flags, loopVars, history
<1>6. CASE SteerReturn(s)
  BY <1>6, EmptyIsRecord DEF SteerReturn, PauseNow, NoCall, loopVars, history
<1>7. CASE ResumeRead(s)
  BY <1>7 DEF ResumeRead, flags, loopVars, history
<1>8. CASE ResumeReadMeta(s)
  BY <1>8 DEF ResumeReadMeta, flags, loopVars, history
<1>9. CASE ResumeSave(s)
  <2>1. IsRecord(progress') /\ progress'.flow \in Flows
    BY <1>1, <1>9, RecordsStayRecords DEF ResumeSave, IsRecord
  <2> QED
    BY <1>9, <2>1 DEF ResumeSave, flags, loopVars, history
<1>10. CASE ResumeClearMeta(s)
  BY <1>10 DEF ResumeClearMeta, flags, loopVars, history
<1>11. CASE ResumeReturn(s)
  BY <1>11, EmptyIsRecord DEF ResumeReturn, Woken, NoCall, loopVars, history
<1> QED
  BY <1>2, <1>3, <1>4, <1>5, <1>6, <1>7, <1>8, <1>9, <1>10, <1>11 DEF CallStep

LEMMA TypeInvInductive == Spec => []TypeInv
<1>1. Init => TypeInv
  <2> SUFFICES ASSUME Init PROVE TypeInv
    OBVIOUS
  <2>1. IsRecord(progress)
    BY EngineAssumption DEF Init, Progress, IsRecord
  <2>2. CallType
    BY EmptyIsRecord DEF Init, NoCall, CallType
  <2>3. Booleans /\ (running <=> pc # "off")
    BY DEF Init, Rest, Booleans
  <2>4. Others
    BY <2>1, <2>2, EmptyIsRecord, EngineAssumption DEF Init, Rest, NoCall, Others
  <2> QED
    BY <2>3, <2>4, TypeParts
<1>2. TypeInv /\ [Next]_vars => TypeInv'
  <2> SUFFICES ASSUME TypeInv, [Next]_vars PROVE TypeInv'
    OBVIOUS
  <2> USE EngineAssumption
  <2>0. Booleans /\ Others /\ (running <=> pc # "off")
    BY TypeParts
  <2>1. ASSUME Booleans', Others', running' <=> pc' # "off"
        PROVE  TypeInv'
    BY <2>1 DEF TypeInv, TypeOK, Booleans, Others, IsRecord
  <2> HIDE DEF TypeInv
  <2>2. CASE Run
    <3>1. Booleans' /\ (running' <=> pc' # "off")
      BY <2>0, <2>2 DEF Run, Booleans
    <3>2. Others'
      BY <2>0, <2>2 DEF Run, Others, CallType
    <3> QED
      BY <2>1, <3>1, <3>2
  <2>3. CASE Pause \/ Cancel
    <3>1. Booleans' /\ (running' <=> pc' # "off")
      <4>1. CASE Pause
        BY <2>0, <4>1 DEF Pause, PauseNow, loopVars, Booleans
      <4>2. CASE Cancel
        BY <2>0, <4>2 DEF Cancel, Woken, loopVars, Booleans
      <4> QED
        BY <2>3, <4>1, <4>2
    <3>2. /\ sincePause' \in {0, sincePause}
          /\ UNCHANGED <<progress, pendingSteer, loopVars, ctl>>
      BY <2>3, Zenon DEF Pause, PauseNow, Cancel
    <3>3. Others'
      BY <2>0, <3>2 DEF Others, CallType, loopVars
    <3> QED
      BY <2>1, <3>1, <3>3
  <2>4. ASSUME NEW s \in Slots, Steer(s) \/ Resume(s) PROVE TypeInv'
    <3>1. Booleans' /\ (running' <=> pc' # "off")
      <4>1. CASE Steer(s)
        BY <2>0, <4>1 DEF Steer, flags, loopVars, history, Booleans
      <4>2. CASE Resume(s)
        BY <2>0, <4>2 DEF Resume, flags, loopVars, Booleans
      <4> QED
        BY <2>4, <4>1, <4>2
    <3>2. sincePause' \in {0, sincePause} /\ UNCHANGED <<progress, pendingSteer, loopVars>>
      BY <2>4, Zenon DEF Steer, Resume, history
    <3>3. CallType' /\ \A t \in Slots : ctl'[t].op \in {"none", "steer", "resume"}
      BY <2>0, <2>4 DEF Steer, Resume, Others, CallType
    <3>4. Others'
      BY <2>0, <3>2, <3>3 DEF Others, loopVars
    <3> QED
      BY <2>1, <3>1, <3>4
  <2>5. ASSUME NEW s \in Slots, CallStep(s) PROVE TypeInv'
    BY <2>5, CallStepTypes
  <2>6. CASE LoopTop
    <3>1. Booleans' /\ (running' <=> pc' # "off")
      BY <2>0, <2>6 DEF LoopTop, Finish, history, Booleans
    <3>2. Others'
      BY <2>0, <2>6 DEF LoopTop, Finish, OutOfSteps, history, Others, CallType
    <3> QED
      BY <2>1, <3>1, <3>2
  <2>7. ASSUME UNCHANGED <<flags, owed, steered, cancelled, pendingSteer, ctl>>,
               pc # "off", pc' # "off",
               pc' \in {"top", "load", "dispatch", "save", "llm", "tool", "toolSave", "ending"},
               pc' = "load" => pc = "parked",
               sincePause' \in 0..2, steps' \in 0..MaxSteps, turns' \in 0..MaxWorkerTurns,
               pc' = "load" => steps' = steps,
               IsRecord(progress'), IsRecord(read')
        PROVE  TypeInv'
    <3>1. Booleans' /\ (running' <=> pc' # "off")
      BY <2>0, <2>7 DEF Booleans, flags
    <3>2. Others'
      BY <2>0, <2>7 DEF Others, CallType, IsRecord
    <3> QED
      BY <2>1, <3>1, <3>2
  <2> USE <2>0 DEF Others, history, Failed, Finish
  <2>8. CASE Wake
    BY <2>7, <2>8 DEF Wake
  <2>9. CASE Load
    BY <2>7, <2>9 DEF Load
  <2>10. CASE DispatchRead
    BY <2>7, <2>10, EmptyIsRecord DEF DispatchRead
  <2>11. CASE DispatchSave
    BY <2>7, <2>11, EmptyIsRecord, RecordsStayRecords, FlowsAre DEF DispatchSave
  <2>12. CASE AbortWait \/ LlmAnswers
    BY <2>7, <2>12, EmptyIsRecord DEF AbortWait, LlmAnswers, LlmCallsTool, LlmEnds, LlmThrows
  <2>13. CASE ToolRead
    BY <2>7, <2>13, EmptyIsRecord DEF ToolRead
  <2>14. CASE ToolSave
    BY <2>7, <2>14, EmptyIsRecord, RecordsStayRecords, FlowsAre DEF ToolSave
  <2>15. CASE Return
    <3>1. Booleans' /\ (running' <=> pc' # "off")
      BY <2>15 DEF Return, Booleans
    <3>2. Others'
      BY <2>15, EmptyIsRecord DEF Return, CallType
    <3> QED
      BY <2>1, <3>1, <3>2
  <2>16. CASE Restart
    <3>1. Booleans' /\ (running' <=> pc' # "off")
      BY <2>16 DEF Restart, Booleans
    <3>2. Others'
      BY <2>16, EmptyIsRecord DEF Restart, NoCall, CallType
    <3> QED
      BY <2>1, <3>1, <3>2
  <2>17. CASE UNCHANGED vars
    <3>1. Booleans' /\ (running' <=> pc' # "off")
      BY <2>17, Zenon DEF vars, flags, loopVars, Booleans
    <3>2. Others'
      BY <2>17 DEF vars, loopVars, CallType
    <3> QED
      BY <2>1, <3>1, <3>2
  <2> QED
    BY <2>2, <2>3, <2>4, <2>5, <2>6, <2>8, <2>9, <2>10, <2>11, <2>12, <2>13, <2>14, <2>15, <2>16,
       <2>17 DEF Next, User, LoopStep
<1> QED
  BY <1>1, <1>2, PTL DEF Spec

\* The engine's flags, counters, loop and calls keep their types; run() never
\* starts a second loop, and no run exceeds its limits of steps and turns.
THEOREM EngineTypes == Spec => []TypeOK
<1>1. TypeInv => TypeOK
  BY DEF TypeInv
<1> QED
  BY <1>1, TypeInvInductive, PTL

-----------------------------------------------------------------------------
(* A parked loop waits for a pause that stands.  Only the boundary parks,   *)
(* only cancel() and resume() wake, and the second clears the request and   *)
(* the waiter together.  What the invariant lacks to be inductive is that   *)
(* run() cannot restart a loop that is parked.                              *)

ParkedInv == ParkedIsPaused /\ (pc # "off" => running)

LEMMA ParkedInvInductive == Spec => []ParkedInv
<1>1. Init => ParkedInv
  BY DEF Init, Rest, ParkedInv, ParkedIsPaused
<1>2. ParkedInv /\ [Next]_vars => ParkedInv'
  <2> SUFFICES ASSUME ParkedInv, [Next]_vars PROVE ParkedInv'
    OBVIOUS
  <2> USE DEF ParkedInv, ParkedIsPaused
  <2>1. CASE Run
    BY <2>1 DEF Run
  <2>2. CASE Pause \/ Cancel
    BY <2>2 DEF Pause, PauseNow, Cancel, Woken, loopVars
  <2>3. ASSUME NEW s \in Slots, Steer(s) \/ Resume(s) PROVE ParkedInv'
    BY <2>3 DEF Steer, Resume, flags, loopVars
  <2>4. ASSUME NEW s \in Slots, CallStep(s) PROVE ParkedInv'
    BY <2>4 DEF CallStep, SteerRead, SteerReadMeta, SteerSave, SteerSaveMeta, SteerReturn,
                PauseNow, ResumeRead, ResumeReadMeta, ResumeSave, ResumeClearMeta,
                ResumeReturn, Woken, flags, loopVars
  <2>5. CASE LoopTop
    BY <2>5 DEF LoopTop, Finish, PauseSeen
  <2>6. CASE Wake \/ Load
    BY <2>6 DEF Wake, Load, Finish, flags
  <2>7. CASE DispatchRead \/ DispatchSave
    BY <2>7 DEF DispatchRead, DispatchSave, Failed, Finish, flags
  <2>8. CASE AbortWait \/ LlmAnswers
    BY <2>8 DEF AbortWait, LlmAnswers, LlmCallsTool, LlmEnds, LlmThrows, Failed, Finish, flags
  <2>9. CASE ToolRead \/ ToolSave \/ Return
    BY <2>9 DEF ToolRead, ToolSave, Return, Failed, Finish, flags
  <2>10. CASE Restart
    BY <2>10 DEF Restart
  <2>11. CASE UNCHANGED vars
    BY <2>11 DEF vars, flags, loopVars
  <2> QED
    BY <2>1, <2>2, <2>3, <2>4, <2>5, <2>6, <2>7, <2>8, <2>9, <2>10, <2>11
       DEF Next, User, LoopStep
<1> QED
  BY <1>1, <1>2, PTL DEF Spec

\* No control call, in whatever order it overtakes the loop and the others,
\* leaves the loop asleep without a pause that stands.
THEOREM ParkedLoopIsPaused == Spec => []ParkedIsPaused
<1>1. ParkedInv => ParkedIsPaused
  BY DEF ParkedInv
<1> QED
  BY <1>1, ParkedInvInductive, PTL

-----------------------------------------------------------------------------
(* After pause() at most one instruction is dispatched, when the user awaits *)
(* each call before the next one.  The pause stands as long as it is owed,   *)
(* because no resume() is in flight to overwrite it; and once an instruction *)
(* has been dispatched since, the loop can reach the router only by way of   *)
(* the boundary, which parks it, or of a wake-up by cancel(), which ends it. *)

OneCall == \A s, t \in Slots : ctl[s].op # "none" /\ ctl[t].op # "none" => s = t

PauseStands ==
  owed => pauseRequested /\ \A s \in Slots : ctl[s].op # "resume"

DispatchedOnce ==
  \/ sincePause = 0
  \/ /\ sincePause = 1 /\ owed
     /\ pc # "load"
     /\ pc = "parked" => waiting \/ abortRequested

CallShape ==
  /\ DOMAIN ctl = Slots
  /\ \A s \in Slots : DOMAIN ctl[s] = {"op", "at", "copy", "previous"}

PauseInv ==
  /\ CallShape
  /\ pc # "off" => running
  /\ OneCall
  /\ PauseStands
  /\ DispatchedOnce

\* What a control call that goes on does to the calls in flight.
LEMMA CallStepCalls ==
  ASSUME CallShape, NEW s \in Slots, CallStep(s)
  PROVE  /\ CallShape'
         /\ ctl[s].op # "none"
         /\ \A t \in Slots : ctl'[t].op \in {"none", ctl[t].op}
<1>1. CASE SteerRead(s)
  BY <1>1 DEF CallShape, SteerRead
<1>2. CASE SteerReadMeta(s)
  BY <1>2 DEF CallShape, SteerReadMeta
<1>3. CASE SteerSave(s)
  BY <1>3 DEF CallShape, SteerSave
<1>4. CASE SteerSaveMeta(s)
  BY <1>4 DEF CallShape, SteerSaveMeta
<1>5. CASE SteerReturn(s)
  BY <1>5 DEF CallShape, SteerReturn, NoCall
<1>6. CASE ResumeRead(s)
  BY <1>6 DEF CallShape, ResumeRead
<1>7. CASE ResumeReadMeta(s)
  BY <1>7 DEF CallShape, ResumeReadMeta
<1>8. CASE ResumeSave(s)
  BY <1>8 DEF CallShape, ResumeSave
<1>9. CASE ResumeClearMeta(s)
  BY <1>9 DEF CallShape, ResumeClearMeta
<1>10. CASE ResumeReturn(s)
  BY <1>10 DEF CallShape, ResumeReturn, NoCall
<1> QED
  BY <1>1, <1>2, <1>3, <1>4, <1>5, <1>6, <1>7, <1>8, <1>9, <1>10 DEF CallStep

\* A new call finds no other in flight, and is the only one afterwards.
LEMMA NewCallAlone ==
  ASSUME CallShape, ~Overlap, NEW s \in Slots, Steer(s) \/ Resume(s)
  PROVE  /\ CallShape'
         /\ \A t \in Slots : ctl[t].op = "none"
         /\ \A t \in Slots : ctl'[t].op # "none" => t = s
         /\ ctl'[s].op \in {"steer", "resume"}
         /\ ctl'[s].op = "resume" => Resume(s)
<1>1. \A t \in Slots : ctl[t].op = "none"
  BY DEF Steer, Resume, MayCall, CallsInFlight
<1>2. CASE Steer(s)
  BY <1>1, <1>2 DEF CallShape, Steer
<1>3. CASE Resume(s)
  BY <1>1, <1>3 DEF CallShape, Resume
<1> QED
  BY <1>1, <1>2, <1>3

LEMMA PauseInvInductive ==
  ASSUME ~Overlap
  PROVE  Spec => []PauseInv
<1>1. Init => PauseInv
  BY DEF Init, Rest, NoCall, PauseInv, CallShape, OneCall, PauseStands, DispatchedOnce
<1>2. PauseInv /\ [Next]_vars => PauseInv'
  <2> SUFFICES ASSUME PauseInv, [Next]_vars PROVE PauseInv'
    OBVIOUS
  <2> USE DEF PauseInv
  <2>1. CASE Run
    BY <2>1 DEF Run, CallShape, OneCall, PauseStands, DispatchedOnce
  <2>2. CASE Pause
    <3>1. \A s \in Slots : ctl[s].op = "none"
      BY <2>2 DEF Pause, CallsInFlight
    <3> QED
      BY <2>2, <3>1 DEF Pause, PauseNow, loopVars, CallShape, OneCall, PauseStands,
                        DispatchedOnce
  <2>3. CASE Cancel
    BY <2>3 DEF Cancel, Woken, loopVars, CallShape, OneCall, PauseStands, DispatchedOnce
  <2>4. ASSUME NEW s \in Slots, Steer(s) \/ Resume(s) PROVE PauseInv'
    <3>1. /\ CallShape'
          /\ \A t \in Slots : ctl[t].op = "none"
          /\ \A t \in Slots : ctl'[t].op # "none" => t = s
          /\ ctl'[s].op = "resume" => Resume(s)
      BY <2>4, NewCallAlone
    <3>2. OneCall'
      BY <3>1 DEF OneCall
    <3>3. CASE Steer(s) /\ ~Resume(s)
      BY <3>1, <3>2, <3>3 DEF Steer, flags, loopVars, history, PauseStands, DispatchedOnce
    <3>4. CASE Resume(s)
      BY <3>1, <3>2, <3>4 DEF Resume, flags, loopVars, PauseStands, DispatchedOnce
    <3> QED
      BY <2>4, <3>3, <3>4
  <2>5. ASSUME NEW s \in Slots, CallStep(s) PROVE PauseInv'
    <3>1. /\ CallShape'
          /\ ctl[s].op # "none"
          /\ \A t \in Slots : ctl'[t].op \in {"none", ctl[t].op}
      BY <2>5, CallStepCalls
    <3>2. OneCall' /\ \A t \in Slots : ctl[t].op # "none" => t = s
      BY <3>1 DEF OneCall
    <3>3. CASE SteerReturn(s)
      BY <3>1, <3>2, <3>3 DEF SteerReturn, PauseNow, loopVars, PauseStands, DispatchedOnce
    <3>4. CASE ResumeReturn(s)
      BY <3>1, <3>2, <3>4 DEF ResumeReturn, Woken, loopVars, history, PauseStands,
                              DispatchedOnce
    <3>5. CASE ~SteerReturn(s) /\ ~ResumeReturn(s)
      <4>1. UNCHANGED <<flags, loopVars, history>>
        BY <2>5, <3>5 DEF CallStep, SteerRead, SteerReadMeta, SteerSave, SteerSaveMeta,
                          ResumeRead, ResumeReadMeta, ResumeSave, ResumeClearMeta
      <4> QED
        BY <3>1, <3>2, <4>1 DEF flags, loopVars, history, PauseStands, DispatchedOnce
    <3> QED
      BY <3>3, <3>4, <3>5
  <2>6. ASSUME UNCHANGED <<ctl, pauseRequested, owed>>,
               pc' # "off" => running',
               DispatchedOnce'
        PROVE  PauseInv'
    BY <2>6 DEF CallShape, OneCall, PauseStands
  <2>7. CASE LoopTop
    BY <2>6, <2>7 DEF LoopTop, Finish, PauseSeen, PauseStands, DispatchedOnce, history
  <2>8. CASE Wake
    BY <2>6, <2>8 DEF Wake, Finish, flags, history, DispatchedOnce
  <2>9. CASE Load
    BY <2>6, <2>9 DEF Load, Finish, flags, DispatchedOnce
  <2>10. CASE DispatchRead \/ DispatchSave
    BY <2>6, <2>10 DEF DispatchRead, DispatchSave, Failed, Finish, flags, history, DispatchedOnce
  <2>11. CASE AbortWait \/ LlmAnswers
    BY <2>6, <2>11 DEF AbortWait, LlmAnswers, LlmCallsTool, LlmEnds, LlmThrows, Failed, Finish,
                       flags, history, DispatchedOnce
  <2>12. CASE ToolRead \/ ToolSave \/ Return
    BY <2>6, <2>12 DEF ToolRead, ToolSave, Return, Failed, Finish, flags, history, DispatchedOnce
  <2>13. CASE Restart
    BY <2>13 DEF Restart, NoCall, CallShape, OneCall, PauseStands, DispatchedOnce
  <2>14. CASE UNCHANGED vars
    BY <2>14 DEF vars, flags, loopVars, history, CallShape, OneCall, PauseStands, DispatchedOnce
  <2> QED
    BY <2>1, <2>2, <2>3, <2>4, <2>5, <2>7, <2>8, <2>9, <2>10, <2>11, <2>12, <2>13, <2>14
       DEF Next, User, LoopStep
<1> QED
  BY <1>1, <1>2, PTL DEF Spec

\* "Request a yield at the next loop boundary", whenever in a run pause() or
\* steer() is called, if the user awaits each call before the next one.
THEOREM PauseIsHonoured ==
  ASSUME ~Overlap
  PROVE  Spec => []PauseYields
<1>1. PauseInv => PauseYields
  BY DEF PauseInv, DispatchedOnce, PauseYields
<1> QED
  BY <1>1, PauseInvInductive, PTL

-----------------------------------------------------------------------------
(* A cancel that finds a boundary ahead is honoured.  From then on the abort *)
(* is requested, the step limit is not reached, and the loop is not past its *)
(* last look at the flag; so every way out of the loop is the abort.         *)

Unlimited == ~OutOfSteps

Honoured ==
  cancelled =>
    \/ pc \in {"top", "parked", "dispatch", "save", "llm", "tool", "toolSave"}
       /\ abortRequested = TRUE /\ Unlimited
    \/ pc \in {"ending", "off"} /\ outcome = "aborted"

CancelInv == Honoured /\ (running <=> pc # "off")

LEMMA CancelInvInductive == Spec => []CancelInv
<1>1. Init => CancelInv
  BY DEF Init, Rest, CancelInv, Honoured
<1>2. CancelInv /\ TypeInv /\ [Next]_vars => CancelInv'
  <2> SUFFICES ASSUME CancelInv, TypeInv, [Next]_vars PROVE CancelInv'
    OBVIOUS
  <2>0. UNCHANGED steps => Unlimited' = Unlimited
    BY DEF Unlimited, OutOfSteps
  <2> USE <2>0 DEF CancelInv, Honoured
  <2>1. CASE Run
    BY <2>1 DEF Run
  <2>2. CASE Pause
    BY <2>2 DEF Pause, PauseNow, loopVars
  <2>3. CASE Cancel
    <3>1. BoundaryAhead => Unlimited /\ pc \notin {"load", "ending"}
      BY EngineAssumption DEF BoundaryAhead, Unlimited, OutOfSteps, TypeInv, TypeOK
    <3>2. /\ running /\ abortRequested' = TRUE /\ cancelled' = (cancelled \/ BoundaryAhead)
          /\ UNCHANGED <<running, pc, steps, outcome>>
      BY <2>3 DEF Cancel, loopVars
    <3>3. pc \in {"top", "parked", "load", "dispatch", "save", "llm", "tool", "toolSave", "ending"}
      BY <3>2 DEF TypeInv, TypeOK
    <3>4. CASE BoundaryAhead
      BY <3>1, <3>2, <3>3, <3>4, SMT
    <3>5. CASE cancelled
      BY <3>2, <3>3, <3>5, SMT
    <3>6. CASE ~cancelled /\ ~BoundaryAhead
      <4>1. ~cancelled'
        BY <3>2, <3>6, Zenon
      <4> QED
        BY <3>2, <4>1, SMT
    <3> QED
      BY <3>4, <3>5, <3>6
  <2>4. ASSUME NEW s \in Slots, Steer(s) \/ Resume(s) PROVE CancelInv'
    BY <2>4 DEF Steer, Resume, flags, loopVars, history
  <2>5. ASSUME NEW s \in Slots, CallStep(s) PROVE CancelInv'
    BY <2>5 DEF CallStep, SteerRead, SteerReadMeta, SteerSave, SteerSaveMeta, SteerReturn,
                PauseNow, ResumeRead, ResumeReadMeta, ResumeSave, ResumeClearMeta,
                ResumeReturn, flags, loopVars, history
  <2>6. CASE LoopTop
    BY <2>6 DEF LoopTop, Finish, Unlimited, history
  <2>7. CASE Wake
    BY <2>7 DEF Wake, Finish, flags, history
  <2>8. CASE Load
    BY <2>8 DEF Load, Finish, flags
  <2>9. CASE DispatchRead \/ DispatchSave
    BY <2>9 DEF DispatchRead, DispatchSave, Failed, Finish, flags, history
  <2>10. CASE AbortWait \/ LlmAnswers
    BY <2>10 DEF AbortWait, LlmAnswers, LlmCallsTool, LlmEnds, LlmThrows, Failed, Finish, flags,
                 history
  <2>11. CASE ToolRead \/ ToolSave
    BY <2>11 DEF ToolRead, ToolSave, Failed, Finish, flags, history
  <2>12. CASE Return
    BY <2>12 DEF Return, history
  <2>13. CASE Restart
    BY <2>13 DEF Restart
  <2>14. CASE UNCHANGED vars
    BY <2>14 DEF vars, flags, loopVars, history
  <2> QED
    BY <2>1, <2>2, <2>3, <2>4, <2>5, <2>6, <2>7, <2>8, <2>9, <2>10, <2>11, <2>12, <2>13, <2>14
       DEF Next, User, LoopStep
<1> QED
  BY <1>1, <1>2, TypeInvInductive, PTL DEF Spec

\* However control calls, the worker and the model's answers fall, a run that is
\* cancelled with a boundary ahead rejects.
THEOREM CancelIsHonoured == Spec => []CancelAborts
<1>1. CancelInv => CancelAborts
  BY DEF CancelInv, Honoured, CancelAborts
<1> QED
  BY <1>1, CancelInvInductive, PTL

-----------------------------------------------------------------------------
(* A user who awaits each call and steers only while the loop rests.  The    *)
(* loop stays at rest as long as a call is in flight: only run() could start *)
(* it, and a wake-up by cancel() ends it.  So whatever record a call or the  *)
(* loop is about to save was made from the one that is still on disk.        *)

CallsRest ==
  \A s \in Slots : ctl[s].op # "none" =>
    /\ pc \in {"off", "parked", "ending"}
    /\ pc = "parked" => waiting \/ abortRequested

CopyIsFresh ==
  \A s \in Slots :
    \/ ctl[s].op = "steer" /\ ctl[s].at = "save"
    \/ ctl[s].op = "resume" /\ ctl[s].at \in {"readMeta", "save"}
    => ctl[s].copy = progress

\* A call begins with reading the record.
IdleReads == \A s \in Slots : ctl[s].op = "none" => ctl[s].at = "read"

ReadIsFresh == pc \in {"save", "toolSave"} => read = progress

CalmInv ==
  /\ CallShape /\ OneCall /\ CallsRest /\ IdleReads
  /\ CopyIsFresh /\ ReadIsFresh /\ IsSequence(progress.completed)

\* A call that goes on is the only one; the others are left as they are.
LEMMA CallStepAlone ==
  ASSUME CallShape, OneCall, NEW s \in Slots, CallStep(s)
  PROVE  /\ CallShape' /\ OneCall' /\ ctl[s].op # "none"
         /\ \A t \in Slots : t # s => ctl'[t] = ctl[t] /\ ctl'[t].op = "none"
         /\ ctl'[s].op \in {"none", ctl[s].op}
<1>1. CallShape' /\ ctl[s].op # "none" /\ \A t \in Slots : ctl'[t].op \in {"none", ctl[t].op}
  BY CallStepCalls
<1>2. \A t \in Slots : t # s => ctl[t].op = "none"
  BY <1>1 DEF OneCall
<1>3. \A t \in Slots : t # s => ctl'[t] = ctl[t]
  <2> USE DEF CallShape
  <2>1. CASE SteerRead(s) \/ ResumeRead(s)
    BY <2>1 DEF SteerRead, ResumeRead
  <2>2. CASE SteerReadMeta(s) \/ ResumeReadMeta(s)
    BY <2>2 DEF SteerReadMeta, ResumeReadMeta
  <2>3. CASE SteerSave(s) \/ SteerSaveMeta(s) \/ ResumeSave(s) \/ ResumeClearMeta(s)
    BY <2>3 DEF SteerSave, SteerSaveMeta, ResumeSave, ResumeClearMeta
  <2>4. CASE SteerReturn(s) \/ ResumeReturn(s)
    BY <2>4 DEF SteerReturn, ResumeReturn
  <2> QED
    BY <2>1, <2>2, <2>3, <2>4 DEF CallStep
<1> QED
  BY <1>1, <1>2, <1>3 DEF OneCall

\* Of all that calls do, only two steps save a record, and none moves the loop.
LEMMA CallStepFrame ==
  ASSUME NEW s \in Slots, CallStep(s)
  PROVE  /\ UNCHANGED loopVars
         /\ SteerSave(s) \/ ResumeSave(s) \/ UNCHANGED progress
         /\ ResumeReturn(s) \/ UNCHANGED <<waiting, abortRequested>>
BY DEF CallStep, SteerRead, SteerReadMeta, SteerSave, SteerSaveMeta, SteerReturn, PauseNow,
       ResumeRead, ResumeReadMeta, ResumeSave, ResumeClearMeta, ResumeReturn, flags

\* A record that is saved holds the chapters completed of the one it was made from.
LEMMA SavedHoldsCompleted ==
  ASSUME NEW p, IsRecord(p), IsSequence(p.completed), NEW ch, NEW f
  PROVE  /\ DispatchedProgress(p, ch).completed = p.completed
         /\ [p EXCEPT !.flow = f].completed = p.completed
         /\ [p EXCEPT !.phase = "complete"].completed = p.completed
         /\ CommittedProgress(p, ch).completed = Append(p.completed, ch)
         /\ IsPrefix(p.completed, p.completed) /\ IsPrefix(p.completed, Append(p.completed, ch))
         /\ IsSequence(Append(p.completed, ch))
<1>1. PICK S : p.completed \in Seq(S)
  BY DEF IsSequence
<1>2. p.completed \in Seq(S \cup {ch})
  BY <1>1
<1>3. Append(p.completed, ch) \in Seq(S \cup {ch})
  BY <1>2, AppendProperties
<1>4. IsSequence(Append(p.completed, ch))
  BY <1>3 DEF IsSequence
<1>5. IsPrefix(p.completed, p.completed) /\ IsPrefix(p.completed, Append(p.completed, ch))
  BY <1>1 DEF IsPrefix
<1>6. /\ DispatchedProgress(p, ch).completed = p.completed
      /\ CommittedProgress(p, ch).completed = Append(p.completed, ch)
  BY DEF DispatchedProgress, CommittedProgress, IsRecord
<1>7. /\ [p EXCEPT !.flow = f].completed = p.completed
      /\ [p EXCEPT !.phase = "complete"].completed = p.completed
  BY DEF IsRecord
<1> QED
  BY <1>4, <1>5, <1>6, <1>7

\* What a step of the loop or of a call saves extends what is completed.
LEMMA SavesExtend ==
  ASSUME CalmInv, TypeInv,
         \/ DispatchSave \/ ToolSave
         \/ \E s \in Slots : SteerSave(s) \/ ResumeSave(s)
  PROVE  IsPrefix(progress.completed, progress'.completed) /\ IsSequence(progress'.completed)
<1>1. IsRecord(progress) /\ IsSequence(progress.completed)
  BY DEF CalmInv, TypeInv
<1>2. CASE DispatchSave
  <2>1. progress' = DispatchedProgress(progress, inst.chapter)
    BY <1>2 DEF DispatchSave, CalmInv, ReadIsFresh
  <2> QED
    BY <1>1, <2>1, SavedHoldsCompleted
<1>3. CASE ToolSave
  <2>1. \/ progress' = CommittedProgress(progress, inst.chapter)
        \/ progress' = [progress EXCEPT !.phase = "complete"]
    BY <1>3 DEF ToolSave, CalmInv, ReadIsFresh
  <2>2. CASE progress' = CommittedProgress(progress, inst.chapter)
    <3>1. /\ CommittedProgress(progress, inst.chapter).completed
                = Append(progress.completed, inst.chapter)
          /\ IsPrefix(progress.completed, Append(progress.completed, inst.chapter))
          /\ IsSequence(Append(progress.completed, inst.chapter))
      BY <1>1, SavedHoldsCompleted
    <3>2. progress'.completed = Append(progress.completed, inst.chapter)
      BY <2>2, <3>1
    <3> QED
      BY <3>1, <3>2
  <2>3. CASE progress' = [progress EXCEPT !.phase = "complete"]
    BY <1>1, <2>3, SavedHoldsCompleted
  <2> QED
    BY <2>1, <2>2, <2>3
<1>4. ASSUME NEW s \in Slots, SteerSave(s) \/ ResumeSave(s)
      PROVE  IsPrefix(progress.completed, progress'.completed) /\ IsSequence(progress'.completed)
  <2>1. PICK f : progress' = [progress EXCEPT !.flow = f]
    <3>1. ctl[s].copy = progress
      BY <1>4 DEF SteerSave, ResumeSave, CalmInv, CopyIsFresh
    <3>2. CASE SteerSave(s)
      BY <3>1, <3>2 DEF SteerSave
    <3>3. CASE ResumeSave(s)
      BY <3>1, <3>3 DEF ResumeSave
    <3> QED
      BY <1>4, <3>2, <3>3
  <2> QED
    BY <1>1, <2>1, SavedHoldsCompleted
<1> QED
  BY <1>2, <1>3, <1>4

\* Whatever else happens, the record on disk stays.
LEMMA OnlySavesChange ==
  ASSUME Next
  PROVE  \/ UNCHANGED progress
         \/ DispatchSave \/ ToolSave
         \/ \E s \in Slots : SteerSave(s) \/ ResumeSave(s)
<1>1. CASE \E s \in Slots : CallStep(s)
  BY <1>1, CallStepFrame
<1>2. CASE User \/ Restart
  BY <1>2 DEF User, Run, Pause, Cancel, Steer, Resume, Restart
<1>3. CASE LoopStep \/ LlmAnswers
  BY <1>3 DEF LoopStep, LlmAnswers, LoopTop, Wake, Load, DispatchRead, AbortWait, ToolRead,
     Return, LlmCallsTool, LlmEnds, LlmThrows
<1> QED
  BY <1>1, <1>2, <1>3 DEF Next

LEMMA CallStepKeepsCalm ==
  ASSUME CalmInv, TypeInv, NEW s \in Slots, CallStep(s)
  PROVE  CalmInv'
<1>1. /\ CallShape' /\ OneCall' /\ ctl[s].op # "none"
      /\ \A t \in Slots : t # s => ctl'[t] = ctl[t] /\ ctl'[t].op = "none"
      /\ ctl'[s].op \in {"none", ctl[s].op}
  BY CallStepAlone DEF CalmInv
<1>2. UNCHANGED <<pc, read>>
  BY CallStepFrame DEF loopVars
<1>3. pc \in {"off", "parked", "ending"}
  BY <1>1 DEF CalmInv, CallsRest
<1>4. CallsRest'
  <2>1. CASE ResumeReturn(s)
    <3>1. ctl'[s].op = "none"
      BY <2>1 DEF ResumeReturn, NoCall, CalmInv, CallShape
    <3> QED
      BY <1>1, <3>1 DEF CallsRest
  <2>2. CASE UNCHANGED <<waiting, abortRequested>>
    BY <1>1, <1>2, <2>2 DEF CalmInv, CallsRest
  <2> QED
    BY <2>1, <2>2, CallStepFrame
<1>5. ReadIsFresh'
  BY <1>2, <1>3 DEF ReadIsFresh
<1>6. IsSequence(progress'.completed)
  <2>1. CASE SteerSave(s) \/ ResumeSave(s)
    BY <2>1, SavesExtend
  <2>2. CASE UNCHANGED progress
    BY <2>2 DEF CalmInv
  <2> QED
    BY <2>1, <2>2, CallStepFrame
<1>7. CopyIsFresh'
  <2> SUFFICES ASSUME \/ ctl'[s].op = "steer" /\ ctl'[s].at = "save"
                      \/ ctl'[s].op = "resume" /\ ctl'[s].at \in {"readMeta", "save"}
               PROVE  ctl'[s].copy = progress'
    BY <1>1 DEF CopyIsFresh
  <2> USE DEF CalmInv, CallShape
  <2>1. CASE SteerRead(s)
    BY <2>1 DEF SteerRead
  <2>2. CASE ResumeRead(s)
    BY <2>2 DEF ResumeRead
  <2>3. CASE ResumeReadMeta(s)
    BY <2>3 DEF ResumeReadMeta, CopyIsFresh
  <2>4. CASE SteerReadMeta(s) \/ SteerSave(s) \/ SteerSaveMeta(s)
    BY <2>4 DEF SteerReadMeta, SteerSave, SteerSaveMeta
  <2>5. CASE ResumeSave(s) \/ ResumeClearMeta(s)
    BY <2>5 DEF ResumeSave, ResumeClearMeta
  <2>6. CASE SteerReturn(s) \/ ResumeReturn(s)
    BY <2>6 DEF SteerReturn, ResumeReturn, NoCall
  <2> QED
    BY <2>1, <2>2, <2>3, <2>4, <2>5, <2>6 DEF CallStep
<1>8. IdleReads'
  <2>1. ctl'[s].op = "none" => ctl'[s].at = "read"
    <3> USE DEF CalmInv, CallShape
    <3>1. CASE SteerReturn(s) \/ ResumeReturn(s)
      BY <3>1 DEF SteerReturn, ResumeReturn, NoCall
    <3>2. CASE ~SteerReturn(s) /\ ~ResumeReturn(s)
      <4>1. ctl'[s].op = ctl[s].op
        BY <3>2 DEF CallStep, SteerRead, SteerReadMeta, SteerSave, SteerSaveMeta, ResumeRead,
           ResumeReadMeta, ResumeSave, ResumeClearMeta
      <4> QED
        BY <1>1, <4>1
    <3> QED
      BY <3>1, <3>2
  <2> QED
    BY <1>1, <2>1 DEF CalmInv, IdleReads
<1> QED
  BY <1>1, <1>4, <1>5, <1>6, <1>7, <1>8 DEF CalmInv

LEMMA StepKeepsCalm ==
  ASSUME ~Overlap, ~MidRun, CalmInv, TypeInv, [Next]_vars
  PROVE  CalmInv'
<1>1. ASSUME UNCHANGED <<progress, ctl>>, CallsRest', ReadIsFresh'
      PROVE  CalmInv'
  BY <1>1 DEF CalmInv, CallShape, OneCall, IdleReads, CopyIsFresh
<1>2. CASE Run
  <2>1. \A s \in Slots : ctl[s].op = "none"
    BY <1>2 DEF Run, CallsInFlight
  <2> QED
    BY <1>1, <1>2, <2>1 DEF Run, CallsRest, ReadIsFresh
<1>3. CASE Pause \/ Cancel
  BY <1>1, <1>3 DEF Pause, PauseNow, Cancel, Woken, loopVars, CalmInv, CallsRest, ReadIsFresh
<1>4. ASSUME NEW s \in Slots, Steer(s) \/ Resume(s)
      PROVE  CalmInv'
  <2>1. /\ CallShape' /\ \A t \in Slots : ctl'[t].op # "none" => t = s
        /\ \A t \in Slots : ctl[t].op = "none"
    BY <1>4, NewCallAlone DEF CalmInv
  <2>2. /\ UNCHANGED <<progress, flags, loopVars>>
        /\ pc = "off" \/ (pc = "parked" /\ waiting)
    BY <1>4 DEF Steer, Resume, MayCall, Resting
  <2>3. \A t \in Slots : ctl'[t].at = ctl[t].at
    BY <1>4 DEF Steer, Resume, CalmInv, CallShape
  <2>4. \A t \in Slots : ctl'[t].at = "read"
    BY <2>1, <2>3 DEF CalmInv, IdleReads
  <2> QED
    BY <2>1, <2>2, <2>4 DEF CalmInv, OneCall, CallsRest, IdleReads, CopyIsFresh, ReadIsFresh,
       flags, loopVars
<1>5. ASSUME NEW s \in Slots, CallStep(s)
      PROVE  CalmInv'
  BY <1>5, CallStepKeepsCalm
<1>6. CASE LoopTop \/ Wake
  BY <1>1, <1>6 DEF LoopTop, Wake, Finish, flags, CalmInv, CallsRest, ReadIsFresh
<1>7. CASE Load
  BY <1>1, <1>7 DEF Load, Finish, flags, CalmInv, CallsRest, ReadIsFresh
<1>8. CASE DispatchRead \/ AbortWait \/ ToolRead \/ LlmAnswers
  BY <1>1, <1>8 DEF DispatchRead, AbortWait, ToolRead, LlmAnswers, LlmCallsTool, LlmEnds,
     LlmThrows, Failed, Finish, flags, CalmInv, CallsRest, ReadIsFresh
<1>9. CASE DispatchSave \/ ToolSave
  <2>1. pc \in {"save", "toolSave"} /\ pc' = "llm" /\ UNCHANGED ctl
    BY <1>9 DEF DispatchSave, ToolSave
  <2>2. \A s \in Slots : ctl[s].op = "none"
    BY <2>1 DEF CalmInv, CallsRest
  <2>3. IsSequence(progress'.completed)
    BY <1>9, SavesExtend
  <2> QED
    BY <2>1, <2>2, <2>3 DEF CalmInv, CallShape, OneCall, CallsRest, IdleReads, CopyIsFresh,
       ReadIsFresh
<1>10. CASE Return
  BY <1>1, <1>10 DEF Return, CalmInv, CallsRest, ReadIsFresh
<1>11. CASE Restart
  BY <1>11 DEF Restart, NoCall, CalmInv, CallShape, OneCall, CallsRest, IdleReads, CopyIsFresh,
     ReadIsFresh
<1>12. CASE UNCHANGED vars
  BY <1>1, <1>12 DEF vars, flags, loopVars, CalmInv, CallsRest, ReadIsFresh
<1> QED
  BY <1>2, <1>3, <1>4, <1>5, <1>6, <1>7, <1>8, <1>9, <1>10, <1>11, <1>12 DEF Next, User, LoopStep

LEMMA CalmInvariant ==
  ASSUME ~Overlap, ~MidRun
  PROVE  Spec => []CalmInv
<1>1. Init => CalmInv
  <2> SUFFICES ASSUME Init PROVE CalmInv
    OBVIOUS
  <2>1. progress.completed \in Seq(Nat)
    BY EngineAssumption DEF Init, Progress
  <2>2. IsSequence(progress.completed)
    BY <2>1 DEF IsSequence
  <2> QED
    BY <2>2 DEF Init, Rest, NoCall, CalmInv, CallShape, OneCall, CallsRest, IdleReads,
       CopyIsFresh, ReadIsFresh
<1>2. CalmInv /\ TypeInv /\ [Next]_vars => CalmInv'
  BY StepKeepsCalm
<1> QED
  BY <1>1, <1>2, TypeInvInductive, PTL DEF Spec

\* A record saved by steer(), by resume() or by the loop takes back no commit, if
\* the user awaits each call and steers only while the loop rests; engines may
\* come and go.
THEOREM CommitsStay ==
  ASSUME ~Overlap, ~MidRun
  PROVE  Spec => CommitsKept
<1>1. CalmInv /\ TypeInv /\ [Next]_vars =>
        [IsPrefix(progress.completed, progress'.completed)]_progress
  BY OnlySavesChange, SavesExtend DEF vars
<1> QED
  BY <1>1, CalmInvariant, TypeInvInductive, PTL DEF Spec, CommitsKept

-----------------------------------------------------------------------------
(* Between steer() and resume() the book stays in the steering flow: the     *)
(* request of the pause stands as long as it is owed, so the loop comes no   *)
(* further than its boundary, and a second steer() finds the flow steering   *)
(* and saves no record.                                                      *)

Steered ==
  steered =>
    /\ progress.flow = "steering" /\ owed
    /\ pc \in {"off", "top", "parked", "ending"}
    /\ pc = "parked" => waiting \/ abortRequested

SteerCalls ==
  \A s \in Slots : ctl[s].op = "steer" =>
    /\ ctl[s].at \in {"readMeta", "saveMeta", "pause"} => progress.flow = "steering"
    /\ ctl[s].at = "save" => progress.flow # "steering"

SteerInv == Steered /\ SteerCalls

(* And resume() leads out of it, back to a flow that suits the queue: the one *)
(* that steer() noted, in the call or in run_meta.  The flow is steering only *)
(* while a user steers or a call is under way, when no worker is at work.     *)

Kept(f) == f \in {"rewriting", "polishing"} <=> progress.pending # <<>>
Back(f) == f # "steering" /\ Kept(f)

SteeringIsOwed == progress.flow = "steering" => steered \/ CallsInFlight # {}

Restorable ==
  IF progress.flow = "steering" THEN Back(Previous(pendingSteer)) ELSE Kept(progress.flow)

\* steer() saves the flow first and notes the old one in run_meta after that.
NotNotedYet == \E s \in Slots : ctl[s].op = "steer" /\ ctl[s].at = "saveMeta"

SteerNotes ==
  \A s \in Slots : ctl[s].op = "steer" =>
    /\ ctl[s].at = "save" => ctl[s].previous = progress.flow
    /\ ctl[s].at = "saveMeta" => ctl[s].previous # "none" /\ Back(ctl[s].previous)

ResumeNotes ==
  \A s \in Slots : ctl[s].op = "resume" =>
    /\ ctl[s].at \in {"readMeta", "save"} => progress.flow = "steering"
    /\ ctl[s].at = "save" => ctl[s].previous = pendingSteer
    /\ ctl[s].at \in {"clearMeta", "wake"} => progress.flow # "steering"

FlowInv ==
  /\ SteeringIsOwed
  /\ NotNotedYet \/ Restorable
  /\ SteerNotes /\ ResumeNotes

\* A new call has read nothing yet.
LEMMA NewCallReads ==
  ASSUME ~Overlap, CalmInv, NEW s \in Slots, Steer(s) \/ Resume(s)
  PROVE  /\ \A t \in Slots : ctl[t].op = "none"
         /\ \A t \in Slots : ctl'[t].op # "none" => t = s /\ ctl'[t].at = "read"
         /\ UNCHANGED <<progress, pendingSteer, flags, loopVars>>
<1>1. /\ \A t \in Slots : ctl[t].op = "none"
      /\ \A t \in Slots : ctl'[t].op # "none" => t = s
  BY NewCallAlone DEF CalmInv
<1>2. \A t \in Slots : ctl'[t].at = ctl[t].at
  BY DEF Steer, Resume, CalmInv, CallShape
<1>3. UNCHANGED <<progress, pendingSteer, flags, loopVars>>
  BY DEF Steer, Resume
<1> QED
  BY <1>1, <1>2, <1>3 DEF CalmInv, IdleReads

LEMMA CallStepKeepsSteer ==
  ASSUME PauseInv, CalmInv, TypeInv, SteerInv, NEW s \in Slots, CallStep(s)
  PROVE  SteerInv'
<1>1. /\ ctl[s].op # "none" /\ \A t \in Slots : t # s => ctl'[t].op = "none"
      /\ steered => ctl[s].op # "resume"
  BY CallStepAlone DEF CalmInv, PauseInv, PauseStands, SteerInv, Steered
<1>2. /\ ctl'[s].op = "steer" =>
           /\ ctl'[s].at \in {"readMeta", "saveMeta", "pause"} => progress'.flow = "steering"
           /\ ctl'[s].at = "save" => progress'.flow # "steering"
      /\ ~SteerReturn(s) => Steered'
  <2> USE DEF CalmInv, CallShape, SteerInv
  <2>1. CASE SteerRead(s)
    BY <2>1 DEF SteerRead, flags, loopVars, history, Steered
  <2>2. CASE SteerReadMeta(s)
    BY <2>2 DEF SteerReadMeta, flags, loopVars, history, Steered, SteerCalls
  <2>3. CASE SteerSave(s)
    <3>1. ~steered /\ progress'.flow = "steering" /\ ctl'[s].at = "saveMeta" /\ ~steered'
      BY <2>3 DEF SteerSave, history, Steered, SteerCalls, TypeInv, CallType, IsRecord
    <3> QED
      BY <2>3, <3>1 DEF SteerSave, Steered, SteerReturn
  <2>4. CASE SteerSaveMeta(s)
    BY <2>4 DEF SteerSaveMeta, flags, loopVars, history, Steered, SteerCalls
  <2>5. CASE SteerReturn(s)
    BY <2>5 DEF SteerReturn, NoCall
  <2>6. CASE ResumeRead(s) \/ ResumeReadMeta(s) \/ ResumeSave(s) \/ ResumeClearMeta(s)
             \/ ResumeReturn(s)
    <3>1. ctl[s].op = "resume" /\ steered' = steered
      BY <2>6 DEF ResumeRead, ResumeReadMeta, ResumeSave, ResumeClearMeta, ResumeReturn, history
    <3>2. ctl'[s].op # "steer"
      BY <1>1, <3>1, CallStepAlone DEF CalmInv
    <3> QED
      BY <1>1, <3>1, <3>2 DEF Steered
  <2> QED
    BY <2>1, <2>2, <2>3, <2>4, <2>5, <2>6 DEF CallStep
<1>3. SteerCalls'
  BY <1>1, <1>2 DEF SteerCalls
<1>4. ASSUME SteerReturn(s) PROVE Steered'
  <2>1. progress'.flow = "steering" /\ owed' /\ UNCHANGED <<pc, waiting, abortRequested>>
    BY <1>4 DEF SteerReturn, PauseNow, loopVars, SteerInv, SteerCalls
  <2>2. pc \in {"off", "parked", "ending"} /\ (pc = "parked" => waiting \/ abortRequested)
    BY <1>1 DEF CalmInv, CallsRest
  <2> QED
    BY <2>1, <2>2 DEF Steered
<1> QED
  BY <1>2, <1>3, <1>4 DEF SteerInv

LEMMA SteerInvInductive ==
  ASSUME ~Overlap, ~MidRun, ~Restarts
  PROVE  Spec => []SteerInv
<1>1. Init => SteerInv
  BY DEF Init, NoCall, SteerInv, Steered, SteerCalls
<1>2. PauseInv /\ CalmInv /\ TypeInv /\ SteerInv /\ [Next]_vars => SteerInv'
  <2> SUFFICES ASSUME PauseInv, CalmInv, TypeInv, SteerInv, [Next]_vars PROVE SteerInv'
    OBVIOUS
  <2>0. /\ Steered /\ SteerCalls
        /\ steered => pauseRequested
    BY DEF SteerInv, Steered, PauseInv, PauseStands
  <2>1. ASSUME UNCHANGED <<progress, ctl>>, Steered'
        PROVE  SteerInv'
    BY <2>0, <2>1 DEF SteerInv, SteerCalls
  <2>2. CASE Run
    BY <2>0, <2>1, <2>2 DEF Run, Steered
  <2>3. CASE Pause \/ Cancel
    BY <2>0, <2>1, <2>3 DEF Pause, PauseNow, Cancel, loopVars, Steered
  <2>4. ASSUME NEW s \in Slots, Steer(s) \/ Resume(s) PROVE SteerInv'
    <3>1. /\ \A t \in Slots : ctl'[t].op # "none" => ctl'[t].at = "read"
          /\ UNCHANGED <<progress, flags, loopVars>>
      BY <2>4, NewCallReads
    <3>2. SteerCalls'
      BY <3>1 DEF SteerCalls
    <3>3. Steered'
      <4>1. CASE Steer(s)
        BY <2>0, <3>1, <4>1 DEF Steer, history, flags, loopVars, Steered
      <4>2. CASE Resume(s)
        BY <4>2 DEF Resume, Steered
      <4> QED
        BY <2>4, <4>1, <4>2
    <3> QED
      BY <3>2, <3>3 DEF SteerInv
  <2>5. ASSUME NEW s \in Slots, CallStep(s) PROVE SteerInv'
    BY <2>5, CallStepKeepsSteer
  <2>6. CASE LoopTop \/ Wake
    BY <2>0, <2>1, <2>6 DEF LoopTop, Wake, Finish, PauseSeen, flags, history, Steered
  <2>7. CASE Load \/ DispatchRead \/ ToolRead
    BY <2>0, <2>1, <2>7 DEF Load, DispatchRead, ToolRead, Failed, Finish, history, Steered
  <2>8. CASE AbortWait \/ LlmAnswers
    BY <2>0, <2>1, <2>8 DEF AbortWait, LlmAnswers, LlmCallsTool, LlmEnds, LlmThrows, Failed,
       Finish, history, Steered
  <2>9. CASE DispatchSave \/ ToolSave
    <3>1. pc \in {"save", "toolSave"} /\ UNCHANGED <<ctl, steered>>
      BY <2>9 DEF DispatchSave, ToolSave, history
    <3>2. ~steered
      BY <2>0, <3>1 DEF Steered
    <3>3. \A s \in Slots : ctl'[s].op # "steer"
      BY <3>1 DEF CalmInv, CallsRest
    <3> QED
      BY <3>1, <3>2, <3>3 DEF SteerInv, Steered, SteerCalls
  <2>10. CASE Return
    BY <2>0, <2>1, <2>10 DEF Return, history, Steered
  <2>11. CASE Restart
    BY <2>11 DEF Restart
  <2>12. CASE UNCHANGED vars
    BY <2>0, <2>1, <2>12 DEF vars, flags, loopVars, history, Steered
  <2> QED
    BY <2>2, <2>3, <2>4, <2>5, <2>6, <2>7, <2>8, <2>9, <2>10, <2>11, <2>12
       DEF Next, User, LoopStep
<1> QED
  BY <1>1, <1>2, PauseInvInductive, CalmInvariant, TypeInvInductive, PTL DEF Spec

\* From the return of steer() to the next resume(), however often run(), pause()
\* and cancel() are called between them, the flow is steering and no worker is
\* sent.
THEOREM SteeringHolds ==
  ASSUME ~Overlap, ~MidRun, ~Restarts
  PROVE  Spec => []SteerHolds
<1>1. SteerInv => SteerHolds
  BY DEF SteerInv, Steered, SteerHolds
<1> QED
  BY <1>1, SteerInvInductive, PTL

\* No start has a flow that does not suit its queue, or one that is steering:
\* where only the engine has saved the record, a user who steered has resumed.
StartsSuit ==
  \A p \in Starts :
    p.flow # "steering" /\ (p.flow \in {"rewriting", "polishing"} <=> p.pending # <<>>)

\* What the loop saves keeps a flow that suits the queue.
LEMMA SavedFlowSuits ==
  ASSUME NEW p, IsRecord(p), NEW ch, p.flow # "steering",
         p.flow \in {"rewriting", "polishing"} <=> p.pending # <<>>,
         NEW q, q \in {DispatchedProgress(p, ch), CommittedProgress(p, ch),
                       [p EXCEPT !.phase = "complete"]}
  PROVE  q.flow # "steering" /\ (q.flow \in {"rewriting", "polishing"} <=> q.pending # <<>>)
<1>1. CASE q = DispatchedProgress(p, ch)
  BY <1>1 DEF DispatchedProgress, IsRecord
<1>2. CASE q = CommittedProgress(p, ch)
  <2>1. /\ q.pending = Without(p.pending, ch)
        /\ q.flow = IF Without(p.pending, ch) # <<>> THEN p.flow ELSE "writing"
    BY <1>2 DEF CommittedProgress, IsRecord
  <2>2. p.pending = <<>> => Without(p.pending, ch) = <<>>
    BY WithoutOfEmpty
  <2> QED
    BY <2>1, <2>2
<1>3. CASE q = [p EXCEPT !.phase = "complete"]
  BY <1>3 DEF IsRecord
<1> QED
  BY <1>1, <1>2, <1>3

LEMMA CallStepKeepsFlow ==
  ASSUME CalmInv, TypeInv, SteerInv, FlowInv, NEW s \in Slots, CallStep(s)
  PROVE  FlowInv'
<1>1. /\ ctl[s].op # "none" /\ \A t \in Slots : t # s => ctl[t].op = "none"
      /\ \A t \in Slots : t # s => ctl'[t].op = "none"
      /\ ctl'[s].op \in {"none", ctl[s].op}
  BY CallStepAlone DEF CalmInv, OneCall
<1>2. progress'.pending = progress.pending
  <2>1. CASE UNCHANGED progress
    BY <2>1
  <2>2. CASE SteerSave(s)
    BY <2>2 DEF SteerSave, CalmInv, CopyIsFresh, TypeInv, IsRecord
  <2>3. CASE ResumeSave(s)
    BY <2>3 DEF ResumeSave, CalmInv, CopyIsFresh, TypeInv, IsRecord
  <2> QED
    BY <2>1, <2>2, <2>3, CallStepFrame
<1>3. \A f : Kept(f)' <=> Kept(f)
  BY <1>2 DEF Kept
<1>4. ~(ctl[s].op = "steer" /\ ctl[s].at = "saveMeta") => Restorable
  BY <1>1 DEF FlowInv, NotNotedYet
<1>5. SteeringIsOwed'
  <2>1. CASE ctl'[s].op # "none"
    BY <2>1 DEF SteeringIsOwed, CallsInFlight
  <2>2. CASE SteerReturn(s)
    BY <2>2 DEF SteerReturn, SteeringIsOwed
  <2>3. CASE ResumeReturn(s)
    BY <2>3 DEF ResumeReturn, SteeringIsOwed, FlowInv, ResumeNotes
  <2>4. CASE ~SteerReturn(s) /\ ~ResumeReturn(s)
    <3>1. ctl'[s].op = ctl[s].op
      BY <2>4 DEF CallStep, SteerRead, SteerReadMeta, SteerSave, SteerSaveMeta, ResumeRead,
         ResumeReadMeta, ResumeSave, ResumeClearMeta, CalmInv, CallShape
    <3> QED
      BY <1>1, <2>1, <3>1
  <2> QED
    BY <2>2, <2>3, <2>4
<1> DEFINE Notes ==
      /\ ctl[s].op = "steer" =>
           /\ ctl[s].at = "save" => ctl[s].previous = progress.flow
           /\ ctl[s].at = "saveMeta" => ctl[s].previous # "none" /\ Back(ctl[s].previous)
      /\ ctl[s].op = "resume" =>
           /\ ctl[s].at \in {"readMeta", "save"} => progress.flow = "steering"
           /\ ctl[s].at = "save" => ctl[s].previous = pendingSteer
           /\ ctl[s].at \in {"clearMeta", "wake"} => progress.flow # "steering"
      /\ (ctl[s].op = "steer" /\ ctl[s].at = "saveMeta") \/ Restorable
<1>6. ASSUME Notes' PROVE FlowInv'
  BY <1>1, <1>5, <1>6 DEF FlowInv, SteerNotes, ResumeNotes, NotNotedYet
<1>7. Notes /\ IsRecord(progress) /\ CallType
  BY <1>4 DEF FlowInv, SteerNotes, ResumeNotes, TypeInv
<1>8. SteerReturn(s) \/ ResumeReturn(s) => ctl'[s] = NoCall
  BY DEF SteerReturn, ResumeReturn, CalmInv, CallShape
<1> USE DEF CalmInv, CallShape, Restorable, Back
<1>9. CASE SteerRead(s)
  BY <1>3, <1>6, <1>7, <1>9 DEF SteerRead
<1>10. CASE SteerReadMeta(s)
  <2>1. progress.flow = "steering"
    BY <1>10 DEF SteerReadMeta, SteerInv, SteerCalls
  <2>2. /\ ctl'[s].op = "steer" /\ ctl'[s].at = "saveMeta"
        /\ ctl'[s].previous = Previous(pendingSteer)
    BY <1>10 DEF SteerReadMeta
  <2>3. Restorable
    BY <1>10, <1>7 DEF SteerReadMeta
  <2>4. Previous(pendingSteer) # "none"
    BY DEF Previous
  <2> QED
    BY <1>3, <1>6, <2>1, <2>2, <2>3, <2>4
<1>11. CASE SteerSave(s)
  <2>1. progress.flow # "steering" /\ Kept(progress.flow) /\ ctl[s].previous = progress.flow
    BY <1>7, <1>11 DEF SteerSave, SteerInv, SteerCalls
  <2>2. /\ ctl'[s].op = "steer" /\ ctl'[s].at = "saveMeta" /\ ctl'[s].previous = ctl[s].previous
    BY <1>11 DEF SteerSave
  <2>3. progress.flow # "none"
    BY <1>7, FlowsAre DEF IsRecord
  <2> QED
    BY <1>3, <1>6, <2>1, <2>2, <2>3
<1>12. CASE SteerSaveMeta(s)
  <2>1. /\ progress.flow = "steering" /\ UNCHANGED progress
        /\ Back(ctl[s].previous) /\ ctl[s].previous # "none" /\ pendingSteer' = ctl[s].previous
        /\ ctl'[s].op = "steer" /\ ctl'[s].at = "pause"
    BY <1>7, <1>12 DEF SteerSaveMeta, SteerInv, SteerCalls
  <2> QED
    BY <1>3, <1>6, <2>1 DEF Previous
<1>13. CASE SteerReturn(s)
  BY <1>3, <1>6, <1>7, <1>8, <1>13 DEF SteerReturn, NoCall
<1>14. CASE ResumeRead(s)
  BY <1>3, <1>6, <1>7, <1>14 DEF ResumeRead
<1>15. CASE ResumeReadMeta(s)
  BY <1>3, <1>6, <1>7, <1>15 DEF ResumeReadMeta
<1>16. CASE ResumeSave(s)
  <2>1. /\ progress.flow = "steering" /\ ctl[s].previous = pendingSteer
        /\ Back(Previous(pendingSteer))
    BY <1>7, <1>16 DEF ResumeSave
  <2>2. progress'.flow = Previous(pendingSteer)
    BY <1>7, <1>16, <2>1 DEF ResumeSave, CallType, IsRecord
  <2>3. ctl'[s].op = "resume" /\ ctl'[s].at \in {"wake", "clearMeta"}
    BY <1>16 DEF ResumeSave
  <2> QED
    BY <1>3, <1>6, <2>1, <2>2, <2>3
<1>17. CASE ResumeClearMeta(s)
  BY <1>3, <1>6, <1>7, <1>17 DEF ResumeClearMeta
<1>18. CASE ResumeReturn(s)
  BY <1>3, <1>6, <1>7, <1>8, <1>18 DEF ResumeReturn, NoCall
<1> QED
  BY <1>9, <1>10, <1>11, <1>12, <1>13, <1>14, <1>15, <1>16, <1>17, <1>18 DEF CallStep

LEMMA FlowInvInductive ==
  ASSUME ~Overlap, ~MidRun, ~Restarts, StartsSuit
  PROVE  Spec => []FlowInv
<1>1. Init => FlowInv
  BY DEF Init, NoCall, StartsSuit, FlowInv, SteeringIsOwed, NotNotedYet, Restorable, Kept,
     SteerNotes, ResumeNotes
<1>2. CalmInv /\ TypeInv /\ SteerInv /\ FlowInv /\ [Next]_vars => FlowInv'
  <2> SUFFICES ASSUME CalmInv, TypeInv, SteerInv, FlowInv, [Next]_vars PROVE FlowInv'
    OBVIOUS
  <2>1. ASSUME UNCHANGED <<progress, pendingSteer, ctl, steered>>
        PROVE  FlowInv'
    BY <2>1 DEF FlowInv, SteeringIsOwed, CallsInFlight, NotNotedYet, Restorable, Back, Kept,
       SteerNotes, ResumeNotes
  <2>2. CASE Run \/ Pause \/ Cancel
    BY <2>1, <2>2 DEF Run, Pause, PauseNow, Cancel
  <2>3. ASSUME NEW s \in Slots, Steer(s) \/ Resume(s) PROVE FlowInv'
    <3>1. /\ \A t \in Slots : ctl[t].op = "none"
          /\ \A t \in Slots : ctl'[t].op # "none" => ctl'[t].at = "read"
          /\ UNCHANGED <<progress, pendingSteer>>
      BY <2>3, NewCallReads
    <3>2. ctl'[s].op # "none"
      BY <2>3, NewCallAlone DEF CalmInv
    <3>3. SteeringIsOwed'
      BY <3>2 DEF SteeringIsOwed, CallsInFlight
    <3>4. Restorable'
      BY <3>1 DEF FlowInv, NotNotedYet, Restorable, Back, Kept
    <3> QED
      BY <3>1, <3>3, <3>4 DEF FlowInv, SteerNotes, ResumeNotes
  <2>4. ASSUME NEW s \in Slots, CallStep(s) PROVE FlowInv'
    BY <2>4, CallStepKeepsFlow
  <2>5. CASE LoopTop \/ Wake \/ Load \/ Return
    BY <2>1, <2>5 DEF LoopTop, Wake, Load, Return, history
  <2>6. CASE DispatchRead \/ AbortWait \/ ToolRead \/ LlmAnswers
    BY <2>1, <2>6 DEF DispatchRead, AbortWait, ToolRead, LlmAnswers, LlmCallsTool, LlmEnds,
       LlmThrows, history
  <2>7. CASE DispatchSave \/ ToolSave
    <3>1. /\ pc \in {"save", "toolSave"} /\ read = progress /\ UNCHANGED <<ctl, pendingSteer>>
          /\ IsRecord(progress)
      BY <2>7 DEF DispatchSave, ToolSave, CalmInv, ReadIsFresh, TypeInv
    <3>2. ~steered /\ \A s \in Slots : ctl[s].op = "none"
      BY <3>1 DEF SteerInv, Steered, CalmInv, CallsRest
    <3>3. progress.flow # "steering" /\ Kept(progress.flow)
      BY <3>2 DEF FlowInv, SteeringIsOwed, CallsInFlight, NotNotedYet, Restorable
    <3>4. progress' \in {DispatchedProgress(progress, inst.chapter),
                         CommittedProgress(progress, inst.chapter),
                         [progress EXCEPT !.phase = "complete"]}
      BY <2>7, <3>1 DEF DispatchSave, ToolSave
    <3>5. progress'.flow # "steering" /\ Kept(progress.flow)'
      BY <3>1, <3>3, <3>4, SavedFlowSuits DEF Kept
    <3> QED
      BY <3>1, <3>2, <3>5 DEF FlowInv, SteeringIsOwed, NotNotedYet, Restorable, SteerNotes,
         ResumeNotes
  <2>8. CASE Restart
    BY <2>8 DEF Restart
  <2>9. CASE UNCHANGED vars
    BY <2>1, <2>9 DEF vars, history
  <2> QED
    BY <2>2, <2>3, <2>4, <2>5, <2>6, <2>7, <2>8, <2>9 DEF Next, User, LoopStep
<1> QED
  BY <1>1, <1>2, CalmInvariant, TypeInvInductive, SteerInvInductive, PTL DEF Spec

\* resume() gives back the flow that steer() found, whatever was called between
\* them: with no call in flight a book that is not steered is rewritten or
\* polished exactly if chapters are queued for it.
THEOREM FlowComesBack ==
  ASSUME ~Overlap, ~MidRun, ~Restarts, StartsSuit
  PROVE  Spec => []FlowRestored
<1>1. FlowInv => FlowRestored
  BY DEF FlowInv, NotNotedYet, CallsInFlight, Restorable, Kept, FlowRestored
<1> QED
  BY <1>1, FlowInvInductive, PTL
=============================================================================

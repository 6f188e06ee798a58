------------------------------- MODULE Engine -------------------------------
(***************************************************************************)
(* One engine and its user: the control calls of src/src/engine/index.ts,  *)
(* each an asynchronous function that may be overtaken at every await, and *)
(* the specification of an engine under them.                              *)
(***************************************************************************)
EXTENDS EngineLoop

-----------------------------------------------------------------------------
(* pause() and cancel() return at once. *)

PauseNow ==
  /\ pauseRequested' = TRUE
  /\ owed' = TRUE
  /\ sincePause' = IF owed THEN sincePause ELSE 0

Pause ==
  /\ Overlap \/ CallsInFlight = {}
  /\ PauseNow
  /\ UNCHANGED <<progress, pendingSteer, waiting, running, abortRequested, loopVars, outcome, ctl,
                 steered, cancelled>>

\* Slip: the waiter is not called.
Woken_Kept(w) == w

\* What is left of the waiter when cancel() or resume() has called it.
Woken(w) == FALSE

\* The loop still looks at the abort flag, or races the language model with it.
BoundaryAhead == steps < MaxSteps /\ pc \notin {"load", "ending"}

\* cancel(): nothing when idle; a parked loop is woken to find the abort.
Cancel ==
  /\ running
  /\ abortRequested' = TRUE
  /\ waiting' = Woken(waiting)
  /\ cancelled' = (cancelled \/ BoundaryAhead)
  /\ UNCHANGED <<progress, pendingSteer, pauseRequested, running, loopVars, outcome, ctl,
                 owed, sincePause, steered>>

-----------------------------------------------------------------------------
(* steer() and resume(). *)

\* Bound on the user: the loop rests when it is off or parked for good.
Resting == pc = "off" \/ (pc = "parked" /\ waiting)

MayCall(s) ==
  /\ ctl[s].op = "none"
  /\ Overlap \/ CallsInFlight = {}
  /\ MidRun \/ Resting

Steer(s) ==
  /\ MayCall(s)
  /\ ctl' = [ctl EXCEPT ![s].op = "steer"]
  /\ UNCHANGED <<progress, pendingSteer, flags, loopVars, outcome, history>>

\* The flow to go back to is that of the record, unless it is steering already.
SteerRead(s) ==
  /\ ctl[s].op = "steer" /\ ctl[s].at = "read"
  /\ ctl' = [ctl EXCEPT ![s] =
               [@ EXCEPT !.copy = progress, !.previous = progress.flow,
                         !.at = IF progress.flow = "steering" THEN "readMeta" ELSE "save"]]
  /\ UNCHANGED <<progress, pendingSteer, flags, loopVars, outcome, history>>

\* What run_meta says to go back to.
Previous(pending) == IF pending = "none" THEN "writing" ELSE pending

SteerReadMeta(s) ==
  /\ ctl[s].op = "steer" /\ ctl[s].at = "readMeta"
  /\ ctl' = [ctl EXCEPT ![s].previous = Previous(pendingSteer), ![s].at = "saveMeta"]
  /\ UNCHANGED <<progress, pendingSteer, flags, loopVars, outcome, history>>

SteerSave(s) ==
  /\ ctl[s].op = "steer" /\ ctl[s].at = "save"
  /\ progress' = [ctl[s].copy EXCEPT !.flow = "steering"]
  /\ ctl' = [ctl EXCEPT ![s].at = "saveMeta"]
  /\ UNCHANGED <<pendingSteer, flags, loopVars, outcome, history>>

\* Other fields of run_meta are of no interest here, so its read-modify-write
\* is one step.
SteerSaveMeta(s) ==
  /\ ctl[s].op = "steer" /\ ctl[s].at = "saveMeta"
  /\ pendingSteer' = ctl[s].previous
  /\ ctl' = [ctl EXCEPT ![s].at = "pause"]
  /\ UNCHANGED <<progress, flags, loopVars, outcome, history>>

\* Slip: steer() leaves the pause to the user.
SteerReturn_NoPause(s) ==
  /\ ctl[s].op = "steer" /\ ctl[s].at = "pause"
  /\ steered' = TRUE
  /\ ctl' = [ctl EXCEPT ![s] = NoCall]
  /\ UNCHANGED <<progress, pendingSteer, flags, loopVars, outcome, owed, sincePause, cancelled>>

\* The decision is recorded; steer() ends with a pause().
SteerReturn(s) ==
  /\ ctl[s].op = "steer" /\ ctl[s].at = "pause"
  /\ PauseNow
  /\ steered' = TRUE
  /\ ctl' = [ctl EXCEPT ![s] = NoCall]
  /\ UNCHANGED <<progress, pendingSteer, waiting, running, abortRequested, loopVars, outcome,
                 cancelled>>

Resume(s) ==
  /\ MayCall(s)
  /\ ctl' = [ctl EXCEPT ![s].op = "resume"]
  /\ owed' = FALSE /\ sincePause' = 0 /\ steered' = FALSE
  /\ UNCHANGED <<progress, pendingSteer, flags, loopVars, outcome, cancelled>>

\* clearPendingSteer
ResumeRead(s) ==
  /\ ctl[s].op = "resume" /\ ctl[s].at = "read"
  /\ ctl' = [ctl EXCEPT ![s] =
               [@ EXCEPT !.copy = progress,
                         !.at = IF progress.flow = "steering" THEN "readMeta" ELSE "wake"]]
  /\ UNCHANGED <<progress, pendingSteer, flags, loopVars, outcome, history>>

ResumeReadMeta(s) ==
  /\ ctl[s].op = "resume" /\ ctl[s].at = "readMeta"
  /\ ctl' = [ctl EXCEPT ![s].previous = pendingSteer, ![s].at = "save"]
  /\ UNCHANGED <<progress, pendingSteer, flags, loopVars, outcome, history>>

\* Slip: the flow always goes back to writing.
ResumeSave_Writing(s) ==
  /\ ctl[s].op = "resume" /\ ctl[s].at = "save"
  /\ progress' = [ctl[s].copy EXCEPT !.flow = "writing"]
  /\ ctl' = [ctl EXCEPT ![s].at = IF ctl[s].previous = "none" THEN "wake" ELSE "clearMeta"]
  /\ UNCHANGED <<pendingSteer, flags, loopVars, outcome, history>>

ResumeSave(s) ==
  /\ ctl[s].op = "resume" /\ ctl[s].at = "save"
  /\ progress' = [ctl[s].copy EXCEPT !.flow = Previous(ctl[s].previous)]
  /\ ctl' = [ctl EXCEPT ![s].at = IF ctl[s].previous = "none" THEN "wake" ELSE "clearMeta"]
  /\ UNCHANGED <<pendingSteer, flags, loopVars, outcome, history>>

ResumeClearMeta(s) ==
  /\ ctl[s].op = "resume" /\ ctl[s].at = "clearMeta"
  /\ pendingSteer' = "none"
  /\ ctl' = [ctl EXCEPT ![s].at = "wake"]
  /\ UNCHANGED <<progress, flags, loopVars, outcome, history>>

\* Whatever was asked for since resume() was called is overwritten here.
ResumeReturn(s) ==
  /\ ctl[s].op = "resume" /\ ctl[s].at = "wake"
  /\ pauseRequested' = FALSE /\ waiting' = Woken(waiting)
  /\ ctl' = [ctl EXCEPT ![s] = NoCall]
  /\ UNCHANGED <<progress, pendingSteer, running, abortRequested, loopVars, outcome, history>>

\* A new engine on the same store: all that was in memory is gone, the calls in
\* flight with it, and run() has not been called.
Restart ==
  /\ Restarts
  /\ pauseRequested' = FALSE /\ waiting' = FALSE /\ running' = FALSE /\ abortRequested' = FALSE
  /\ pc' = "off" /\ read' = EmptyProgress /\ inst' = NoInstruction /\ repeats' = 0
  /\ failedKey' = NoInstruction /\ steps' = 0 /\ turns' = 0 /\ outcome' = "none"
  /\ ctl' = [s \in Slots |-> NoCall]
  /\ owed' = FALSE /\ sincePause' = 0 /\ cancelled' = FALSE
  /\ UNCHANGED <<progress, pendingSteer, steered>>

-----------------------------------------------------------------------------
User == Run \/ Pause \/ Cancel \/ (\E s \in Slots : Steer(s) \/ Resume(s))

CallStep(s) ==
  \/ SteerRead(s) \/ SteerReadMeta(s) \/ SteerSave(s) \/ SteerSaveMeta(s) \/ SteerReturn(s)
  \/ ResumeRead(s) \/ ResumeReadMeta(s) \/ ResumeSave(s) \/ ResumeClearMeta(s) \/ ResumeReturn(s)

\* What the engine does by itself, without an answer of the language model.
LoopStep ==
  \/ LoopTop \/ Wake \/ Load \/ DispatchRead \/ DispatchSave
  \/ AbortWait \/ ToolRead \/ ToolSave \/ Return

LlmAnswers == LlmCallsTool \/ LlmEnds \/ LlmThrows

Next == User \/ (\E s \in Slots : CallStep(s)) \/ LoopStep \/ LlmAnswers \/ Restart

Spec == Init /\ [][Next]_vars

\* Files are read and written in the end; the language model may never answer.
FairSpec == Spec /\ WF_vars(LoopStep) /\ \A s \in Slots : WF_vars(CallStep(s))

-----------------------------------------------------------------------------
(* Properties. *)

\* The flags of the engine, the place of its loop and the calls in flight keep
\* their types.
TypeOK ==
  /\ pauseRequested \in BOOLEAN /\ waiting \in BOOLEAN
  /\ running \in BOOLEAN /\ abortRequested \in BOOLEAN
  /\ pc \in {"off", "top", "parked", "load", "dispatch", "save", "llm", "tool", "toolSave", "ending"}
  /\ running <=> pc # "off"
  /\ steps \in 0..MaxSteps /\ turns \in 0..MaxWorkerTurns
  /\ owed \in BOOLEAN /\ sincePause \in 0..2
  /\ steered \in BOOLEAN /\ cancelled \in BOOLEAN
  /\ pendingSteer \in Flows \cup {"none"} /\ progress.flow \in Flows
  /\ \A s \in Slots : ctl[s].op \in {"none", "steer", "resume"}

\* "Request a yield at the next loop boundary": after pause() at most the one
\* instruction that was being routed is still dispatched, until resume().
PauseYields == sincePause <= 1

\* A parked loop waits for a pause that stands: no call clears the request and
\* leaves the loop asleep.
ParkedIsPaused == waiting => pc = "parked" /\ pauseRequested

\* Between steer() and resume() the book is in the steering flow, and no worker
\* is sent.
SteerHolds ==
  steered =>
    /\ progress.flow = "steering"
    /\ pc \notin {"dispatch", "save", "llm", "tool", "toolSave"}

\* resume() restores the flow that steer() found: once no call is in flight, a
\* book that is not steered has the flow its queue calls for.
FlowRestored ==
  CallsInFlight = {} /\ progress.flow # "steering" =>
    (progress.flow \in {"rewriting", "polishing"} <=> progress.pending # <<>>)

\* No save of a stale record takes back a commit.
CommitsKept == [][IsPrefix(progress.completed, progress'.completed)]_progress

\* cancel() ends the run although the language model never answers and although
\* the loop is parked.
CancelEnds == running /\ abortRequested ~> ~running

\* resume() gets a parked loop going.
ResumeWakes == (\E s \in Slots : ctl[s].op = "resume") ~> pc # "parked"

\* A cancel that finds a boundary of the run still ahead makes run() reject with
\* AbortedError, whatever the worker, the language model or a resume() does in
\* the meantime.
CancelAborts == ~running /\ cancelled => outcome = "aborted"
=============================================================================

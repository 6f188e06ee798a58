----------------------------- MODULE EngineLoop -----------------------------
(***************************************************************************)
(* The loop of src/src/engine/index.ts, await by await, for a user who may *)
(* call pause, resume, steer and cancel while it runs (those are in        *)
(* Engine).  JavaScript is one thread, so what happens between two awaits  *)
(* is one step; whatever is awaited (a file, the language model) other     *)
(* calls can overtake.  The loop and the control calls all read the        *)
(* progress record, wait, and save a record made from what they have read. *)
(*                                                                         *)
(* The book is a flat one in its writing phase: its writers commit, its    *)
(* architect completes it.  What else the tools do is the matter of Book.  *)
(***************************************************************************)
EXTENDS Route, ProgressOps

CONSTANTS
  Starts,            \* progress records the engine may find
  Slots,             \* resume() and steer() calls that may be in flight together
  MaxSteps, MaxWorkerTurns, DeadlockAbortAt,
  Overlap,           \* FALSE: the user awaits each call before the next one
  MidRun,            \* FALSE: steer and resume are called only while the loop rests
  Restarts           \* TRUE: a new engine may take over the store at any moment

ASSUME EngineAssumption ==
  /\ MaxSteps \in Nat \ {0} /\ MaxWorkerTurns \in Nat \ {0}
  /\ DeadlockAbortAt \in Nat \ {0, 1}
  /\ Starts \subseteq Progress(Nat, Nat)
  /\ Overlap \in BOOLEAN /\ MidRun \in BOOLEAN /\ Restarts \in BOOLEAN

VARIABLES
  progress,        \* meta/progress.json
  pendingSteer,    \* run_meta.pendingSteer: the flow to go back to, or "none"
  pauseRequested, waiting, running, abortRequested,   \* waiting: resumeWaiter # null
  pc,              \* where the loop awaits
  read,            \* the progress record the loop works with
  inst, repeats, failedKey, steps, turns,
  outcome,         \* how the last run ended
  ctl,             \* the control calls in flight, by slot
  owed,            \* history: pause() was called and no resume() since
  sincePause,      \* history: instructions dispatched since (2 stands for more)
  steered,         \* history: steer() has returned and no resume() was called since
  cancelled        \* history: cancel() was called with a boundary of this run ahead

loopVars == <<pc, read, inst, repeats, failedKey, steps, turns>>
flags    == <<pauseRequested, waiting, running, abortRequested>>
history  == <<owed, sincePause, steered, cancelled>>
vars     == <<progress, pendingSteer, flags, loopVars, outcome, ctl, history>>

NoCall == [op |-> "none", at |-> "read", copy |-> EmptyProgress, previous |-> "none"]

\* A finished foundation around the progress record.
BookOf(p) ==
  [ progress |-> p, tier |-> "short", files |-> Artifacts, outlined |-> p.total,
    volumes |-> <<>>, globalReviews |-> {}, arcReviews |-> {}, arcSummaries |-> {},
    volumeSummaries |-> {} ]

Rest ==
  /\ pc = "off" /\ read = EmptyProgress
  /\ inst = NoInstruction /\ repeats = 0 /\ failedKey = NoInstruction /\ steps = 0 /\ turns = 0

Init ==
  /\ progress \in Starts /\ pendingSteer = "none"
  /\ pauseRequested = FALSE /\ waiting = FALSE /\ running = FALSE /\ abortRequested = FALSE
  /\ Rest /\ outcome = "none"
  /\ ctl = [s \in Slots |-> NoCall]
  /\ owed = FALSE /\ sincePause = 0 /\ steered = FALSE /\ cancelled = FALSE

-----------------------------------------------------------------------------
(* The loop. *)

CallsInFlight == {s \in Slots : ctl[s].op # "none"}

\* Slip: bootstrap() does not look whether there is a progress record.
Run_Afresh ==
  /\ ~running /\ (Overlap \/ CallsInFlight = {})
  /\ running' = TRUE /\ abortRequested' = FALSE /\ pc' = "top"
  /\ cancelled' = FALSE /\ progress' = EmptyProgress
  /\ UNCHANGED <<pendingSteer, pauseRequested, waiting, read, inst, repeats, failedKey,
                 steps, turns, outcome, ctl, owed, sincePause, steered>>

\* run() on an engine that runs throws and changes nothing.
Run ==
  /\ ~running /\ (Overlap \/ CallsInFlight = {})
  /\ running' = TRUE /\ abortRequested' = FALSE /\ pc' = "top"
  /\ cancelled' = FALSE
  /\ UNCHANGED <<progress, pendingSteer, pauseRequested, waiting, read, inst, repeats, failedKey,
                 steps, turns, outcome, ctl, owed, sincePause, steered>>

\* The run is over with `result`; the promise settles a moment later.
Finish(result) == pc' = "ending" /\ outcome' = result

Result == IF progress.phase = "complete" THEN "complete" ELSE "max_steps"

OutOfSteps == steps >= MaxSteps

\* Slip: only the first boundary of a run looks at the pause.
PauseSeen_Once == pauseRequested /\ steps = 0

PauseSeen == pauseRequested

\* The loop boundary: the step limit, then cancel, then pause.
LoopTop ==
  /\ pc = "top"
  /\ IF OutOfSteps            THEN Finish(Result) /\ waiting' = waiting
     ELSE IF abortRequested   THEN Finish("aborted") /\ waiting' = waiting
     ELSE IF PauseSeen        THEN pc' = "parked" /\ waiting' = TRUE /\ outcome' = outcome
     ELSE pc' = "load" /\ waiting' = waiting /\ outcome' = outcome
  /\ UNCHANGED <<progress, pendingSteer, pauseRequested, running, abortRequested, read, inst,
                 repeats, failedKey, steps, turns, ctl, history>>

\* The waiter was called.  A pause asked for since waits for the next boundary.
Wake ==
  /\ pc = "parked" /\ ~waiting
  /\ IF abortRequested THEN Finish("aborted") ELSE pc' = "load" /\ outcome' = outcome
  /\ UNCHANGED <<progress, pendingSteer, flags, read, inst, repeats, failedKey, steps, turns,
                 ctl, history>>

\* The state is loaded and routed; the instruction counts as a step.
Load ==
  LET next == RouteOf(AssembleState(BookOf(progress)))
      n    == IF next = inst THEN repeats + 1 ELSE 1
  IN  /\ pc = "load"
      /\ IF progress.phase = "complete" \/ next = NoInstruction \/ n >= DeadlockAbortAt
         THEN /\ Finish(IF progress.phase = "complete" THEN "complete"
                        ELSE IF next = NoInstruction THEN "idle" ELSE "paused")
              /\ UNCHANGED <<inst, repeats, steps, sincePause>>
         ELSE /\ pc' = IF next.agent = "writer" THEN "dispatch" ELSE "llm"
              /\ inst' = next /\ repeats' = n /\ steps' = steps + 1
              /\ sincePause' = IF owed /\ sincePause < 2 THEN sincePause + 1 ELSE sincePause
              /\ outcome' = outcome
      /\ UNCHANGED <<progress, pendingSteer, flags, read, failedKey, turns, ctl, owed, steered,
                     cancelled>>

\* Slip: an error is looked at before the abort.
Failed_First ==
  /\ turns' = 0 /\ read' = EmptyProgress
  /\ IF failedKey = inst
     THEN Finish("paused") /\ failedKey' = failedKey
     ELSE pc' = "top" /\ failedKey' = inst /\ outcome' = outcome

\* A worker that throws is tried once more; after a cancel the run is aborted.
Failed ==
  /\ turns' = 0 /\ read' = EmptyProgress
  /\ IF abortRequested
     THEN Finish("aborted") /\ failedKey' = failedKey
     ELSE IF failedKey = inst
     THEN Finish("paused") /\ failedKey' = failedKey
     ELSE pc' = "top" /\ failedKey' = inst /\ outcome' = outcome

DispatchRead ==
  /\ pc = "dispatch"
  /\ IF progress.phase # "writing"
     THEN Failed
     ELSE pc' = "save" /\ read' = progress /\ UNCHANGED <<failedKey, turns, outcome>>
  /\ UNCHANGED <<progress, pendingSteer, flags, inst, repeats, steps, ctl, history>>

DispatchSave ==
  /\ pc = "save"
  /\ pc' = "llm"
  /\ progress' = DispatchedProgress(read, inst.chapter)
  /\ read' = EmptyProgress
  /\ UNCHANGED <<pendingSteer, flags, inst, repeats, failedKey, steps, turns, outcome, ctl, history>>

-----------------------------------------------------------------------------
(* The worker.  The language model answers in its own time, or never. *)

\* Slip: the first wait is not raced against the abort.
AbortWait_Late ==
  /\ pc = "llm" /\ abortRequested /\ turns > 0
  /\ Finish("aborted") /\ turns' = 0
  /\ UNCHANGED <<progress, pendingSteer, flags, read, inst, repeats, failedKey, steps, ctl, history>>

\* The abort of the run rejects the wait for the language model.
AbortWait ==
  /\ pc = "llm" /\ abortRequested
  /\ Finish("aborted") /\ turns' = 0
  /\ UNCHANGED <<progress, pendingSteer, flags, read, inst, repeats, failedKey, steps, ctl, history>>

\* The answer is a tool call; each tool begins by reading the progress record.
LlmCallsTool ==
  /\ pc = "llm" /\ ~abortRequested /\ turns < MaxWorkerTurns
  /\ pc' = "tool" /\ turns' = turns + 1
  /\ UNCHANGED <<progress, pendingSteer, flags, read, inst, repeats, failedKey, steps, outcome,
                 ctl, history>>

\* The answer is a last word, which may come together with a cancel.
LlmEnds ==
  /\ pc = "llm" /\ turns < MaxWorkerTurns
  /\ pc' = "top" /\ turns' = 0 /\ failedKey' = NoInstruction
  /\ UNCHANGED <<progress, pendingSteer, flags, read, inst, repeats, steps, outcome, ctl, history>>

\* The completion fails, or the worker has used its turns.
LlmThrows ==
  /\ pc = "llm" /\ Failed
  /\ UNCHANGED <<progress, pendingSteer, flags, inst, repeats, steps, ctl, history>>

Refuses(p) ==
  IF inst.agent = "writer" THEN p.phase # "writing" \/ inst.chapter # ExpectedChapter(p)
                           ELSE ~MayComplete(p, p.total)

\* commit_chapter of the instruction's chapter, whose draft is there, or
\* complete_book.  A chapter that is committed is skipped.
ToolRead ==
  /\ pc = "tool"
  /\ IF inst.agent = "writer" /\ progress.phase = "writing"
        /\ inst.chapter \in ToSet(progress.completed)
     THEN pc' = "llm" /\ UNCHANGED <<read, failedKey, turns, outcome>>
     ELSE IF Refuses(progress)
     THEN Failed
     ELSE pc' = "toolSave" /\ read' = progress /\ UNCHANGED <<failedKey, turns, outcome>>
  /\ UNCHANGED <<progress, pendingSteer, flags, inst, repeats, steps, ctl, history>>

ToolSave ==
  /\ pc = "toolSave"
  /\ pc' = "llm"
  /\ progress' = IF inst.agent = "writer" THEN CommittedProgress(read, inst.chapter)
                                          ELSE [read EXCEPT !.phase = "complete"]
  /\ read' = EmptyProgress
  /\ UNCHANGED <<pendingSteer, flags, inst, repeats, failedKey, steps, turns, outcome, ctl, history>>

\* The promise of run() settles: the result, or AbortedError.
Return ==
  /\ pc = "ending"
  /\ pc' = "off" /\ running' = FALSE /\ abortRequested' = FALSE
  /\ read' = EmptyProgress /\ inst' = NoInstruction /\ repeats' = 0
  /\ failedKey' = NoInstruction /\ steps' = 0 /\ turns' = 0
  /\ UNCHANGED <<progress, pendingSteer, pauseRequested, waiting, outcome, ctl, history>>
=============================================================================

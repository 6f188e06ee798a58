------------------------------ MODULE BookLoop ------------------------------
(***************************************************************************)
(* One book written by one engine: the serial loop of                      *)
(* src/src/engine/index.ts (load the state, route, dispatch a worker) and  *)
(* the worker's tool loop of src/src/workers/loop.ts.  The tools are in    *)
(* Book.  Nobody else writes the store here; pause, resume, steer and      *)
(* cancel are the subject of Engine.                                       *)
(*                                                                         *)
(* A tool writes several files one after the other, and the process may    *)
(* die between two of them.  A tool call therefore computes `script`, the  *)
(* stores that exist after each of its writes, and WriteNext makes them    *)
(* real one at a time; Crash drops what is left.                           *)
(*                                                                         *)
(* The language model chooses the calls and their arguments.  LanguageModel *)
(* is "adversary" (any call its agent's tools allow), "focused" (the same,  *)
(* about nothing but the chapter, arc or volume of its instruction) or      *)
(* "cooperative" (it does what the instruction says and nothing else).      *)
(***************************************************************************)
EXTENDS Route, ProgressOps

CONSTANTS
  MaxSteps,          \* instructions in one run of the engine
  MaxWorkerTurns,    \* tool calls in one worker
  DeadlockAbortAt,   \* dispatches of one instruction in a row that stop the run
  LanguageModel,     \* how far the language model follows the instruction
  Crashes,           \* TRUE: the process may die at any moment
  PlanTiers,         \* tiers the keywords of a start prompt may select
  Scales,            \* `scale` arguments the model may give, besides none
  MaxChapter,        \* bound: chapters and outline capacity
  FlatLengths,       \* lengths of the flat outlines the model may save
  LayeredPlans,      \* layered outlines it may save, as they are parsed
  Expansions,        \* [size, plan] it may give a skeleton arc
  NewVolumes,        \* volumes it may append, as it supplies them
  IssueLists,        \* sorted chapters a review may require to be changed
  VolumeIndexes,     \* indexes it may name in a summary call
  ArcIndexes

Numbers == 1..MaxChapter

Adversary == LanguageModel = "adversary"

Cooperative == LanguageModel = "cooperative"

ASSUME BoundsAssumption ==
  /\ MaxSteps \in Nat \ {0} /\ MaxWorkerTurns \in Nat \ {0}
  /\ DeadlockAbortAt \in Nat \ {0, 1} /\ MaxChapter \in Nat \ {0}
  /\ LanguageModel \in {"adversary", "focused", "cooperative"} /\ Crashes \in BOOLEAN

ASSUME InputAssumption ==
  /\ PlanTiers \subseteq Tiers /\ Scales \subseteq Tiers
  /\ FlatLengths \subseteq Numbers
  /\ IssueLists \subseteq Seq(Numbers)
  /\ LayeredPlans \subseteq Seq(VolumeOutline) /\ NewVolumes \subseteq VolumeOutline
  /\ Expansions \subseteq [size : Nat, plan : STRING]

\* Parsing a whole outline looks at nothing but its content: what comes of it can
\* be supplied in its place.  A volume of it has its title, or one from its position.
ASSUME ParsedAssumption ==
  \A vols \in LayeredPlans : \A v \in DOMAIN vols : vols[v].title # NoTitle

VARIABLES
  store,      \* what is on disk
  pc,         \* "idle", "loop", "route", "work", "tool" (writes left) or "failed"
  next,       \* what route() and the plan-start fallback chose
  inst,       \* the last instruction of this run, whose key is lastKey
  repeats,    \* how often in a row it was routed
  failedKey,  \* the instruction whose worker failed last
  steps,      \* instructions dispatched in this run
  turns,      \* tool calls made by this worker
  script,     \* stores after each write the running tool has left
  failing     \* the running tool throws after its last write

vars == <<store, pc, next, inst, repeats, failedKey, steps, turns, script, failing>>

EmptyStore ==
  [ progress |-> EmptyProgress, tier |-> "", files |-> {}, outlined |-> 0, volumes |-> <<>>,
    drafts |-> {}, finals |-> {}, summaries |-> {}, globalReviews |-> {}, arcReviews |-> {},
    arcSummaries |-> {}, volumeSummaries |-> {}, prompt |-> "short" ]

Init ==
  /\ store = EmptyStore /\ pc = "idle"
  /\ next = NoInstruction /\ inst = NoInstruction /\ repeats = 0
  /\ failedKey = NoInstruction /\ steps = 0 /\ turns = 0 /\ script = <<>> /\ failing = FALSE

-----------------------------------------------------------------------------
(* The engine loop. *)

\* run(): a new run starts with fresh counters.  bootstrap() finds progress there
\* and records the prompt, of which only the tier its keywords select matters.
StartRun(tier) ==
  /\ pc = "idle"
  /\ pc' = "loop"
  /\ store' = [store EXCEPT !.prompt = tier]
  /\ UNCHANGED <<next, inst, repeats, failedKey, steps, turns, script, failing>>

Stop ==
  /\ pc' = "idle" /\ next' = NoInstruction /\ inst' = NoInstruction /\ repeats' = 0
  /\ failedKey' = NoInstruction /\ steps' = 0 /\ turns' = 0 /\ script' = <<>> /\ failing' = FALSE

\* planStartFallback: before any tier is known the prompt decides it, once.
PlanStartDue ==
  /\ store.tier = ""
  /\ store.progress.phase \notin {"writing", "complete"}
  /\ FoundationMissing(store) # {}

NextInstruction ==
  LET routed == RouteOf(AssembleState(store))
  IN  IF routed = NoInstruction /\ PlanStartDue
      THEN Instruction(PlannerForTier(store.prompt), "plan_start", {}, <<>>, 0)
      ELSE routed

LoadState ==
  /\ pc = "loop" /\ steps < MaxSteps
  /\ pc' = "route"
  /\ next' = NextInstruction
  /\ UNCHANGED <<store, inst, repeats, failedKey, steps, turns, script, failing>>

Repeats == IF next = inst THEN repeats + 1 ELSE 1

\* A finished book, nothing to do, the same instruction too often in a row.
NothingToDispatch ==
  \/ store.progress.phase = "complete"
  \/ next = NoInstruction
  \/ Repeats >= DeadlockAbortAt

FinishRun ==
  /\ \/ pc = "loop" /\ steps = MaxSteps
     \/ pc = "route" /\ NothingToDispatch
  /\ Stop
  /\ UNCHANGED store

Dispatch ==
  /\ pc = "route" /\ ~NothingToDispatch
  /\ pc' = "work"
  /\ inst' = next
  /\ next' = NoInstruction
  /\ repeats' = Repeats
  /\ steps' = steps + 1
  /\ store' = IF next.agent = "writer"
              THEN [store EXCEPT !.progress = DispatchedProgress(@, next.chapter)]
              ELSE IF next.kind = "plan_start"
              THEN [store EXCEPT !.tier = store.prompt]
              ELSE store
  /\ UNCHANGED <<failedKey, turns, script, failing>>

\* The worker returned: its instruction counts as done.
WorkerDone == pc' = "loop" /\ turns' = 0 /\ failedKey' = NoInstruction

\* The worker threw: one retry, then the run stops.
WorkerFailed ==
  /\ pc = "failed"
  /\ IF failedKey = inst
     THEN Stop
     ELSE /\ pc' = "loop" /\ failedKey' = inst /\ turns' = 0
          /\ UNCHANGED <<next, inst, repeats, steps, script, failing>>
  /\ UNCHANGED store

Crash ==
  /\ Crashes /\ pc # "idle"
  /\ Stop
  /\ UNCHANGED store

-----------------------------------------------------------------------------
(* The worker loop. *)

\* The tool that fills a missing item.
FillTool(item) ==
  CASE item = "book"             -> "save_book"
    [] item = "outline"          -> IF ResolveFoundationTier(store) = "short"
                                    THEN "outline" ELSE "layered_outline"
    [] item = "foundation_audit" -> "audit_foundation"
    [] item \notin {"book", "outline", "foundation_audit"} -> item

\* What a cooperative model does next; "done" ends its work.
Asked ==
  CASE inst.kind \in {"plan_start", "fill"} ->
         IF FoundationMissing(store) = {} THEN {"done"}
         ELSE {FillTool(item) : item \in FoundationMissing(store)}
    [] inst.kind \in {"write", "rewrite", "polish"} ->
         IF turns = 0 THEN {"draft_chapter"} ELSE IF turns = 1 THEN {"commit_chapter"} ELSE {"done"}
    [] inst.kind \notin {"plan_start", "fill", "write", "rewrite", "polish"} ->
         IF turns > 0 THEN {"done"}
         ELSE CASE inst.kind = "expand_arc"     -> {"expand_next_arc"}
                [] inst.kind = "new_volume"     -> {"append_volume", "complete_book"}
                [] inst.kind = "outline_done"   -> {"complete_book"}
                [] inst.kind = "arc_summary"    -> {"save_arc_summary"}
                [] inst.kind = "volume_summary" -> {"save_volume_summary"}
                [] inst.kind \in {"arc_review", "refresh_arc_review",
                                  "global_review", "refresh_global_review"} -> {"save_review"}

\* A call of `tool` by a worker of one of `agents`.
Calls(agents, tool) ==
  /\ pc = "work" /\ inst.agent \in agents /\ turns < MaxWorkerTurns
  /\ Cooperative => tool \in Asked

\* Slip: the turn is not counted.
Reply_Uncounted(ok, writes) ==
  /\ turns' = turns
  /\ script' = writes
  /\ failing' = (~ok /\ writes # <<>>)
  /\ pc' = IF writes # <<>> THEN "tool" ELSE IF ok THEN "work" ELSE "failed"
  /\ UNCHANGED <<store, next, inst, repeats, failedKey, steps>>

\* The call writes `writes` in turn; then the worker goes on, or throws.
Reply(ok, writes) ==
  /\ turns' = turns + 1
  /\ script' = writes
  /\ failing' = (~ok /\ writes # <<>>)
  /\ pc' = IF writes # <<>> THEN "tool" ELSE IF ok THEN "work" ELSE "failed"
  /\ UNCHANGED <<store, next, inst, repeats, failedKey, steps>>

WriteNext ==
  /\ pc = "tool"
  /\ store' = Head(script)
  /\ script' = Tail(script)
  /\ pc' = IF Tail(script) # <<>> THEN "tool" ELSE IF failing THEN "failed" ELSE "work"
  /\ failing' = (failing /\ Tail(script) # <<>>)
  /\ UNCHANGED <<next, inst, repeats, failedKey, steps, turns>>

EndTurn ==
  /\ pc = "work" /\ turns < MaxWorkerTurns
  /\ Cooperative => "done" \in Asked
  /\ WorkerDone
  /\ UNCHANGED <<store, next, inst, repeats, steps, script, failing>>

\* Out of turns, a failed completion, an unknown tool or unusable arguments.
WorkerThrows ==
  /\ pc = "work"
  /\ Cooperative => turns = MaxWorkerTurns
  /\ pc' = "failed"
  /\ UNCHANGED <<store, next, inst, repeats, failedKey, steps, turns, script, failing>>

\* novel_context, read_chapter and plan_chapter: nothing routing depends on.
Consult ==
  /\ ~Cooperative /\ pc = "work" /\ turns < MaxWorkerTurns
  /\ Reply(TRUE, <<>>)
=============================================================================

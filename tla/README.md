# Verification of novel-engine

TLA+ models of novel-engine, the TypeScript engine in which a language model plans, writes and
reviews a book through tools, and a deterministic loop decides what it is asked to do next. The
models are translated from the sources under `src/src/` (the repository root is `src/`), checked
with TLC on small instances, and in part proved with TLAPS for every value of the constants.

## 1. The system

One JavaScript thread runs everything. Nothing is atomic but the code between two `await`s; every
file access and every completion of the language model is awaited. All lasting state is in files.

| Component | State it keeps | Operations | Talks to |
|---|---|---|---|
| domain rules (`domain/`) | none; the shape of the progress record | phase and flow transitions, next chapter, review cadence, planner of a tier | everybody |
| layered outline (`store/layered.ts`) | `layered_outline.json` | flatten, arc boundary, completed arcs, expand an arc, append a volume | tools, snapshot |
| router (`flow/`, `store/state.ts`, `store/foundation.ts`) | none | gaps of the foundation, snapshot of the store, next instruction | engine loop |
| engine loop (`engine/`) | `lastKey`, `repeats`, `failedKey`, step count | load, route, plan-start fallback, deadlock guard, dispatch, one retry | router, worker loop, store |
| engine control (`engine/index.ts`, `abort.ts`) | `pauseRequested`, `resumeWaiter`, `running`, `abortRequested`; `run_meta.pendingSteer` | run, pause, resume, steer, cancel | engine loop (shared flags), store (shared progress record) |
| worker loop (`workers/loop.ts`) | turn count, messages | ask the model, execute its calls, give up | language model, tools |
| tools (`workers/tools.ts`) | progress record, artifacts, chapters, reviews, summaries | 13 tools of architect, writer and editor | store |
| session (`session/novel-session.ts`) | `busy`, `generating`, `autoWritePreEngine`, `runningEngine`, `abortCtls`, `closed` | start automatic writing, generate, apply a change, control calls, close | engine, chapter runner, store |
| chapter runner (`session/chapter.ts`) | none beyond the store | write, saveFinal, delete one chapter | store, language model, writer tools |
| foundation writing (`session/foundation-write.ts`, `generate.ts`, `gaps.ts`) | the six files of the foundation, audit file | patch files in order, invalidate the audit, inspect gaps, generate what is missing | store, language model |
| impact analysis (`session/impact.ts`) | none | assess what a change means for written chapters, merge, refine with the model | foundation writing, session |
| workspace, kit (`session/workspace.ts`, `kit/`) | `_index.json` and its copy in memory, the current session or worker | create the kit, create a book, switch, dispose | sessions, workers, stores |
| store backends (`store/opfs.ts`, `memory.ts`, `io.ts`) | files, temporary files, handles | read, write by temporary file and move, append, remove | browser file system |
| worker bridges (`host/`, `session/server.ts`, `client.ts`, `worker.ts`) | pending calls of the client, the engine or session of the server | calls and answers over a port, signals, close, detach | engine, session |
| snapshot and context (`store/snapshot.ts`, `context.ts`, `audit.ts`) | an append-only log | export and import, prompts | store, language model |
| language model adapters (`adapters/llm/`, `llm/mock.ts`) | none | complete, abort | remote services |

What is hard here:

* the loop, a running worker and the control calls all read the progress record, await, and save a
  record computed from what they read;
* a control call may fall at any await, and `pause`/`cancel` meet a loop that is parked, a worker
  that waits for a model that may never answer, or a run that is in its last step;
* a tool writes several files one after the other and the process may die between two of them;
  the next run must make sense of what is there;
* the language model chooses calls and arguments: duplicate indexes, wrong chapters, calls out of
  order, calls repeated because an answer was lost;
* chapter numbers run through volumes and arcs that are expanded while the book is written;
* a change of the foundation is assessed, confirmed by the host and written, with awaits between,
  while written chapters rest on what was there before;
* calls to a worker are answered in another order than they were sent in, and a signal, a close or the
  end of the worker may overtake them;
* while books are switched two sessions and two threads exist, and every wait of the switch may fail.

What makes each component correct: a completed chapter has its text; writing starts only on a whole
foundation; chapters are committed in order; the flow and the queue of rewrites agree; reviews and
summaries are never skipped for good; completion is earned; the outline grows only ahead of what
is written; the engine is never without a next step until the book is complete; runs end; a pause,
a steer and a cancel do what they say; long calls of a session exclude each other, and where a call looks
at its signal before it saves a cancelled one saves nothing; a chapter reported saved stays; written chapters do not come to contradict the
foundation unasked; a call gets its own answer and settles; one session serves and the kit holds it; a
created book stays listed. Each is stated below, at the module that has it.

## 2. Modules

```
Domain --> ProgressOps ----------------------+
   |                                          |
   +--> Route (with Outline) --> BookLoop --> Book --> BookProperties --> MCBook
   |                                                     |     |
   |                                       Manuscript <--+     +--> BookProofs (OperatorProofs)
   +--> Route, ProgressOps --> EngineLoop --> Engine --> MCEngine
                                                |
                                                +--> EngineProofs
ProgressOps --> Chapters --> MCChapters
                   +-------> ChaptersProofs
AtomicFile --> OpfsStore --> MCOpfsStore
                  +--------> OpfsStoreProofs
Session --> MCSession
   +--------------------> SessionProofs
Impact --> Foundation --> SessionProofs
               +--------> MCFoundation
Bridge --> MCBridge
   +-----> BridgeProofs
Kit --> MCKit
   +--> KitProofs
```

| Module | Models | How |
|---|---|---|
| `Domain` | `domain/` | operators; `Progress` is the record of `domain/progress.ts`, `current = 0` where the code leaves `currentChapter` out |
| `ProgressOps` | the records dispatch, commit and complete_book save | pure functions of the record that was read, shared by Book, Engine and Chapters; `Without` is the `filter` of the code, which `WithoutFilters` of `MCBook` checks |
| `Outline` | `store/layered.ts` | an arc is `[index, size, est, plan]`; boundaries by counting the chapters of a set of positions, as cardinalities; `ExpandArcAt`, `AppendVolumePlan` return `[ok, vols]` |
| `Route` | `store/foundation.ts`, `store/state.ts`, `flow/route.ts` | `AssembleState` is the snapshot, `RouteOf` the priority table; an instruction is its agent, the name of its sentence and what the sentence is filled with, because the counters compare agent and text |
| `BookLoop` | `engine/index.ts` loop, `engine/plan-start.ts`, `workers/loop.ts`, a crash | one engine, one store; a tool call computes `script`, the stores after each of its writes, and `WriteNext` makes them real one at a time |
| `Book` | all of `workers/tools.ts` that changes the store | one action per tool and per type of `save_foundation` |
| `BookProperties` | what must hold of a book | and the refinement mapping to `Manuscript` |
| `Manuscript` | the promise | chapters appear one at a time, each the next after the last or one a review asked for, no other while any are asked for; none disappears; finished once, with an empty queue |
| `EngineLoop`, `Engine` | `engine/index.ts` await by await, `abort.ts` | the loop's place is `pc`; each steer() and resume() in flight has a slot with what it has read |
| `Session` | the calls of `session/novel-session.ts` that can be cancelled, `abort.ts` | a call in flight has a slot and is at a wait, `at`; `After` says which wait may follow which; the `finally` blocks of `withAbort` and `withBusy` are steps |
| `Chapters` | `session/chapter.ts`, with dispatch and commit of automatic writing | one step per access to the store; `seen` is the record a call has read; files are sets of chapters |
| `OpfsStore` | `write` and `remove` of `store/opfs.ts` | one step per access to the browser's file system, each of which may fail; `file` and `tmp` are the path and its temporary file |
| `AtomicFile` | the promise of `ports/store.ts` for one path | a write takes effect at one moment, or not at all |
| `Impact` | `session/impact.ts` | pure operators: outlines are functions from chapters to `[title, plot]`, the bible and the rules functions from names to content; severities and modes are their ranks |
| `Foundation` | `upsertFoundation`, `generateFoundation`, `applyFoundationChange` and the first half of `startAutoWrite`, with `foundation-write.ts`, `generate.ts`, `gaps.ts` | a call goes from wait to wait; a patch is written one file per step, then the audit is removed; each call is one of `Callers` |
| `Bridge` | `session/client.ts` and `server.ts`, `host/client.ts` and `server.ts` | a call is its number, which is the id of its message; messages and answers are queues; handlers are in flight together |
| `Kit` | `kit/novel-kit.ts` on `session/workspace.ts`, or on workers (`connect-worker.ts`, `worker-runtime.ts`) and `book-index.ts` | a call is at a wait: for the list, the store, the worker; each may fail |
| `OperatorProofs`, `BookProofs`, `EngineProofs`, `SessionProofs`, `ChaptersProofs`, `OpfsStoreProofs`, `BridgeProofs`, `KitProofs` | the proofs | section 5; `OperatorProofs` holds the lemmas about `Without`, outlines and sets of numbers, `SessionProofs` the proofs of `Session` and `Foundation` |
| `MCBook`, `MCEngine`, `MCSession`, `MCChapters`, `MCOpfsStore`, `MCFoundation`, `MCBridge`, `MCKit` | inputs | small books, outlines, patches, answers, records to begin with |

How they fit together: `Session` says which calls may run at the same time, `Chapters` what those do
to one progress record, `Engine` what the run held by an automatic writing call does when it is
paused or cancelled, and `Book` what a run writes. `RunAborted` and `RunReturns` of `Session` stand for
the end of a run, which `CancelEnds` and `CancelAborts` of `Engine` are about. `OpfsStore` shows that the write of
a path that has a content may be taken as atomic, as the other modules do; the write of a new path that dies
in the copy can leave an empty file, which `Book`, `Kit` and `Chapters` leave out. `MayStart` of
`Chapters` is what `LongCallsExclude` of `Session` establishes. `Foundation` shows what the long calls of
`Session` read and write between the same waits; its audit file is what the gaps of `Route` look for.
`Bridge` stands between a host and one `Session` or `Engine`: a call that works there is one of theirs,
and the flag under which its long calls exclude each other is the one `LongCallsExclude` is about. `Kit`
makes and ends the sessions and workers that `Bridge` and `Session` take as given.

`Slip` operators (`CommitWrites_ProgressFirst`, ...) stand before the definition they vary. Each is
a plausible bug; the property it breaks is listed in `PROJECT.json` under `mutants`.

Abstractions that matter:

* `OpfsStore` is about one path: renaming and copying touch no other. A stream fills a buffer that
  becomes the content on close, and locks its file; that is the File System Standard, not the
  repository. `AtomicFile` lets a file that did not exist be seen empty first, because a copy creates it
  before it has a content; nothing in the code promises otherwise.
* In `Book` nobody but the engine writes the store, and a single file write is atomic, also that of a new
  path. In `Engine`
  the tools are reduced to a writer's commit and an architect's complete_book: what matters there is
  that they read and later save the progress record.
* The model makes one tool call per answer; an answer with several calls is several turns, so the
  turn bound counts calls. The contents of files are not modelled, only whether they exist; `plan`
  stands for the text of an arc or a volume, so that "the same" and "another" can be told apart. Its title
  is kept apart from that: `append_volume` parses its argument anew at each call (`ParseVolumeOutline`), and a volume without a
  title is given the number of volumes as one. `LayeredPlans` are as they are parsed, so that they have titles.
* The model does not send `sessionOverride`, which the comment in `commit_chapter` reserves for the
  session. A review of scope "chapter" has the effects of "global".
* `LanguageModel` is `"adversary"` (any call of the agent's tools with any argument), `"focused"`
  (any call, but about the chapter, arc or volume of its instruction) or `"cooperative"` (does what
  the instruction says). Safety runs use the first two, `book_finish` the last.
* In `Session` what a call reads decides nothing: where the code branches on it, every branch may be
  taken. Waits without a decision between them are one wait. A `chapter.delete` may go on to save the
  outline, as it does with `syncOutline`, and looks at no signal. The short calls (queries,
  `upsertFoundation`, `importSnapshot`) take neither flag nor controller and are left out.
* In `Foundation` a patch or an answer of the model parses and is normal; text that does not throws
  before anything is written. The audit's fingerprint is whether the audit is there. `hit` of a call,
  which no part of the code has, remembers the chapters its writes have come to contradict; what
  contradicts a chapter is `Contradicted` of `Impact`, which looks at the old and the new foundation and
  the names a chapter mentions, and at nothing the assessment computes. Reasons and notes, which name no chapter, are left out.
* In `Bridge` ports deliver once and in order, as message ports do. What a call does is a time of work
  that ends by itself or, for `Long` kinds, with the model. Work at "refine" waits for the model to refine an
  assessment: `assess` and `apply` are the calls that do, and only the model ends it. Events and notices, which nobody answers, and
  how an error is encoded are left out.
* In `Kit` a write of the list of books lands whole or fails. A session or worker is a number in
  `sessions`; whether it is open and whether its thread lives are what matters of it. `served` and
  `created` remember what the kit has held and what a host was told.
* `Chapters` leaves out the plan file, which a deletion removes like the others and which only gives a
  title, and what the outline becomes with `syncOutline`. The writer may draft and commit any chapter, as `chapter.write` does not
  check which one its model names.

## 3. What the runs check

| Run | Bounds | Properties |
|---|---|---|
| `book_flat` | 3 chapters, a review every 2 that asks for nothing, for chapter 1 or for chapter 3 written or not, 3 steps per run, 2 calls per worker, any number of runs, crashes, adversary | `CommittedHasFinal`, `WritingHasFoundation`, `FlowMatchesQueue`, `DuesBeforeWriting`, `ImplementsManuscript`, `RunsEnd` |
| `book_layered` | 4 chapters, a volume of an arc and a skeleton with and without equal indexes, to append a final volume with and without a title, an architect that gives a scale or none, one step per run, 3 calls per worker, any number of runs, crashes, focused | `DuesBeforeWriting`, `WriteInsideOutline`, `NoVolumeTwice`, `CompletionIsEarned`, `OutlineGrowsAhead` |
| `book_finish` | flat of 2 or 3 chapters, or layered with expansion and a final volume, cooperative, no crash | `FinalVolumeIsLast`, `BookIsFinished` |
| `engine_calm` | a book with one chapter of two written and nothing, a polish or a rewrite queued; calls one at a time while the loop rests; pause and cancel at any moment | `SteerHolds`, `FlowRestored`, `CancelAborts`, `PauseYields`, `CommitsKept` |
| `engine_wakes` | a steer or a resume at any moment, with pauses and cancels while it is in flight; engines replaced; a model that may never answer | `CancelEnds`, `ResumeWakes` |
| `session` | two calls in flight, of every kind; cancel, abort, pause, close at any moment | `LongCallsExclude`, `RunStateTells`, `CancelIsHonoured`, `SavesAreWanted`, `CancelEnds` |
| `chapters` | two chapters, records from none to finished and with rework queued, one call after the other, crashes | `CompletedHasText`, `KeptStays`, `DeletionIsThrough`, `EditsKeepComplete` |
| `opfs` | one path, two contents, one call after the other, a temporary file left by an earlier crash or none, failure of any access, crashes | `ImplementsFile` |
| `foundation` | three books of three chapters: flat and written, layered with a gap, empty; two calls, one at a time, among 19 patches (one that changes nothing), every option, four answers and five refinements of the model; an engine that writes and audits; failures and crashes | `StaleIsConfirmed`, `FillClosesGaps`, `SyncReachesStale`, `FillsOnlyGaps` |
| `bridge` | a session, an engine, or an engine that takes its time to be made; three messages of any kind at any moment, signals, close, detach; a model that may be silent | `AnswersMatch`, `OneAtATime`, `CallsSettle` |
| `kit` | three books, both runtimes, four sessions to a page, one call at a time, failure of any wait, disposal in the middle, any number of reloads | `OneServing`, `KitServes`, `CreatedIsListed` |
| `queue_drains` | as `book_finish`, with reviews that require chapter 1 to change | `QueueDrains` is violated |

`MCFoundation` also checks, as an assumption TLC evaluates, that `suggestedRanges` of an assessment hold
exactly its chapters, for every set of chapters up to 6; `MCBook`, that `Without` of `ProgressOps` is
the filter of the code, for every list of up to four chapters.

Why the bounds are enough: runs are restarted without limit, so the bound on steps limits only what
one run's counters see; two calls per worker let a call be repeated, be made too early, or follow
complete_book; three chapters with a review every two give a chapter before, at and after a review;
the layered book has an arc end inside a volume, at its end, and at the end of the final volume.
In `Engine` one slot is enough for a call against the loop. In `Session` the flag, the controllers and
the engine are told apart by two calls. In `Chapters` two chapters give an earlier and a later one,
and a chapter that is asked for and one that the model names instead. In `OpfsStore` two contents tell
the old from the new, and the model has no other bound. In `Foundation` a chapter is written, drafted or
blank, and mentions names that change, go, or stay; a first call makes the gap or the audit that the
second one meets. In `book_layered` one step per run
is enough: what a run keeps between its steps, which is counters and the last instruction, decides when it ends and writes nothing,
so that runs of one step reach the stores that longer runs reach. `book_flat` has three, for the counters. In `Bridge` three messages give two whose answers can change places and one that
cancels, and an engine a third to be made while two are. In `Kit` a call closes one session and opens
another, and a third book is neither of them; four sessions are two switches and what failed between.

Fairness. `FairRun` says that a run that is started goes on (`WF` of the engine and of the worker,
which includes that the model answers every request: a run waits for it without a timeout, so
`RunsEnd` is not true without it). `FairBook` adds that the user starts the next run. In `Engine`,
`FairSpec` makes the loop and the calls in flight go on, because file accesses settle, but not the
model: `CancelEnds` holds although it may never answer. `FairSpec` of `Session` is the same, and takes
from `Engine` that a cancelled run ends. There too the model may be silent, also when it is asked to refine an assessment: that
request has no signal, so `CancelEnds` of `Session` excepts the calls that wait for it. `FairSpec` of `Bridge` says that ports deliver, that a
handler goes on at each of its awaits, and that work ends that does not wait for the model or has been told to stop, unless it
is at "refine", which no signal reaches; a detached server need not
answer, so `CallsSettle` asks it of one that listens.

### Where the code stops short

One disagreement has a run. `queue_drains`: `commit_chapter` skips a chapter that is already
completed before it takes it out of `pendingRewrites`, so a reviewed chapter stays queued, the
router asks for the same rewrite again, and the run pauses as deadlocked.

Others appear when a bound that is named in a cfg, or a property, is changed as the table says; with more
calls at once the other inputs have to be cut down for TLC to get there. The properties are those above. Where a document, a comment or a message of the code promises what is violated, the last column quotes it.

| Property | Change | What happens |
|---|---|---|
| `CommitsKept`, `SteerHolds` | `MidRun = TRUE` in `engine_calm` | a steer() called while a worker commits may save the record from before the commit (`engine/index.ts:179`); dispatch and commit save the flow they had read over `steering`. `docs/architecture.md:40`: "`pause` / `steer` take effect after the current Worker instruction, not mid-tool", so the host may call it at any moment |
| `SteerHolds` | `Restarts = TRUE` in `engine_calm` | a new engine has no pause, and `route` looks at queued rewrites before the flow (`flow/route.ts:63`). `docs/architecture.md:40`: a steer sets the flow "so `route` returns null until `resume()`" |
| `PauseYields` | `Overlap` and `MidRun` `TRUE`, `Starts <- MCFresh` in `engine_calm` | a pause called while `resume()` awaits its files is cleared when it goes on (`engine/index.ts:150`). The comment at `engine/index.ts:122`: "Request a yield at the next loop boundary." |
| `CancelEnds` of `Session` | without `at[s] = "refine"` | the request that refines an impact assessment has no signal (`session/impact.ts:670`), so a cancelled `applyFoundationChange` stays in flight, and the session busy, until the model answers. `docs/api.md:226` has `cancel()` abort "other busy work" as well, whose "in-flight promise rejects `AbortedError`"; `docs/architecture.md:170`: "then busy and `runningEngine` are cleared" |
| `SavesAreWanted` | without `kind'[s] # "chapter.delete"` | `chapter.delete` drops the signal it is handed (`session/chapter.ts:199`): a cancelled deletion removes the files, saves the outlines with `syncOutline` (`session/chapter.ts:338`), and resolves. `docs/architecture.md:166` counts it among the busy work of `docs/api.md:226` |
| `CompletionIsEarned` | a flat book of 4 whose reviews may name `<<4>>`, focused, 3 calls per worker | `save_review` takes any chapter number (`workers/tools.ts:605`): chapter 4 is queued and written, the highest chapter is then the last one, and the book is completed without chapter 3. The guard that accepts it, `workers/tools.ts:288`, is meant to refuse when "大纲内还有未写章节" (the outline has unwritten chapters) |
| `FinalVolumeIsLast` | `Crashes = TRUE` in `book_finish` | after a crash between the last volume summary and the completion (`workers/tools.ts:751`) nobody completes the book, and a volume is asked for after the final one. `flow/route.ts:157` tells the architect that it completes by itself when written ("写完自动完结") |
| `FillsOnlyGaps` | two callers in `foundation` | a generation decides what is missing before it asks the model (`session/novel-session.ts:296`) and overwrites what the host has put in meanwhile. `docs/api.md:263`: "only keys that `inspectFoundation` still reports as gaps" |
| `OneServing` | two slots in `kit` | of two openings at once neither closes the session of the other (`session/workspace.ts:94`). `docs/architecture.md:174`: "`close()` / workspace `switchTo` / `open` close the previous session" |
| `FlowRestored` | `Overlap = TRUE`, two slots | the second of two steers takes `writing` for the flow to go back to |
| `DuesBeforeWriting` | a flat book of 6 whose reviews may name `<<5>>` | chapter 5 comes early, so that the number of committed chapters passes the even number at which a review is due |
| `OutlineGrowsAhead` | `LanguageModel = "adversary"`, 6 calls per worker, a volume of an arc, a skeleton, an arc and a skeleton with the index of the first one | the writer commits on past the first skeleton; the expansion meant for the second one is found by its index and put before a written arc |
| `WriteInsideOutline` | `LanguageModel = "adversary"` in `book_layered` | a writer that commits on passes the arc end the router looks for |
| `FinalVolumeIsLast` | a plan of two volumes with the index 1 in `book_finish`, the second one final | the summary of the first is found under the index of the second (`store/state.ts` looks summaries up by index), so the final volume counts as summarised when it is written, and a further volume is asked for |
| `FinalVolumeIsLast` | `LanguageModel = "focused"` in `book_finish`, 2 calls per worker, and a final volume of two arcs | an editor that was asked for the summary of the first arc saves that of the volume too (`workers/tools.ts:728` looks at no chapter); when the second arc is written nothing is left that completes the book |
| `NoVolumeTwice` | a volume with a skeleton for `NewVolumes` in `book_layered` | once the skeleton is expanded the volume is no longer the one that was supplied, and appending that one again appends it a second time (`sameVolumePlan` compares all but the indexes) |
| `KeptStays`, `DeletionIsThrough` | `Overlap = TRUE`, two slots in `chapters` | `saveFinal` takes no busy flag, and whichever of it and a concurrent write, deletion or automatic writing saves the record last undoes the other |
| `ImplementsFile` | `Overlap = TRUE`, two slots in `opfs` | a write that fails closes an empty stream into the temporary file another write is about to rename, so that the path is truncated |
| `StaleIsConfirmed`, `SyncReachesStale` | two callers in `foundation` | a call writes what it decided on before another call wrote: a confirmed change hits chapters that were written or changed meanwhile |
| `OneAtATime`, `CallsSettle` | the world `[family \|-> "session", slow \|-> TRUE]` in `bridge` | with a `createSession()` that waits, two first messages make two sessions (`session/server.ts:36`); `host/server.ts:17` says of its own factory "Called once" |
| `KitServes`, `CreatedIsListed` | two slots in `kit` | two switches at once leave the kit with a closed session, and a list of books that was taken from memory earlier is written later |

Seen while modelling, without a run or a property:

* Untitled volumes: `append_volume` called again with a volume that has no title appends it again. It parses its argument with
  the number of volumes there are (`workers/tools.ts:249`), which becomes the title (`store/layered.ts:410`), and the comparison with the
  last volume (`store/layered.ts:306`) sees another title. `UntitledIsAppendedAgain` proves it; `NoVolumeTwice` therefore counts
  two volumes as the same only if their titles are. No document promises more.
* Engine and session: a cancel in a run's last step, or while it routes, lets `run()` resolve
  (`CancelAborts` therefore speaks of a boundary ahead); a second review replaces the queue of the first;
  two overlapping `generateFoundation` calls share one flag, so `getRunState()` is `idle` while the
  second is still in flight; `close()` stops nothing and leaves no way to cancel what runs; a pause between the end of a run and its
  result answers `ok` without effect; a crash between `outline.json` and the total leaves the total
  behind; `expand_next_arc` has no phase guard and can grow the outline of a complete book. A book whose plan
  already ends with a final volume that is a skeleton is completed without it by the summary of the volume before:
  `maybeCompleteFinalVolume` counts the chapters of expanded arcs (`workers/tools.ts:851`), while
  `flow/route.ts:157` says of a final volume that the book completes when it is written.
* Foundation: `upsertFoundation` with a layered outline alone leaves `outline.json` as it was, and
  workers are shown that file (`store/layered.ts:320`, `store/context.ts:48`); a change of titles is
  dropped from an assessment when a plot changed as well; a name that is removed is no finding while
  nothing is written; an applied change that is cut short after the upsert cannot be taken up again,
  because the same patch then changes nothing; a crash between the files and the removal of the audit
  leaves an audit of an older foundation, which its fingerprint then gives away.
* Bridges: a call made on an engine client after `close()` never settles (`host/client.ts:80`); a
  signal is sent as `cancel`, which cancels every call of the session; an assessment that the model refines
  is reached by no cancel, and a change of the foundation not while the model refines its assessment (`CallsSettle` excepts both).
* Kit: a `dispose()` in the middle of a switch leaves the session or worker that the switch brings
  alive; a worker whose start failed or took too long, or whose entry in the list could not be written
  by `create()`, is left running; on the main thread a failed switch leaves the kit on a closed session; switching to
  the book that is open does not write the list; with workers it starts a second one; a book in memory
  is lost by a switch, because every worker has a store of its own.
* Lists and files: the list of books of a workspace and of the kit is marked as loaded before it has
  been read; `appendJsonl` reads, appends and writes, so that of two appends one is lost
  (`store/io.ts:50`); a read of OPFS that races a removal throws where it would have returned null
  (`store/opfs.ts:123`).

## 4. The properties and why they could fail

* `CommittedHasFinal`: rests on the order of the writes in `commit_chapter`.
* `WritingHasFoundation`: rests on the audit and on the phase guards of `save_foundation`.
* `FlowMatchesQueue`: three writers of the flow (dispatch, commit, review) and one queue.
* `DuesBeforeWriting`: reviews missed before a crash must be found again by the snapshot.
* `OutlineGrowsAhead`, `NoVolumeTwice`: calls repeated after a lost answer, arcs found by indexes
  that need not be unique, volumes known again by their text with the numbers taken out of it.
* `CompletionIsEarned`: two ways to complete, by tool and by the last volume summary.
* `FinalVolumeIsLast`: the last summary of a final volume must complete the book, or the router finds it
  there and asks for one volume more; it is found by an index, and may be saved early.
* `ImplementsManuscript`: every step of the engine, tools and crashes is a step of the abstract book
  or none. The mapping forgets files, instructions and counters and keeps the phase, the set of
  completed chapters and the set of queued ones.
* `ResumeWakes`, `CancelEnds`: no lost wake-up, and no wait a cancel does not reach; in `Session` but one, which is
  named there.
* `CommitsKept`: control calls and tools save the same record.
* `LongCallsExclude`: the flag is set after two checks and cleared in a `finally` that runs some awaits
  after the end of the call.
* `CancelIsHonoured`, `SavesAreWanted`: a cancel falls between any two waits; `due` remembers the
  calls that were cancelled where a check still lies ahead. The code promises no more: a cancel after
  the last check is too late and the call resolves. `SavesAreWanted` names two savings that no check precedes:
  that of the outline by a deletion, and those of the architects of an engine under way.
* `CompletedHasText`, `DeletionIsThrough`: files and record change one after the other, with crashes, and
  a deletion that was cut short is repeated.
* `KeptStays`, `EditsKeepComplete`: three ways to save the record and one to take a chapter out of it.
* `ImplementsFile`: the rename may fail anywhere and the copy takes over; temporary
  files of earlier crashes are found again; a failure after the copy is in place is reported although
  the write has taken effect.
* `PauseYields`: at most the instruction that was being routed is dispatched after a pause.
* `StaleIsConfirmed`, `SyncReachesStale`: the assessment compares rows, names and mentions in its own
  way per file, then the model may add to it; what contradicts a chapter is decided by the files. The
  model may only add chapters, and the gate reads what it returned.
* `FillClosesGaps`, `FillsOnlyGaps`: gaps, keys and prompts each decide which outline a tier has.
* `AnswersMatch`, `CallsSettle`: answers out of order, signals that overtake their call, two ways to end, and
  two kinds of call no signal ends while the model refines an assessment.
* `OneAtATime`: a session is made on the first message, of which there may be several.
* `OneServing`, `KitServes`: every wait of a switch may fail or see the kit disposed, and the old session
  is ended before the new one is there on the main thread, after it with workers.
* `CreatedIsListed`: the list is written whole from memory by every call that opens a book.

## 5. What is proved

| Theorem | States | For |
|---|---|---|
| `CommittedChaptersHaveFinals` | `Spec => []CommittedHasFinal` | every bound, input, language model; crashes |
| `WritingIsFounded` | `Spec => []WritingHasFoundation` | the same |
| `FlowFitsQueue` | `Spec => []FlowMatchesQueue` | the same |
| `BookIsManuscript` | `Spec => ImplementsManuscript` | the same |
| `DuesArePaid` | `Spec => [](layered \/ WrittenInTurn => DuesBeforeWriting)` | the same: layered books always, flat ones while chapters are committed in turn |
| `DuesArePaidInTurn` | `Spec /\ []QueueIsWritten => []DuesBeforeWriting` | any book whose reviews queue written chapters |
| `CompletionHasEveryChapter` | `Spec /\ []QueueIsWritten => CompletionIsEarned` | the same |
| `LayeredCompletionIsWhole` | `Spec /\ []FlatQueueIsWritten => CompletionIsEarned` | a model that keeps to its instruction (`~Adversary`); nothing is asked of a layered book's reviews |
| `WritingStaysInside` | `Spec => []WriteInsideOutline` | a model that keeps to its instruction, any review |
| `OutlineGrowsBehindNothing` | `Spec /\ []IndexesAreApart => OutlineGrowsAhead` | any model, while the indexes tell the arcs apart |
| `VolumesAreAppendedOnce` | `Spec => []NoVolumeTwice` | any model, calls repeated and crashes, if the plans supplied tell volumes apart (`PlansTell`); the same volume is one with the same title |
| `NothingIsAskedAfterTheFinalVolume` | `Spec => []FinalVolumeIsLast` | a model that does what it is told (`Cooperative`), no crash, every outline whose volume indexes rise (`PlansRise`), any review, expansion and volume |
| `AppendingTwiceIsOnce` | `append_volume` on the outline it has saved, with the same argument parsed anew, is accepted and changes nothing | every outline and every volume with a title |
| `UntitledIsAppendedAgain` | the same call of a volume without a title is accepted and appends it once more | every outline and such volume |
| `ExpandingTwiceIsOnce` | the same of `expand_next_arc` | every numbered outline whose arcs are told apart by their indexes |
| `EngineTypes` | `Spec => []TypeOK` of Engine | any number of overlapping calls, restarts |
| `ParkedLoopIsPaused` | `Spec => []ParkedIsPaused` | the same |
| `CancelIsHonoured` | `Spec => []CancelAborts` | the same |
| `PauseIsHonoured` | `Spec => []PauseYields` | when each call is awaited before the next (`~Overlap`) |
| `CommitsStay` | `Spec => CommitsKept` | the same, when steer() is called while the loop rests (`~MidRun`); restarts |
| `SteeringHolds` | `Spec => []SteerHolds` | the same without restarts |
| `FlowComesBack` | `Spec => []FlowRestored` | the same, from starts that suit their queue and are not steering (`StartsSuit`) |
| `SessionTypes` | `Spec => []TypeOK` of Session | any number of calls in flight, of any kinds |
| `LongCallsAreAlone` | `Spec => []LongCallsExclude` | the same |
| `CancelRejects` | `Spec => []CancelIsHonoured` | the same |
| `RunStateIsTrue` | `Spec => []RunStateTells` | the same |
| `OnlyWantedSaves` | `Spec => SavesAreWanted` | the same |
| `FoundationInvariant` | `FoundationSpec => []FoundationInv` | any books, patches, options, written chapters, answers and refinements, failures and crashes, one call in flight (`OneCaller`) |
| `StaleConfirmed` | `FoundationSpec => []StaleIsConfirmed` | the same |
| `SyncIsComplete` | `FoundationSpec => SyncReachesStale` | the same |
| `FilledIsWhole` | `FoundationSpec => []FillClosesGaps` | the same |
| `FillingReplacesNothing` | `FoundationSpec => FillsOnlyGaps` | the same |
| `CompletedChaptersHaveText` | `Spec => []CompletedHasText` | any chapters and starts, when each call is awaited before the next (`~Overlap`); crashes |
| `ReportedChaptersStay` | `Spec => []KeptStays` | the same |
| `DeletionsAreThrough` | `Spec => DeletionIsThrough` | the same |
| `EditsKeepFinished` | `Spec => EditsKeepComplete` | the same |
| `NothingTruncated` | `Spec => NeverTruncated` of OpfsStore | any contents, when no two calls write a path at once (`~Overlap`) |
| `StoreIsAtomicFile` | `Spec => ImplementsFile` | the same |
| `AnswersAreOwn` | `Spec => []AnswersMatch` | any number of messages, both bridges, slow or not |
| `WorkerIsAlone` | `Spec => []OneAtATime` | the same, if a session is made without waiting |
| `CreatedStaysListed` | `Spec => []CreatedIsListed` | any books and sessions, when each call of the kit is awaited before the next |
| `OneSessionServes` | `Spec => []OneServing` | the same |
| `OpenKitServes` | `Spec => []KitServes` | the same |

`EngineTypes`, `ParkedLoopIsPaused`, `SessionTypes` and `NothingTruncated` state what no run repeats: the
first and third hold by types, the others are part of what `ResumeWakes` and `ImplementsFile` need.

Assumptions are the named `ASSUME`s of the modules that declare the constants:
bounds are natural numbers and inputs have their types. Where a theorem holds only for a host that
awaits its calls, a session that is made at once or a model that keeps to something, that is a hypothesis
of the theorem. The table above shows what happens without them (`StartsSuit` only says that
a start is one the engine leaves behind while nobody steers). Every one is met by
a run: `QueueIsWritten` and `FlatQueueIsWritten` by `book_layered`, whose reviews ask for nothing, and by the behaviours of `book_flat` whose reviews name chapters that are
there; `IndexesAreApart` by a layered plan of that run; `~Adversary` by its model, `PlansTell` by its plans; `Cooperative`, `~Crashes` and
`PlansRise` by `book_finish`, `OneCaller` by `foundation`; `StartsSuit`,
`~Overlap`, `~MidRun` and `~Restarts` by `engine_calm`.

*Book.* No property of the book is inductive: a write takes the next store from `script`. `GoodInv` says that the
store is good, and that what the running tool has yet to write is a path: from the store on disk, one write
after the other, through good stores, each of which the one before it *leads* to. A good store has the right
shape, texts for what is completed, a foundation if it is in writing or complete, a flow that fits its queue, and a
layered outline that is numbered and opens with chapters. A step leads from one store to another if its
pages rest, or the book opens, or one expected chapter is committed, or an editor's review queues some, or the book ends with the
last chapter and an empty queue; and if the outline keeps what is expanded, and is settled below the last
chapter when indexes tell arcs apart. There is a lemma per tool, that its writes are such a path;
`StepKeepsGood` takes the steps of the loop, the first write of a script and the crash in. What the theorems
say then follows from single steps: `CommittedChaptersHaveFinals`, `WritingIsFounded` and `FlowFitsQueue` from a good store,
`BookIsManuscript` from what a store may lead to (`ManuscriptSteps`: each of the five is a step of the abstract book),
`OutlineGrowsBehindNothing` from what is settled.

`WrittenInTurn`, that chapters are committed as 1, 2, 3, is inductive while a review queues what is
written; with it the highest chapter says that all below it are there, which is what `complete_book` and the
final volume look at, and the number of committed chapters says which flat reviews were due. `DuesInv` adds to it that
from the routing of a new chapter to the end of its worker the dues are paid: the snapshot and the router find
every arc, volume and interval that lacks something (`WriterIsRouted`, `NoGapIsLeft` and
`NextChapterIsPaid`, about `RouteOf` and `AssembleState`), and a writer adds nothing that is owed. `QueueInv` is for a model that keeps to its
instruction: reviews of a layered book are arc reviews, which queue chapters up to the arc end just written. `InsideInv` says
for such a model that what is written and what the writer is at lie inside the outline, which no call shortens.

`TellInv` says that every volume comes from one that was supplied: it has its plan, and if that one had nothing to
expand it is the same but for the indexes. So in the store and in each store a script leads through. Then the last volume
has the plan of an incoming one only if it is the same volume, and `append_volume` knows it (`SameVolumePlan`) if the title is the same as well. `PlansTell` asks for
two things: an outline does not bring a volume twice in a row, and a volume to append has no skeleton
and shares its plan with no other. The second is what the counterexample above needs.

`FinalInv`, for `FinalVolumeIsLast`, is about the store a script arrives at, because a summary and the completion it
brings are two writes. It says that volume indexes rise; that only volumes of the outline are summarised, and none before
writing; and that while a book with a final volume is in writing, the last volume with arcs has no summary. An append gives the new
volume a number nobody has summarised, an expansion moves no volume, and the one summary that would break the invariant is saved by an editor who was
asked for it: the router asks only at a finished arc (`RoutedIsDue`), the last arc of the last volume ends with the last
chapter (`BookEnds`), so `maybeCompleteFinalVolume` finds the book written. That a volume is asked for only at the last arc of the book is
`NothingFollows`. `SummaryIsDue` carries what the router saw to the first call of the worker; a cooperative editor makes no second one.

*Engine.* `ParkedInv` adds that `run()` does not restart a loop that is parked. `CancelInv` adds
where the loop can be after a cancel: with the abort requested and steps left, not past its last
look at the flag, or ending as aborted. `PauseInv` adds that no `resume()` is in flight while a pause
is owed, and that after one dispatch the loop gets to the router only by way of the boundary. `CalmInv` says that while a call is in
flight the loop rests and what the call has read is what is on disk, and that what a worker has read is, until
it is saved; so every save extends the list of commits. `SteerInv` adds that a steered book is paused or
about to be, so that `run()` parks before it routes; `FlowInv` that a flow that is not steering suits the queue, and while it is
steering the one that `steer()` noted does, in the call or in `run_meta`; no worker is at work to change the queue.

*Session.* `TypeOK` is inductive because every wait in `After(k)` is a wait of `k`. `LongCallsExclude` needs
only that: a long call begins when the flag is down, and lowers it as its last step. `CancelIsHonoured`
needs that a call that is due is at a wait with a check ahead, is leaving with an error, or has been
rejected with AbortedError. `EngineFits`, for `RunStateTells`, says that an engine is held exactly by the automatic writing that
runs it or writes down its end, and that `autoWritePreEngine` is up as long as such a call has none yet. `SavesAreWanted`
is about the steps that begin to save: the check is the step before, and a deletion is the one call without.

*Foundation.* `FoundationInv` says of the call in flight that the files are those it has read, `base`, with what it has
written of its patch in order; that its assessment, merged and refined or not, holds every written chapter of each finding about `base` and
patch that asks for a rewrite (`Covers`); that from the gate on it is confirmed where that is wanted; that the chapters its writes have
contradicted, `hit`, are among those, and those are planned to be rewritten or have been sent to the worker; and that what a generation
fills was absent in `base` and is no second outline. `ContradictionIsFound` is the heart of it: whatever the next
file makes a written chapter contradict, by the definition that looks at files only, is named by a finding of the
assessment, which compares rows, names and contents in its own way. `AssessmentCovers` and `RefinementCovers` say that severities, merges and the
model lose none. `SelectedKeysFill` and `MissingKeysFill` say that the keys chosen for a tier, when all are answered, leave nothing
missing. With two calls in flight `base` is out of date, and the table above shows what follows.

*Chapters.* `ChaptersInv` says that one call is in flight, on the path of its kind; that the record it will save a
new one from is the one on disk; that the text is there before the record says so, and the
record before the call reports; and that a deletion has removed what lies behind it, so that a chapter
whose deletion was cut short stays in `halfDeleted` until a deletion of it is through.

*OPFS.* `StoreInv` says that a call that is not idle is the only one, that the temporary file
holds what its write was given from the close of the stream until it is renamed or read, and that
what was read from it is the same. `StepShown` then gives for each step the step of `AtomicFile`
that it is, or that it shows nothing: the commit is the rename, the close of the stream of the copy, or
the removal.

*Bridge.* `AnswerInv` follows a call through the worker and back: a message on its way names a call that no
handler has yet, an answer on its way is that of a handler that is done, and so is one that has
settled its call. `TurnInv` says that at most one session is made, that the server holds it until it is
told to close and makes no other, because nothing is sent after that message; that work under the busy
flag is what the flag of that session says; and that an engine's server has its flag up while a start
is made or works.

*Kit.* `ListInv` says that the list in memory holds the one on disk from the moment a kit exists or its
`create()` has read it, and that what a call is about to write is the list in memory: of two calls at once
that is not true. `ServeInv` says which session may be open at each wait: on the main thread the
workspace's current one, with workers the kit's or the one `create()` has not handed out; that a worker
that is waited for is not one that serves; and that those that served before are closed and ended.

Only model-checked:

* liveness (`RunsEnd`, `BookIsFinished`, `CancelEnds` of Engine and Session, `ResumeWakes`, `CallsSettle`), which is out of the
  prover's reach;
* `QueueDrains`, which is violated.

## 6. Not modelled, and what is left

* Snapshot and context (`store/snapshot.ts`, `context.ts`, `audit.ts`): reads for prompts and for export, an import that writes
  the files it is given, and a log nobody decides on.
* Language model adapters: requests to remote services; the models take any answer, or none.
* Parsing and normalising text: books, outlines and answers of the model are those that parse.
* Events, notices, subscriptions and the encoding of errors over a port: nobody waits for them.
* A kit on a store of the host, one without a workspace, and the fallback to memory; a workspace a host
  makes for itself; `importSnapshot`, the queries and `subscribe` of a session.
* What `syncOutline` makes of the outline (`Session` has that it saves one) and the plan file of `chapter.delete`; reading, listing and the memory store of the store backends; the
  merging of text and the estimate parser of layered outlines.

Worth doing next: what of `FinalVolumeIsLast` survives a crash, where a later summary may complete the book after all; the calls of `Foundation` side by side, with what survives; two workspaces of a host over one store.

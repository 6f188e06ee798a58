------------------------------- MODULE Session -------------------------------
(***************************************************************************)
(* One open book, src/src/session/novel-session.ts: the calls a host may    *)
(* have in flight at the same time, the flag that keeps the long ones       *)
(* apart, the abort controllers that cancel() fires, and the engine that    *)
(* pause() and getRunState() look at.                                       *)
(*                                                                         *)
(* JavaScript runs one piece at a time between two awaits.  A call is       *)
(* therefore at one of its waits, named by `at`, and a step takes it to     *)
(* the next.  The `finally` blocks of withAbort and withBusy run one after  *)
(* the other with other work in between, and are steps too.  What the calls *)
(* read and write is the subject of Book and Chapters; how the engine       *)
(* pauses and ends is the subject of Engine.                                *)
(***************************************************************************)
EXTENDS Naturals, FiniteSets

CONSTANTS
  Slots,     \* bound: calls in flight at once
  NoSlot,    \* no engine is held
  Kinds      \* the calls the host makes

\* Calls that share the busy flag, and all that can be cancelled.
Locked == {"startAutoWrite", "chapter.write", "chapter.delete", "applyFoundationChange"}

AllKinds == Locked \cup {"generateFoundation"}

\* Calls that take an AbortSignal of the host.
Signalled == {"startAutoWrite", "chapter.write", "generateFoundation"}

ASSUME SlotAssumption == NoSlot \notin Slots
ASSUME KindAssumption == Kinds \subseteq AllKinds

VARIABLES
  closed,       \* close() was called
  busy,         \* the busy flag
  generating,   \* a generateFoundation runs, as far as the session knows
  preEngine,    \* autoWritePreEngine
  engine,       \* the call whose engine runningEngine is
  paused,       \* that engine's isPaused
  ctls,         \* calls with a controller in abortCtls
  aborted,      \* calls whose controller has fired
  kind, at,     \* what each call is, and where it waits
  result,       \* how it ended
  due           \* history: cancelled with a check that it cannot miss ahead

flags == <<closed, busy, generating, preEngine, engine, paused>>
vars == <<closed, busy, generating, preEngine, engine, paused, ctls, aborted,
          kind, at, result, due>>

-----------------------------------------------------------------------------
(* Where a call waits. *)

\* Waits for the store, and what may follow each; "return" ends the call.
GenerateWaits ==
  [ select |-> {"gather", "read"}, gather |-> {"ask"}, answered |-> {"save"},
    save |-> {"return"}, read |-> {"return"} ]

WriteWaits ==
  [ precond |-> {"ask"}, answered |-> {"tool", "view"}, tool |-> {"tool", "ask"},
    view |-> {"return"} ]

ApplyWaits ==
  [ assess |-> {"refine", "return", "save"}, refined |-> {"return", "save"},
    save |-> {"return", "precond"}, precond |-> {"ask"}, answered |-> {"tool", "view"},
    tool |-> {"tool", "ask"}, view |-> {"precond", "return"} ]

AutoWriteWaits ==
  [ upsert |-> {"gaps", "inspect"}, gaps |-> {"select", "inspect"},
    select |-> {"gather", "read"}, gather |-> {"ask"}, answered |-> {"save"},
    save |-> {"inspect"}, read |-> {"inspect"}, inspect |-> {"return", "run"},
    meta |-> {"return"} ]

\* The files and the record, then the outline where the host wants it in step
\* (syncOutline).  A deletion is given no signal, so no check comes before either.
DeleteWaits == [ remove |-> {"return", "upsert"}, upsert |-> {"return"} ]

After(k) ==
  CASE k = "startAutoWrite"        -> AutoWriteWaits
    [] k = "generateFoundation"    -> GenerateWaits
    [] k = "chapter.write"         -> WriteWaits
    [] k = "applyFoundationChange" -> ApplyWaits
    [] k = "chapter.delete"        -> DeleteWaits

\* The first wait of a call.
First(k) ==
  CASE k = "startAutoWrite"        -> {"upsert", "gaps", "inspect"}
    [] k = "generateFoundation"    -> {"select"}
    [] k = "chapter.write"         -> {"precond"}
    [] k = "applyFoundationChange" -> {"assess"}
    [] k = "chapter.delete"        -> {"remove"}

\* Slip: the answer of the model is saved whether or not the call is cancelled.
Checked_NotSave == {"gather", "read", "ask", "tool", "run", "precond"}

\* throwIfAborted comes before these, assertOpen (again) before those.
Checked == {"gather", "read", "ask", "tool", "save", "run", "precond"}

Reopened == {"gaps", "select", "save", "upsert", "inspect"}

\* Waits that are always followed by a check, whichever way the call goes.
CheckAhead == {"select", "gather", "ask", "precond", "tool"}

StoreWaits == {"upsert", "gaps", "select", "gather", "read", "answered", "save", "inspect",
               "meta", "precond", "tool", "view", "assess", "refined", "remove"}

\* The body of the call is running; its finally blocks come after.
Bodies == StoreWaits \cup {"ask", "refine", "run"}

Places == Bodies \cup {"leaving", "unlocking", "done"}

Inside(s) == at[s] \in Bodies

InFlight(s) == at[s] # "done"

-----------------------------------------------------------------------------
Init ==
  /\ closed = FALSE /\ busy = FALSE /\ generating = FALSE /\ preEngine = FALSE
  /\ engine = NoSlot /\ paused = FALSE /\ ctls = {} /\ aborted = {}
  /\ kind = [s \in Slots |-> "none"]
  /\ at = [s \in Slots |-> "done"]
  /\ result = [s \in Slots |-> "none"]
  /\ due = {}

\* Slip: the flag is not looked at.
Refused_NotBusy(k, signalled) ==
  IF closed THEN "closed"
  ELSE IF signalled /\ k \in Signalled THEN "aborted"
  ELSE "none"

\* What stops a call before it has begun; `signalled`: its signal has fired.
Refused(k, signalled) ==
  IF closed THEN "closed"
  ELSE IF busy /\ k \in Locked THEN "busy"
  ELSE IF signalled /\ k \in Signalled THEN "aborted"
  ELSE "none"

\* Up to its first wait a call runs without interruption.
Call(s, k, signalled) ==
  /\ at[s] = "done"
  /\ kind' = [kind EXCEPT ![s] = k]
  /\ result' = [result EXCEPT ![s] = Refused(k, signalled)]
  /\ due' = due \ {s}
  /\ aborted' = aborted \ {s}
  /\ IF Refused(k, signalled) # "none"
     THEN UNCHANGED <<busy, generating, preEngine, ctls, at>>
     ELSE /\ busy' = (busy \/ k \in Locked)
          /\ ctls' = ctls \cup {s}
          /\ generating' = (generating \/ k = "generateFoundation")
          /\ preEngine' = (preEngine \/ k = "startAutoWrite")
          /\ \E wait \in First(k) : at' = [at EXCEPT ![s] = wait]
  /\ UNCHANGED <<closed, engine, paused>>

\* The body ends; the innermost finally block, of the body itself, runs with it.
Finish(s, how) ==
  /\ at' = [at EXCEPT ![s] = "leaving"]
  /\ result' = [result EXCEPT ![s] = how]
  /\ generating' = (generating /\ kind[s] # "generateFoundation")
  /\ IF kind[s] = "startAutoWrite"
     THEN engine' = NoSlot /\ preEngine' = FALSE /\ paused' = FALSE
     ELSE UNCHANGED <<engine, preEngine, paused>>
  /\ UNCHANGED <<closed, busy, ctls, aborted, kind, due>>

\* The call goes on to its next wait; the engine is made on the way to "run".
Wait(s, wait) ==
  /\ at' = [at EXCEPT ![s] = wait]
  /\ IF wait = "run"
     THEN engine' = s /\ preEngine' = FALSE /\ paused' = FALSE
     ELSE UNCHANGED <<engine, preEngine, paused>>
  /\ UNCHANGED <<closed, busy, generating, ctls, aborted, kind, result, due>>

\* What the checks in front of a wait throw.
Thrown(s, wait) ==
  IF wait \in Checked /\ s \in aborted THEN "aborted"
  ELSE IF wait \in Reopened /\ closed THEN "rejected"
  ELSE "none"

\* What the call waited for in the store is there.
Proceed(s) ==
  /\ at[s] \in StoreWaits
  /\ \E wait \in After(kind[s])[at[s]] :
       \/ wait = "return" /\ Finish(s, "resolved")
       \/ wait # "return" /\ Thrown(s, wait) = "none" /\ Wait(s, wait)
       \/ wait # "return" /\ Thrown(s, wait) # "none" /\ Finish(s, Thrown(s, wait))

\* The store or the model fails, the answer is unusable, there is no model,
\* a chapter is not in the state its mode asks for.
Throws(s) ==
  /\ Inside(s) /\ ~(at[s] = "ask" /\ s \in aborted)
  /\ Finish(s, "rejected")

\* The model answers.  raceAbort takes the answer of a call not yet cancelled.
Answered(s) ==
  \/ at[s] = "ask" /\ s \notin aborted /\ Wait(s, "answered")
  \/ at[s] = "refine" /\ Wait(s, "refined")

\* Slip: a cancelled request is given up only when the model answers.
AskAborted_Never(s) == FALSE

\* raceAbort rejects as soon as the controller fires.
AskAborted(s) == at[s] = "ask" /\ s \in aborted /\ Finish(s, "aborted")

\* A cancelled engine run ends: with AbortedError, or as if nothing had happened
\* when the last boundary of its loop is behind it.
RunAborted(s) ==
  /\ at[s] = "run" /\ s \in aborted
  /\ Finish(s, "aborted") \/ Wait(s, "meta")

RunReturns(s) == at[s] = "run" /\ Wait(s, "meta")

\* Slip: an error of a cancelled call is passed on as it is.
Rethrown_Plain(s) == result[s]

\* Whatever a cancelled call throws becomes AbortedError.
Rethrown(s) == IF result[s] = "rejected" /\ s \in aborted THEN "aborted" ELSE result[s]

\* The catch and finally blocks of withAbort.
LeaveAbort(s) ==
  /\ at[s] = "leaving"
  /\ result' = [result EXCEPT ![s] = Rethrown(s)]
  /\ ctls' = ctls \ {s}
  /\ at' = [at EXCEPT ![s] = IF kind[s] \in Locked THEN "unlocking" ELSE "done"]
  /\ UNCHANGED <<closed, busy, generating, preEngine, engine, paused, aborted, kind, due>>

\* The finally block of withBusy.
LeaveBusy(s) ==
  /\ at[s] = "unlocking"
  /\ busy' = FALSE
  /\ at' = [at EXCEPT ![s] = "done"]
  /\ UNCHANGED <<closed, generating, preEngine, engine, paused, ctls, aborted, kind, result, due>>

-----------------------------------------------------------------------------
(* What does not take the busy flag. *)

\* Controllers fire; a call that cannot miss a check any more is due to abort.
Fire(fired) ==
  /\ aborted' = aborted \cup fired
  /\ due' = due \cup {s \in fired \ aborted : at[s] \in CheckAhead}
  /\ UNCHANGED <<flags, ctls, kind, at, result>>

\* cancel(): the held engine is that of a call whose controller fires as well.
Cancel == ~closed /\ (engine # NoSlot \/ ctls # {}) /\ Fire(ctls)

HostAborts(s) == s \in ctls /\ kind[s] \in Signalled /\ Fire({s})

\* pause() and, when its note is saved, steer(); resume().
Pauses(on) ==
  /\ ~closed /\ engine # NoSlot
  /\ paused' = on
  /\ UNCHANGED <<closed, busy, generating, preEngine, engine, ctls, aborted, kind, at, result, due>>

Close ==
  /\ closed' = TRUE
  /\ UNCHANGED <<busy, generating, preEngine, engine, paused, ctls, aborted, kind, at, result, due>>

\* Slip: the flags are looked at before the engine.
RunState_FlagsFirst ==
  IF generating \/ preEngine THEN "generating_missing"
  ELSE IF engine # NoSlot THEN IF paused THEN "paused" ELSE "running"
  ELSE IF busy THEN "busy"
  ELSE "idle"

\* getRunState()
RunState ==
  IF engine # NoSlot THEN IF paused THEN "paused" ELSE "running"
  ELSE IF generating \/ preEngine THEN "generating_missing"
  ELSE IF busy THEN "busy"
  ELSE "idle"

-----------------------------------------------------------------------------
\* What happens without the host and without the model.
Settles(s) == Proceed(s) \/ AskAborted(s) \/ RunAborted(s) \/ LeaveAbort(s) \/ LeaveBusy(s)

CallStep(s) == Settles(s) \/ Throws(s) \/ Answered(s) \/ RunReturns(s)

HostStep ==
  \/ \E s \in Slots, k \in Kinds, signalled \in BOOLEAN : Call(s, k, signalled)
  \/ Cancel \/ Close
  \/ \E s \in Slots : HostAborts(s)
  \/ \E on \in BOOLEAN : Pauses(on)

Next == HostStep \/ \E s \in Slots : CallStep(s)

Spec == Init /\ [][Next]_vars

\* Store accesses settle, and a cancelled engine run ends, as Engine shows; the
\* model may never answer.
FairSpec == Spec /\ \A s \in Slots : WF_vars(Settles(s))

-----------------------------------------------------------------------------
TypeOK ==
  /\ {closed, busy, generating, preEngine, paused} \subseteq BOOLEAN
  /\ engine \in Slots \cup {NoSlot}
  /\ ctls \subseteq Slots /\ aborted \subseteq Slots /\ due \subseteq aborted
  /\ kind \in [Slots -> AllKinds \cup {"none"}] /\ at \in [Slots -> Places]
  /\ \A s \in Slots : at[s] \in StoreWaits => at[s] \in DOMAIN After(kind[s])
  /\ result \in [Slots -> {"none", "resolved", "rejected", "aborted", "busy", "closed"}]

\* "A second call while one is in flight throws SessionBusyError": automatic
\* writing, writing and deleting a chapter and changing the foundation never
\* overlap, and the flag is up exactly as long as one of them is in flight,
\* however it ends.
LongCallsExclude ==
  /\ \A s, t \in Slots : {kind[s], kind[t]} \subseteq Locked /\ InFlight(s) /\ InFlight(t) => s = t
  /\ busy <=> \E s \in Slots : kind[s] \in Locked /\ InFlight(s)

\* getRunState() tells the truth about long calls: "running" and "paused" exactly
\* while one has an engine, "generating_missing" before it, "busy" for the others.
RunStateTells ==
  \A s \in Slots : kind[s] \in Locked /\ Inside(s) =>
    /\ at[s] \in {"run", "meta"} <=> RunState \in {"running", "paused"}
    /\ kind[s] = "startAutoWrite" /\ at[s] \notin {"run", "meta"} => RunState = "generating_missing"
    /\ kind[s] # "startAutoWrite" => RunState \in {"busy", "generating_missing"}

\* A call cancelled while a check lies ahead of it never resolves, and whatever
\* makes it fail it rejects with AbortedError.
CancelIsHonoured ==
  \A s \in due : at[s] = "done" => result[s] = "aborted"

\* The session itself begins to save a foundation only for a host that still wants it:
\* never once it is closed, and never for a call that was cancelled while it asked,
\* read or waited.  Two savings are not meant.  A deletion keeps the outline in step
\* (session/chapter.ts:341) also when it is cancelled, for it does not look at its
\* signal.  And what an engine under way has its architects save goes past the session
\* to the store.
SavesAreWanted ==
  [][\A s \in Slots : at'[s] # at[s] /\ at'[s] \in {"save", "upsert"} =>
       ~closed /\ (kind'[s] # "chapter.delete" => s \notin aborted')]_vars

\* cancel() ends every call it finds, even if the model never answers, and clears
\* the busy flag on the way; except that a call which waits, or goes on to wait, for
\* the model to refine an assessment is not ended there: that request has no signal
\* (session/impact.ts:670), although docs/api.md:226 has cancel() abort "other busy
\* work" too.
CancelEnds ==
  \A s \in Slots : s \in aborted /\ InFlight(s) ~> ~InFlight(s) \/ at[s] = "refine"

=============================================================================

---------------------------- MODULE SessionProofs ----------------------------
(***************************************************************************)
(* The calls of a session.                                                  *)
(*                                                                         *)
(* Where they wait (Session), for any number of calls in flight: long calls *)
(* exclude each other, the busy flag is never left up, what getRunState()   *)
(* reports is true, and a cancelled call with a check ahead of it rejects   *)
(* with AbortedError and saves nothing.                                     *)
(*                                                                         *)
(* What one of them does to the foundation (Foundation), for any books,     *)
(* patches, options and language model: filling fills gaps only and closes  *)
(* them, and no written chapter comes to contradict the foundation unasked. *)
(***************************************************************************)
EXTENDS Session, Foundation, FiniteSetTheorems, TLAPS

\* A call is at a wait of its own kind, and only long calls pass withBusy.
PlacesFit ==
  \A s \in Slots :
    /\ InFlight(s) => kind[s] \in AllKinds
    /\ at[s] = "ask" => "answered" \in DOMAIN After(kind[s])
    /\ at[s] = "refine" => kind[s] = "applyFoundationChange"
    /\ at[s] = "run" => kind[s] = "startAutoWrite"
    /\ at[s] = "unlocking" => kind[s] \in Locked

\* A call that is due still has its check ahead, or has failed already.
DueStays ==
  \A s \in due :
    \/ at[s] \in CheckAhead
    \/ at[s] = "leaving" /\ result[s] \in {"rejected", "aborted"}
    \/ at[s] \in {"unlocking", "done"} /\ result[s] = "aborted"

SessionInv == TypeOK /\ PlacesFit /\ LongCallsExclude /\ DueStays

-----------------------------------------------------------------------------
(* The waits of a call. *)

\* What follows a wait is the end, or a wait of the same kind of call.
LEMMA AfterFits ==
  ASSUME NEW k \in AllKinds, NEW w \in DOMAIN After(k), NEW x \in After(k)[w]
  PROVE  /\ x = "return" \/ x \in Bodies
         /\ x \in StoreWaits => x \in DOMAIN After(k)
         /\ x = "ask" => "answered" \in DOMAIN After(k)
         /\ x = "refine" => k = "applyFoundationChange"
         /\ x = "run" => k = "startAutoWrite"
<1> USE DEF After, Bodies, StoreWaits
<1>1. CASE k = "startAutoWrite"
  BY <1>1 DEF AutoWriteWaits
<1>2. CASE k = "generateFoundation"
  BY <1>2 DEF GenerateWaits
<1>3. CASE k = "chapter.write"
  BY <1>3 DEF WriteWaits
<1>4. CASE k = "applyFoundationChange"
  BY <1>4 DEF ApplyWaits
<1>5. CASE k = "chapter.delete"
  BY <1>5 DEF DeleteWaits
<1>6. QED
  BY <1>1, <1>2, <1>3, <1>4, <1>5 DEF AllKinds, Locked

\* A call begins at a wait of its kind.
LEMMA FirstFits ==
  ASSUME NEW k \in AllKinds, NEW w \in First(k)
  PROVE  w \in StoreWaits /\ w \in DOMAIN After(k)
BY DEF AllKinds, Locked, First, After, StoreWaits, AutoWriteWaits, GenerateWaits, WriteWaits,
       ApplyWaits, DeleteWaits

\* Whatever follows one of these waits, a check comes first.
LEMMA CheckIsAhead ==
  ASSUME NEW k \in AllKinds, NEW w \in CheckAhead, w \in DOMAIN After(k), NEW x \in After(k)[w]
  PROVE  x \in Checked /\ x # "return"
<1> USE DEF After, CheckAhead, Checked
<1>1. CASE k = "startAutoWrite"
  BY <1>1 DEF AutoWriteWaits
<1>2. CASE k = "generateFoundation"
  BY <1>2 DEF GenerateWaits
<1>3. CASE k = "chapter.write"
  BY <1>3 DEF WriteWaits
<1>4. CASE k = "applyFoundationChange"
  BY <1>4 DEF ApplyWaits
<1>5. CASE k = "chapter.delete"
  BY <1>5 DEF DeleteWaits
<1>6. QED
  BY <1>1, <1>2, <1>3, <1>4, <1>5 DEF AllKinds, Locked

-----------------------------------------------------------------------------
(* Steps that several actions are made of. *)

\* The end of the body of a call: a call that is due does not end resolved.
LEMMA FinishKeepsInv ==
  ASSUME SessionInv, NEW s \in Slots, Inside(s),
         NEW how \in {"resolved", "rejected", "aborted"}, Finish(s, how),
         s \in due => how # "resolved"
  PROVE  SessionInv'
<1> USE DEF SessionInv
<1>a. at[s] \in Bodies /\ InFlight(s) /\ at[s] # "done"
  BY DEF Inside, InFlight, Bodies, StoreWaits
<1>b. /\ at' = [at EXCEPT ![s] = "leaving"] /\ result' = [result EXCEPT ![s] = how]
      /\ kind' = kind /\ busy' = busy /\ due' = due /\ aborted' = aborted
  BY DEF Finish
<1>c. \A t \in Slots : InFlight(t)' <=> InFlight(t)
  BY <1>a, <1>b DEF InFlight, TypeOK
<1>1. TypeOK'
  <2>1. {generating', preEngine', paused'} \subseteq BOOLEAN
    BY DEF Finish, TypeOK
  <2>2. engine' \in Slots \cup {NoSlot}
    BY DEF Finish, TypeOK
  <2>3. at' \in [Slots -> Places]
    BY <1>b DEF TypeOK, Places
  <2>4. \A t \in Slots : at'[t] \in StoreWaits => at'[t] \in DOMAIN After(kind'[t])
    BY <1>b DEF TypeOK, StoreWaits
  <2>5. result' \in [Slots -> {"none", "resolved", "rejected", "aborted", "busy", "closed"}]
    BY <1>b DEF TypeOK
  <2>6. QED
    BY <2>1, <2>2, <2>3, <2>4, <2>5 DEF Finish, TypeOK
<1>2. PlacesFit'
  BY <1>a, <1>b, <1>c DEF PlacesFit, TypeOK
<1>3. LongCallsExclude'
  BY <1>b, <1>c DEF LongCallsExclude
<1>4. DueStays'
  BY <1>b DEF DueStays, TypeOK
<1>5. QED
  BY <1>1, <1>2, <1>3, <1>4

\* A call going on to a wait of its kind.
LEMMA WaitKeepsInv ==
  ASSUME SessionInv, NEW s \in Slots, Inside(s), s \notin due, NEW w \in Bodies, Wait(s, w),
         w \in StoreWaits => w \in DOMAIN After(kind[s]),
         w = "ask" => "answered" \in DOMAIN After(kind[s]),
         w = "refine" => kind[s] = "applyFoundationChange",
         w = "run" => kind[s] = "startAutoWrite"
  PROVE  SessionInv'
<1> USE DEF SessionInv
<1>a. InFlight(s) /\ w # "done" /\ w # "unlocking" /\ w \in Places
  BY DEF Inside, InFlight, Bodies, StoreWaits, Places
<1>b. /\ at' = [at EXCEPT ![s] = w] /\ result' = result
      /\ kind' = kind /\ busy' = busy /\ due' = due /\ aborted' = aborted
  BY DEF Wait
<1>c. \A t \in Slots : InFlight(t)' <=> InFlight(t)
  BY <1>a, <1>b DEF InFlight, TypeOK
<1>1. TypeOK'
  <2>1. {generating', preEngine', paused'} \subseteq BOOLEAN /\ engine' \in Slots \cup {NoSlot}
    BY DEF Wait, TypeOK
  <2>2. at' \in [Slots -> Places]
    BY <1>a, <1>b DEF TypeOK
  <2>3. \A t \in Slots : at'[t] \in StoreWaits => at'[t] \in DOMAIN After(kind'[t])
    BY <1>b DEF TypeOK
  <2>4. QED
    BY <2>1, <2>2, <2>3 DEF Wait, TypeOK
<1>2. PlacesFit'
  BY <1>a, <1>b, <1>c DEF PlacesFit, TypeOK
<1>3. LongCallsExclude'
  BY <1>b, <1>c DEF LongCallsExclude
<1>4. DueStays'
  BY <1>b DEF DueStays, TypeOK
<1>5. QED
  BY <1>1, <1>2, <1>3, <1>4

\* Firing controllers of calls in flight.
LEMMA FireKeepsInv ==
  ASSUME SessionInv, NEW fired, fired \subseteq Slots, Fire(fired)
  PROVE  SessionInv'
<1> USE DEF SessionInv
<1>1. TypeOK'
  BY DEF Fire, TypeOK, flags
<1>2. PlacesFit' /\ LongCallsExclude'
  BY DEF Fire, PlacesFit, LongCallsExclude, InFlight, flags
<1>3. DueStays'
  BY DEF Fire, DueStays
<1>4. QED
  BY <1>1, <1>2, <1>3

-----------------------------------------------------------------------------
(* One fact per action. *)

LEMMA InitHasInv ==
  ASSUME Init
  PROVE  SessionInv
<1>1. TypeOK
  BY DEF Init, TypeOK, Places, Bodies, StoreWaits
<1>2. PlacesFit /\ LongCallsExclude /\ DueStays
  BY DEF Init, PlacesFit, LongCallsExclude, InFlight, DueStays
<1>3. QED
  BY <1>1, <1>2 DEF SessionInv

LEMMA CallKeepsInv ==
  ASSUME SessionInv, NEW s \in Slots, NEW k \in Kinds, NEW signalled \in BOOLEAN,
         Call(s, k, signalled)
  PROVE  SessionInv'
<1> USE DEF SessionInv
<1>a. k \in AllKinds
  BY KindAssumption
<1>b. /\ at[s] = "done" /\ kind' = [kind EXCEPT ![s] = k]
      /\ result' = [result EXCEPT ![s] = Refused(k, signalled)]
      /\ due' = due \ {s} /\ aborted' = aborted \ {s}
      /\ closed' = closed /\ engine' = engine /\ paused' = paused
  BY DEF Call
<1>r. Refused(k, signalled) \in {"none", "aborted", "busy", "closed"}
  BY DEF Refused
<1>1. CASE Refused(k, signalled) # "none"
  <2>a. busy' = busy /\ generating' = generating /\ preEngine' = preEngine /\ ctls' = ctls /\ at' = at
    BY <1>1 DEF Call
  <2>c. \A t \in Slots : InFlight(t)' <=> InFlight(t)
    BY <2>a DEF InFlight
  <2>1. TypeOK'
    BY <1>a, <1>b, <1>r, <2>a DEF TypeOK, StoreWaits
  <2>2. PlacesFit'
    BY <1>b, <2>a, <2>c DEF PlacesFit, TypeOK, InFlight
  <2>3. LongCallsExclude'
    BY <1>b, <2>a, <2>c DEF LongCallsExclude, TypeOK, InFlight
  <2>4. DueStays'
    BY <1>b, <2>a DEF DueStays, TypeOK
  <2>5. QED
    BY <2>1, <2>2, <2>3, <2>4
<1>2. CASE Refused(k, signalled) = "none"
  <2>a. PICK w \in First(k) : at' = [at EXCEPT ![s] = w]
    BY <1>2 DEF Call
  <2>b. w \in StoreWaits /\ w \in DOMAIN After(k)
    BY <1>a, FirstFits
  <2>c. /\ busy' = (busy \/ k \in Locked) /\ ctls' = ctls \cup {s}
        /\ generating' \in BOOLEAN /\ preEngine' \in BOOLEAN
    BY <1>2 DEF Call, TypeOK
  <2>d. k \in Locked => ~busy
    BY <1>2 DEF Refused
  <2>e. \A t \in Slots : InFlight(t)' <=> InFlight(t) \/ t = s
    BY <2>a, <2>b DEF InFlight, TypeOK, StoreWaits
  <2>f. ~InFlight(s)
    BY <1>b DEF InFlight
  <2>1. TypeOK'
    <3>1. at' \in [Slots -> Places]
      BY <2>a, <2>b DEF TypeOK, Places, Bodies
    <3>2. \A t \in Slots : at'[t] \in StoreWaits => at'[t] \in DOMAIN After(kind'[t])
      BY <1>b, <2>a, <2>b DEF TypeOK
    <3>3. QED
      BY <1>a, <1>b, <1>r, <2>c, <3>1, <3>2 DEF TypeOK
  <2>2. PlacesFit'
    <3>1. \A t \in Slots : t # s => at'[t] = at[t] /\ kind'[t] = kind[t]
      BY <1>b, <2>a DEF TypeOK
    <3>2. at'[s] = w /\ kind'[s] = k /\ w \notin {"ask", "refine", "run", "unlocking"}
      BY <1>b, <2>a, <2>b DEF TypeOK, StoreWaits
    <3>3. QED
      BY <1>a, <2>e, <3>1, <3>2 DEF PlacesFit
  <2>3. LongCallsExclude'
    <3>1. \A t \in Slots : kind'[t] = IF t = s THEN k ELSE kind[t]
      BY <1>b DEF TypeOK
    <3>2. QED
      BY <2>c, <2>d, <2>e, <2>f, <3>1 DEF LongCallsExclude
  <2>4. DueStays'
    BY <1>b, <2>a DEF DueStays, TypeOK
  <2>5. QED
    BY <2>1, <2>2, <2>3, <2>4
<1>3. QED
  BY <1>1, <1>2

LEMMA ProceedKeepsInv ==
  ASSUME SessionInv, NEW s \in Slots, Proceed(s)
  PROVE  SessionInv'
<1> USE DEF SessionInv
<1>a. at[s] \in StoreWaits /\ Inside(s) /\ at[s] \in DOMAIN After(kind[s])
  BY DEF Proceed, Inside, Bodies, TypeOK
<1>b. kind[s] \in AllKinds
  BY <1>a DEF PlacesFit, InFlight, Inside, Bodies, StoreWaits
<1>c. PICK w \in After(kind[s])[at[s]] :
         \/ w = "return" /\ Finish(s, "resolved")
         \/ w # "return" /\ Thrown(s, w) = "none" /\ Wait(s, w)
         \/ w # "return" /\ Thrown(s, w) # "none" /\ Finish(s, Thrown(s, w))
  BY DEF Proceed
<1>d. s \in due => at[s] \in CheckAhead
  BY <1>a DEF DueStays, StoreWaits
<1>e. s \in due => w # "return" /\ Thrown(s, w) = "aborted"
  <2>1. s \in due => s \in aborted
    BY DEF TypeOK
  <2>2. s \in due => w \in Checked /\ w # "return"
    BY <1>a, <1>b, <1>d, CheckIsAhead
  <2>3. QED
    BY <2>1, <2>2 DEF Thrown
<1>1. CASE w = "return" /\ Finish(s, "resolved")
  BY <1>1, <1>a, <1>e, FinishKeepsInv
<1>2. CASE w # "return" /\ Thrown(s, w) = "none" /\ Wait(s, w)
  <2>1. s \notin due
    BY <1>2, <1>e
  <2>2. /\ w \in Bodies /\ (w \in StoreWaits => w \in DOMAIN After(kind[s]))
        /\ w = "ask" => "answered" \in DOMAIN After(kind[s])
        /\ w = "refine" => kind[s] = "applyFoundationChange"
        /\ w = "run" => kind[s] = "startAutoWrite"
    BY <1>2, <1>a, <1>b, AfterFits
  <2>3. QED
    BY <1>2, <1>a, <2>1, <2>2, WaitKeepsInv
<1>3. CASE w # "return" /\ Thrown(s, w) # "none" /\ Finish(s, Thrown(s, w))
  <2>1. Thrown(s, w) \in {"rejected", "aborted"}
    BY <1>3 DEF Thrown
  <2>2. QED
    BY <1>3, <1>a, <2>1, FinishKeepsInv
<1>4. QED
  BY <1>c, <1>1, <1>2, <1>3

LEMMA ThrowsKeepsInv ==
  ASSUME SessionInv, NEW s \in Slots, Throws(s)
  PROVE  SessionInv'
BY FinishKeepsInv DEF Throws

LEMMA AnsweredKeepsInv ==
  ASSUME SessionInv, NEW s \in Slots, Answered(s)
  PROVE  SessionInv'
<1> USE DEF SessionInv
<1>1. CASE at[s] = "ask" /\ s \notin aborted /\ Wait(s, "answered")
  <2>1. s \notin due /\ Inside(s) /\ "answered" \in Bodies /\ "answered" \in DOMAIN After(kind[s])
    BY <1>1 DEF TypeOK, Inside, Bodies, StoreWaits, PlacesFit
  <2>2. QED
    BY <1>1, <2>1, WaitKeepsInv
<1>2. CASE at[s] = "refine" /\ Wait(s, "refined")
  <2>1. s \notin due
    BY <1>2 DEF DueStays, CheckAhead
  <2>2. Inside(s) /\ "refined" \in Bodies /\ kind[s] = "applyFoundationChange"
    BY <1>2 DEF Inside, Bodies, StoreWaits, PlacesFit
  <2>3. "refined" \in DOMAIN After(kind[s])
    BY <2>2 DEF After, ApplyWaits
  <2>4. QED
    BY <1>2, <2>1, <2>2, <2>3, WaitKeepsInv
<1>3. QED
  BY <1>1, <1>2 DEF Answered

LEMMA AskAbortedKeepsInv ==
  ASSUME SessionInv, NEW s \in Slots, AskAborted(s)
  PROVE  SessionInv'
<1>1. Inside(s)
  BY DEF AskAborted, Inside, Bodies
<1>2. QED
  BY <1>1, FinishKeepsInv DEF AskAborted

LEMMA RunKeepsInv ==
  ASSUME SessionInv, NEW s \in Slots, RunAborted(s) \/ RunReturns(s)
  PROVE  SessionInv'
<1> USE DEF SessionInv
<1>a. at[s] = "run" /\ Inside(s) /\ (Finish(s, "aborted") \/ Wait(s, "meta"))
  BY DEF RunAborted, RunReturns, Inside, Bodies
<1>b. s \notin due
  BY <1>a DEF DueStays, CheckAhead
<1>c. "meta" \in Bodies /\ "meta" \in DOMAIN After(kind[s])
  BY <1>a DEF PlacesFit, After, AutoWriteWaits, Bodies, StoreWaits
<1>d. QED
  BY <1>a, <1>b, <1>c, FinishKeepsInv, WaitKeepsInv

LEMMA LeaveAbortKeepsInv ==
  ASSUME SessionInv, NEW s \in Slots, LeaveAbort(s)
  PROVE  SessionInv'
<1> USE DEF SessionInv
<1> DEFINE next == IF kind[s] \in Locked THEN "unlocking" ELSE "done"
<1>a. /\ at[s] = "leaving" /\ at' = [at EXCEPT ![s] = next]
      /\ result' = [result EXCEPT ![s] = Rethrown(s)]
      /\ ctls' = ctls \ {s}
      /\ UNCHANGED <<closed, busy, generating, preEngine, engine, paused, aborted, kind, due>>
  BY DEF LeaveAbort
<1>b. next \in {"unlocking", "done"}
  OBVIOUS
<1>c. \A t \in Slots : kind[t] \in Locked => (InFlight(t)' <=> InFlight(t))
  BY <1>a DEF InFlight, TypeOK
<1>1. TypeOK'
  <2>1. at' \in [Slots -> Places]
    BY <1>a, <1>b DEF TypeOK, Places
  <2>2. \A t \in Slots : at'[t] \in StoreWaits => at'[t] \in DOMAIN After(kind'[t])
    BY <1>a, <1>b DEF TypeOK, StoreWaits
  <2>3. Rethrown(s) \in {"none", "resolved", "rejected", "aborted", "busy", "closed"}
    BY DEF Rethrown, TypeOK
  <2>4. result' \in [Slots -> {"none", "resolved", "rejected", "aborted", "busy", "closed"}]
    BY <1>a, <2>3 DEF TypeOK
  <2>5. QED
    BY <1>a, <2>1, <2>2, <2>4 DEF TypeOK
<1>2. PlacesFit'
  <2>1. \A t \in Slots : t # s => at'[t] = at[t]
    BY <1>a DEF TypeOK
  <2>2. at'[s] = next /\ kind[s] \in AllKinds
    BY <1>a DEF TypeOK, PlacesFit, InFlight
  <2>3. QED
    BY <1>a, <2>1, <2>2 DEF PlacesFit, InFlight
<1>3. LongCallsExclude'
  BY <1>a, <1>c DEF LongCallsExclude
<1>4. DueStays'
  <2>1. s \in due => Rethrown(s) = "aborted"
    BY <1>a DEF DueStays, Rethrown, TypeOK, CheckAhead
  <2>2. QED
    BY <1>a, <1>b, <2>1 DEF DueStays, TypeOK
<1>5. QED
  BY <1>1, <1>2, <1>3, <1>4

LEMMA LeaveBusyKeepsInv ==
  ASSUME SessionInv, NEW s \in Slots, LeaveBusy(s)
  PROVE  SessionInv'
<1> USE DEF SessionInv
<1>a. /\ at[s] = "unlocking" /\ at' = [at EXCEPT ![s] = "done"] /\ busy' = FALSE
      /\ UNCHANGED <<closed, generating, preEngine, engine, paused, ctls, aborted, kind, result, due>>
  BY DEF LeaveBusy
<1>b. InFlight(s) /\ kind[s] \in Locked
  BY <1>a DEF PlacesFit, InFlight
<1>c. \A t \in Slots : InFlight(t)' <=> InFlight(t) /\ t # s
  BY <1>a DEF InFlight, TypeOK
<1>1. TypeOK'
  <2>1. at' \in [Slots -> Places]
    BY <1>a DEF TypeOK, Places
  <2>2. \A t \in Slots : at'[t] \in StoreWaits => at'[t] \in DOMAIN After(kind'[t])
    BY <1>a DEF TypeOK, StoreWaits
  <2>3. QED
    BY <1>a, <2>1, <2>2 DEF TypeOK
<1>2. PlacesFit'
  BY <1>a, <1>c DEF PlacesFit, TypeOK
<1>3. LongCallsExclude'
  BY <1>a, <1>b, <1>c DEF LongCallsExclude
<1>4. DueStays'
  BY <1>a DEF DueStays, TypeOK, CheckAhead
<1>5. QED
  BY <1>1, <1>2, <1>3, <1>4

LEMMA FlagsKeepInv ==
  ASSUME SessionInv, Close \/ \E on \in BOOLEAN : Pauses(on)
  PROVE  SessionInv'
<1> USE DEF SessionInv
<1>1. TypeOK'
  BY DEF Close, Pauses, TypeOK
<1>2. PlacesFit' /\ LongCallsExclude' /\ DueStays'
  BY DEF Close, Pauses, PlacesFit, LongCallsExclude, DueStays, InFlight
<1>3. QED
  BY <1>1, <1>2

-----------------------------------------------------------------------------
(* Every step keeps the invariant. *)

LEMMA StepKeepsInv ==
  ASSUME SessionInv, [Next]_vars
  PROVE  SessionInv'
<1>1. CASE \E s \in Slots, k \in Kinds, signalled \in BOOLEAN : Call(s, k, signalled)
  BY <1>1, CallKeepsInv
<1>2. CASE Cancel \/ \E s \in Slots : HostAborts(s)
  <2>1. PICK fired \in SUBSET Slots : Fire(fired)
    BY <1>2 DEF Cancel, HostAborts, SessionInv, TypeOK
  <2>2. QED
    BY <2>1, FireKeepsInv
<1>3. CASE Close \/ \E on \in BOOLEAN : Pauses(on)
  BY <1>3, FlagsKeepInv
<1>4. CASE \E s \in Slots : CallStep(s)
  BY <1>4, ProceedKeepsInv, ThrowsKeepsInv, AnsweredKeepsInv, AskAbortedKeepsInv, RunKeepsInv,
     LeaveAbortKeepsInv, LeaveBusyKeepsInv DEF CallStep, Settles
<1>5. CASE UNCHANGED vars
  BY <1>5 DEF SessionInv, TypeOK, PlacesFit, LongCallsExclude, DueStays, InFlight, vars
<1>6. QED
  BY <1>1, <1>2, <1>3, <1>4, <1>5 DEF Next, HostStep

LEMMA SessionInvariant == Spec => []SessionInv
BY InitHasInv, StepKeepsInv, PTL DEF Spec

\* The flags, the controllers and the waits of all calls keep their types.
THEOREM SessionTypes == Spec => []TypeOK
BY SessionInvariant, PTL DEF SessionInv

\* Automatic writing, writing or deleting a chapter and changing the foundation
\* never overlap, and the busy flag is up exactly while one is in flight.
THEOREM LongCallsAreAlone == Spec => []LongCallsExclude
BY SessionInvariant, PTL DEF SessionInv

\* A call cancelled with a check ahead of it ends with AbortedError.
THEOREM CancelRejects == Spec => []CancelIsHonoured
<1>1. SessionInv => CancelIsHonoured
  BY DEF SessionInv, DueStays, CancelIsHonoured, CheckAhead
<1>2. QED
  BY <1>1, SessionInvariant, PTL
-----------------------------------------------------------------------------
(* What getRunState() looks at. *)

\* The engine is held by the call that runs it or writes down its end, and
\* preEngine stands while automatic writing is on its way there.
EngineFits ==
  /\ \A s \in Slots : at[s] = "meta" => kind[s] = "startAutoWrite"
  /\ \A s \in Slots : at[s] \in {"run", "meta"} => engine = s
  /\ engine # NoSlot => at[engine] \in {"run", "meta"}
  /\ \A s \in Slots :
       kind[s] = "startAutoWrite" /\ Inside(s) /\ at[s] \notin {"run", "meta"} => preEngine

\* Going on to "meta" is going on from "run", and nothing follows "meta".
LEMMA MetaFollowsRun ==
  ASSUME NEW k \in AllKinds, NEW w \in DOMAIN After(k), NEW x \in After(k)[w]
  PROVE  /\ x # "meta"
         /\ w # "run"
         /\ w = "meta" => x = "return"
<1> USE DEF After
<1>1. CASE k = "startAutoWrite"
  BY <1>1 DEF AutoWriteWaits
<1>2. CASE k = "generateFoundation"
  BY <1>2 DEF GenerateWaits
<1>3. CASE k = "chapter.write"
  BY <1>3 DEF WriteWaits
<1>4. CASE k = "applyFoundationChange"
  BY <1>4 DEF ApplyWaits
<1>5. CASE k = "chapter.delete"
  BY <1>5 DEF DeleteWaits
<1>6. QED
  BY <1>1, <1>2, <1>3, <1>4, <1>5 DEF AllKinds, Locked

\* Only one automatic writing is inside its body.
LEMMA OneAutoWrite ==
  ASSUME SessionInv, NEW s \in Slots, NEW t \in Slots, Inside(s), InFlight(t),
         kind[s] = "startAutoWrite", kind[t] = "startAutoWrite"
  PROVE  s = t
BY DEF SessionInv, LongCallsExclude, Inside, InFlight, Locked, Bodies, StoreWaits

\* The finally block of automatic writing lets go of its engine, and of no other.
LEMMA FinishKeepsEngine ==
  ASSUME SessionInv, EngineFits, NEW s \in Slots, NEW how, Inside(s), Finish(s, how)
  PROVE  EngineFits'
<1>a. at' = [at EXCEPT ![s] = "leaving"] /\ kind' = kind /\ at \in [Slots -> Places]
  BY DEF Finish, SessionInv, TypeOK
<1>b. \A t \in Slots : t # s => at'[t] = at[t]
  BY <1>a
<1>c. at'[s] = "leaving" /\ ~Inside(s)'
  BY <1>a DEF Inside, Bodies, StoreWaits
<1>d. at[s] \in {"run", "meta"} => kind[s] = "startAutoWrite"
  BY DEF EngineFits, SessionInv, PlacesFit
<1>1. CASE kind[s] = "startAutoWrite"
  <2>1. engine' = NoSlot /\ \A t \in Slots : kind[t] = "startAutoWrite" /\ InFlight(t) => t = s
    BY <1>1, OneAutoWrite DEF Finish
  <2>2. \A t \in Slots : at[t] \in {"run", "meta"} => kind[t] = "startAutoWrite" /\ InFlight(t)
    BY DEF EngineFits, SessionInv, PlacesFit, InFlight
  <2>3. \A t \in Slots : Inside(t) => InFlight(t)
    BY DEF Inside, InFlight, Bodies, StoreWaits
  <2>4. \A t \in Slots : t # s => (Inside(t)' <=> Inside(t))
    BY <1>b DEF Inside
  <2>5. QED
    BY <1>a, <1>b, <1>c, <2>1, <2>2, <2>3, <2>4 DEF EngineFits
<1>2. CASE kind[s] # "startAutoWrite"
  <2>1. engine' = engine /\ preEngine' = preEngine
    BY <1>2 DEF Finish
  <2>2. engine # NoSlot => engine \in Slots /\ engine # s
    BY <1>d, <1>2 DEF EngineFits, SessionInv, TypeOK
  <2>3. \A t \in Slots : t # s => (Inside(t)' <=> Inside(t))
    BY <1>b DEF Inside
  <2>4. QED
    BY <1>a, <1>b, <1>c, <2>1, <2>2, <2>3 DEF EngineFits
<1>3. QED
  BY <1>1, <1>2

\* The engine is made on the way to its run, and kept while its end is written down.
LEMMA WaitKeepsEngine ==
  ASSUME SessionInv, EngineFits, NEW s \in Slots, NEW w \in Bodies, Inside(s), Wait(s, w),
         at[s] # "meta", at[s] = "run" <=> w = "meta",
         w = "run" => kind[s] = "startAutoWrite"
  PROVE  EngineFits'
<1>a. at' = [at EXCEPT ![s] = w] /\ kind' = kind /\ at \in [Slots -> Places]
  BY DEF Wait, SessionInv, TypeOK
<1>b. (\A t \in Slots : t # s => at'[t] = at[t]) /\ at'[s] = w
  BY <1>a
<1>c. \A t \in Slots : t # s => (Inside(t)' <=> Inside(t))
  BY <1>b DEF Inside
<1>d. at[s] = "run" => kind[s] = "startAutoWrite"
  BY DEF SessionInv, PlacesFit
<1>1. CASE w = "run"
  <2>1. engine' = s /\ at[s] \notin {"run", "meta"}
    BY <1>1 DEF Wait
  <2>2. \A t \in Slots : kind[t] = "startAutoWrite" /\ InFlight(t) => t = s
    BY <1>1, OneAutoWrite
  <2>3. \A t \in Slots : at[t] \in {"run", "meta"} => kind[t] = "startAutoWrite" /\ InFlight(t)
    BY DEF EngineFits, SessionInv, PlacesFit, InFlight
  <2>4. \A t \in Slots : Inside(t) => InFlight(t)
    BY DEF Inside, InFlight, Bodies, StoreWaits
  <2>5. QED
    BY <1>1, <1>a, <1>b, <1>c, <2>1, <2>2, <2>3, <2>4 DEF EngineFits
<1>2. CASE w = "meta"
  <2>1. engine' = engine /\ preEngine' = preEngine /\ at[s] = "run"
    BY <1>2 DEF Wait
  <2>2. QED
    BY <1>2, <1>a, <1>b, <1>c, <1>d, <2>1 DEF EngineFits
<1>3. CASE w \notin {"run", "meta"}
  <2>1. engine' = engine /\ preEngine' = preEngine /\ at[s] \notin {"run", "meta"}
    BY <1>3 DEF Wait
  <2>2. engine # NoSlot => engine \in Slots /\ engine # s
    BY <2>1 DEF EngineFits, SessionInv, TypeOK
  <2>3. QED
    BY <1>3, <1>a, <1>b, <1>c, <2>1, <2>2 DEF EngineFits
<1>4. QED
  BY <1>1, <1>2, <1>3

LEMMA CallKeepsEngine ==
  ASSUME SessionInv, EngineFits, NEW s \in Slots, NEW k \in Kinds, NEW signalled \in BOOLEAN,
         Call(s, k, signalled)
  PROVE  EngineFits'
<1>a. /\ at[s] = "done" /\ kind' = [kind EXCEPT ![s] = k] /\ engine' = engine
      /\ at \in [Slots -> Places] /\ kind \in [Slots -> AllKinds \cup {"none"}]
      /\ engine \in Slots \cup {NoSlot}
  BY DEF Call, SessionInv, TypeOK
<1>b. \A t \in Slots : t # s => kind'[t] = kind[t]
  BY <1>a
<1>c. engine # s
  BY <1>a, SlotAssumption DEF EngineFits
<1>1. CASE Refused(k, signalled) # "none"
  <2>1. at' = at /\ preEngine' = preEngine
    BY <1>1 DEF Call
  <2>2. \A t \in Slots : Inside(t)' <=> Inside(t)
    BY <2>1 DEF Inside
  <2>3. ~Inside(s)
    BY <1>a DEF Inside, Bodies, StoreWaits
  <2>4. QED
    BY <1>a, <1>b, <2>1, <2>2, <2>3 DEF EngineFits
<1>2. CASE Refused(k, signalled) = "none"
  <2>1. PICK w \in First(k) : at' = [at EXCEPT ![s] = w]
    BY <1>2 DEF Call
  <2>2. w \notin {"run", "meta"}
    BY KindAssumption DEF First, AllKinds, Locked
  <2>3. (\A t \in Slots : t # s => at'[t] = at[t]) /\ at'[s] = w /\ kind'[s] = k
    BY <1>a, <2>1
  <2>4. preEngine \/ k = "startAutoWrite" => preEngine'
    BY <1>2 DEF Call
  <2>5. \A t \in Slots : t # s => (Inside(t)' <=> Inside(t))
    BY <2>3 DEF Inside
  <2>6. QED
    BY <1>a, <1>b, <1>c, <2>2, <2>3, <2>4, <2>5 DEF EngineFits
<1>3. QED
  BY <1>1, <1>2

LEMMA ProceedKeepsEngine ==
  ASSUME SessionInv, EngineFits, NEW s \in Slots, Proceed(s)
  PROVE  EngineFits'
<1>a. at[s] \in StoreWaits /\ Inside(s) /\ at[s] \in DOMAIN After(kind[s])
  BY DEF Proceed, Inside, Bodies, SessionInv, TypeOK
<1>b. kind[s] \in AllKinds
  BY <1>a DEF SessionInv, PlacesFit, InFlight, Inside, Bodies, StoreWaits
<1>c. PICK w \in After(kind[s])[at[s]] :
         \/ \E how : Finish(s, how)
         \/ w # "return" /\ Wait(s, w)
  BY DEF Proceed
<1>1. CASE \E how : Finish(s, how)
  BY <1>1, <1>a, FinishKeepsEngine
<1>2. CASE w # "return" /\ Wait(s, w)
  <2>1. w \in Bodies /\ (w = "run" => kind[s] = "startAutoWrite")
    BY <1>2, <1>a, <1>b, AfterFits
  <2>2. w # "meta" /\ at[s] # "run" /\ at[s] # "meta"
    BY <1>2, <1>a, <1>b, MetaFollowsRun
  <2>3. QED
    BY <1>2, <1>a, <2>1, <2>2, WaitKeepsEngine
<1>3. QED
  BY <1>c, <1>1, <1>2

LEMMA AnsweredKeepsEngine ==
  ASSUME SessionInv, EngineFits, NEW s \in Slots, Answered(s)
  PROVE  EngineFits'
<1>1. PICK w \in {"answered", "refined"} : at[s] \in {"ask", "refine"} /\ Wait(s, w)
  BY DEF Answered
<1>2. Inside(s) /\ w \in Bodies /\ at[s] \notin {"run", "meta"} /\ w \notin {"run", "meta"}
  BY <1>1 DEF Inside, Bodies, StoreWaits
<1>3. QED
  BY <1>1, <1>2, WaitKeepsEngine

LEMMA RunKeepsEngine ==
  ASSUME SessionInv, EngineFits, NEW s \in Slots, RunAborted(s) \/ RunReturns(s)
  PROVE  EngineFits'
<1>1. at[s] = "run" /\ Inside(s) /\ "meta" \in Bodies /\ (Finish(s, "aborted") \/ Wait(s, "meta"))
  BY DEF RunAborted, RunReturns, Inside, Bodies, StoreWaits
<1>2. QED
  BY <1>1, FinishKeepsEngine, WaitKeepsEngine

\* The finally blocks of withAbort and withBusy leave the engine alone.
LEMMA LeaveKeepsEngine ==
  ASSUME SessionInv, EngineFits, NEW s \in Slots, LeaveAbort(s) \/ LeaveBusy(s)
  PROVE  EngineFits'
<1>1. PICK x \in {"unlocking", "done"} : at' = [at EXCEPT ![s] = x]
  BY DEF LeaveAbort, LeaveBusy
<1>2. /\ at[s] \in {"leaving", "unlocking"} /\ kind' = kind /\ engine' = engine
      /\ preEngine' = preEngine /\ at \in [Slots -> Places] /\ engine \in Slots \cup {NoSlot}
  BY DEF LeaveAbort, LeaveBusy, SessionInv, TypeOK
<1>3. (\A t \in Slots : t # s => at'[t] = at[t]) /\ at'[s] = x
  BY <1>1, <1>2
<1>4. engine # s
  BY <1>2, SlotAssumption DEF EngineFits
<1>5. (\A t \in Slots : t # s => (Inside(t)' <=> Inside(t))) /\ ~Inside(s)'
  BY <1>3 DEF Inside, Bodies, StoreWaits
<1>6. QED
  BY <1>2, <1>3, <1>4, <1>5 DEF EngineFits

LEMMA StepKeepsEngine ==
  ASSUME SessionInv, EngineFits, [Next]_vars
  PROVE  EngineFits'
<1>1. CASE \E s \in Slots, k \in Kinds, signalled \in BOOLEAN : Call(s, k, signalled)
  BY <1>1, CallKeepsEngine
<1>2. CASE \/ Cancel \/ Close \/ UNCHANGED vars
           \/ \E s \in Slots : HostAborts(s)
           \/ \E on \in BOOLEAN : Pauses(on)
  <2>1. at' = at /\ kind' = kind /\ engine' = engine /\ preEngine' = preEngine
    BY <1>2 DEF Cancel, Close, HostAborts, Fire, Pauses, flags, vars
  <2>2. \A s \in Slots : Inside(s)' <=> Inside(s)
    BY <2>1 DEF Inside
  <2>3. QED
    BY <2>1, <2>2 DEF EngineFits
<1>3. CASE \E s \in Slots : Throws(s) \/ AskAborted(s)
  BY <1>3, FinishKeepsEngine DEF Throws, AskAborted, Inside, Bodies
<1>4. CASE \E s \in Slots : CallStep(s)
  BY <1>4, <1>3, ProceedKeepsEngine, AnsweredKeepsEngine, RunKeepsEngine, LeaveKeepsEngine
     DEF CallStep, Settles
<1>5. QED
  BY <1>1, <1>2, <1>4 DEF Next, HostStep

\* While a long call is inside its body, the flags are those of that call.
LEMMA EngineTells ==
  ASSUME SessionInv, EngineFits
  PROVE  RunStateTells
<1> SUFFICES ASSUME NEW s \in Slots, kind[s] \in Locked, Inside(s)
             PROVE  /\ at[s] \in {"run", "meta"} <=> RunState \in {"running", "paused"}
                    /\ kind[s] = "startAutoWrite" /\ at[s] \notin {"run", "meta"}
                         => RunState = "generating_missing"
                    /\ kind[s] # "startAutoWrite" => RunState \in {"busy", "generating_missing"}
  BY DEF RunStateTells
<1>1. \A t \in Slots : at[t] \in {"run", "meta"} => t = s
  <2>1. \A t \in Slots : at[t] \in {"run", "meta"} => kind[t] \in Locked /\ InFlight(t)
    BY DEF SessionInv, PlacesFit, EngineFits, InFlight, Locked
  <2>2. InFlight(s)
    BY DEF Inside, InFlight, Bodies, StoreWaits
  <2>3. QED
    BY <2>1, <2>2 DEF SessionInv, LongCallsExclude
<1>2. engine # NoSlot <=> at[s] \in {"run", "meta"}
  BY <1>1, SlotAssumption DEF EngineFits, SessionInv, TypeOK
<1>3. busy
  BY DEF SessionInv, LongCallsExclude, Inside, InFlight, Bodies, StoreWaits
<1>4. at[s] \in {"run", "meta"} => kind[s] = "startAutoWrite"
  BY DEF EngineFits, SessionInv, PlacesFit
<1>5. kind[s] = "startAutoWrite" /\ at[s] \notin {"run", "meta"} => preEngine
  BY DEF EngineFits
<1>6. QED
  BY <1>2, <1>3, <1>4, <1>5 DEF RunState

\* getRunState() tells the truth about long calls: "running" or "paused" while
\* one has an engine and only then, "generating_missing" on the way there.
THEOREM RunStateIsTrue == Spec => []RunStateTells
<1>1. Init => EngineFits
  BY DEF Init, EngineFits, Inside, Bodies, StoreWaits
<1>2. SessionInv /\ EngineFits /\ [Next]_vars => EngineFits'
  BY StepKeepsEngine
<1>3. SessionInv /\ EngineFits => RunStateTells
  BY EngineTells
<1>4. QED
  BY <1>1, <1>2, <1>3, SessionInvariant, PTL DEF Spec

\* The outline of a deletion apart, the session begins to save a foundation only for a
\* call that has just passed throwIfAborted, or has just begun, and for any call only
\* behind an assertOpen.
THEOREM OnlyWantedSaves == Spec => SavesAreWanted
<1> DEFINE Saves(s) == at'[s] # at[s] /\ at'[s] \in {"save", "upsert"}
           Wanted(s) == ~closed /\ (kind'[s] # "chapter.delete" => s \notin aborted')
<1>1. ASSUME SessionInv, [Next]_vars, NEW s \in Slots, Saves(s)
      PROVE  Wanted(s)
  <2>a. at \in [Slots -> Places] /\ kind \in [Slots -> AllKinds \cup {"none"}]
    BY <1>1 DEF SessionInv, TypeOK
  <2>1. CASE Proceed(s)
    <3>1. PICK w \in After(kind[s])[at[s]] :
             (\E how : Finish(s, how)) \/ (Thrown(s, w) = "none" /\ Wait(s, w))
      BY <2>1 DEF Proceed
    <3>2. /\ Thrown(s, w) = "none" /\ w \in {"save", "upsert"} /\ kind' = kind
          /\ aborted' = aborted
      BY <1>1, <2>a, <3>1 DEF Finish, Wait
    <3>3. ~closed /\ (w = "save" => s \notin aborted)
      BY <3>2 DEF Thrown, Checked, Reopened
    <3>4. w = "upsert" => kind[s] = "chapter.delete"
      <4>1. at[s] \in DOMAIN After(kind[s])
        BY <1>1, <2>1 DEF SessionInv, TypeOK, Proceed
      <4>2. CASE kind[s] = "startAutoWrite"
        BY <3>1, <4>1, <4>2 DEF After, AutoWriteWaits
      <4>3. CASE kind[s] = "generateFoundation"
        BY <3>1, <4>1, <4>3 DEF After, GenerateWaits
      <4>4. CASE kind[s] = "chapter.write"
        BY <3>1, <4>1, <4>4 DEF After, WriteWaits
      <4>5. CASE kind[s] = "applyFoundationChange"
        BY <3>1, <4>1, <4>5 DEF After, ApplyWaits
      <4>6. kind[s] \in AllKinds
        BY <1>1, <2>1 DEF SessionInv, PlacesFit, Proceed, InFlight, StoreWaits
      <4>7. QED
        BY <4>2, <4>3, <4>4, <4>5, <4>6 DEF AllKinds, Locked
    <3>5. QED
      BY <3>2, <3>3, <3>4
  <2>2. ASSUME NEW t \in Slots, CallStep(t), ~(t = s /\ Proceed(s))
        PROVE  FALSE
    <3>1. CASE Proceed(t)
      <4>1. t # s /\ \E x : at' = [at EXCEPT ![t] = x]
        BY <2>2, <3>1 DEF Proceed, Finish, Wait
      <4>2. QED
        BY <1>1, <2>a, <4>1
    <3>2. CASE ~Proceed(t)
      <4>1. PICK x \in {"leaving", "meta", "answered", "refined", "unlocking", "done"} :
               at' = [at EXCEPT ![t] = x]
        BY <2>2, <3>2 DEF CallStep, Settles, Throws, Answered, AskAborted, RunAborted,
           RunReturns, LeaveAbort, LeaveBusy, Finish, Wait
      <4>2. QED
        BY <1>1, <2>a, <4>1
    <3>3. QED
      BY <3>1, <3>2
  <2>3. ASSUME NEW t \in Slots, NEW k \in Kinds, NEW signalled \in BOOLEAN, Call(t, k, signalled)
        PROVE  Wanted(s)
    <3>1. t = s /\ Refused(k, signalled) = "none"
      <4>1. at' = at \/ (Refused(k, signalled) = "none" /\ \E w : at' = [at EXCEPT ![t] = w])
        BY <2>3 DEF Call
      <4>2. QED
        BY <1>1, <2>a, <4>1
    <3>2. aborted' = aborted \ {t} /\ ~closed
      BY <2>3, <3>1 DEF Call, Refused
    <3>3. QED
      BY <3>1, <3>2
  <2>4. CASE \/ Cancel \/ Close \/ UNCHANGED vars
             \/ \E t \in Slots : HostAborts(t)
             \/ \E on \in BOOLEAN : Pauses(on)
    BY <1>1, <2>4 DEF Cancel, Close, HostAborts, Fire, Pauses, flags, vars
  <2>5. QED
    BY <1>1, <2>1, <2>2, <2>3, <2>4 DEF Next, HostStep
<1>2. SessionInv /\ [Next]_vars => [\A s \in Slots : Saves(s) => Wanted(s)]_vars
  BY <1>1
<1> HIDE DEF Saves, Wanted
<1>3. QED
  BY <1>2, SessionInvariant, PTL DEF Spec, SavesAreWanted, Saves, Wanted

-----------------------------------------------------------------------------
(* The foundation, with one call in flight: the README says what two calls   *)
(* at once may do to each other.                                             *)

OneCaller == \A s, t \in Callers : s = t

CallFields == { "kind", "at", "patch", "keys", "o", "h", "written", "plan", "base", "full",
                "hit", "told" }

ActiveKinds == {"upsert", "apply", "generate", "auto"}

\* The waits of a call are those of its kind.
StagesFit(c) ==
  /\ DOMAIN c = CallFields
  /\ c.at # "done" => c.kind \in ActiveKinds
  /\ c.at = "done" => c.kind \notin ActiveKinds
  /\ c.at \in {"assess", "refine", "gate", "rewrite"} => c.kind = "apply"
  /\ c.at \in {"gaps", "inspect", "run"} => c.kind = "auto"
  /\ c.at \in {"select", "ask"} => c.kind \in {"generate", "auto"}

\* The files are those the call found, with what it has written of p in order.
WrittenSoFar(c, p, f) ==
  LET done == DOMAIN p \ DOMAIN c.patch
  IN  /\ DOMAIN c.patch \subseteq DOMAIN p /\ \A k \in DOMAIN c.patch : c.patch[k] = p[k]
      /\ \A k \in FoundationKeys : f[k] = IF k \in done THEN p[k] ELSE c.base[k]
      /\ "layered_outline" \in done => "outline" \notin DOMAIN c.patch

\* The assessment h tells of every written chapter that p may contradict.
Covers(h, f, p, written) ==
  \A x \in Findings(f, p, written, Mentions) : x.severity = RewriteNeeded =>
    /\ h.severity = RewriteNeeded
    /\ h.mode # NoMode
    /\ x.chapters \subseteq h.chapters

AssessmentFields == {"severity", "chapters", "mode", "keys", "drafts", "source"}

\* A change from its assessment on: confirmed where that is wanted, and what
\* it has contradicted is named and will be, or has been, rewritten.
AssessedInv(c, p, f, t) ==
  /\ WrittenSoFar(c, p, f)
  /\ c.written = WrittenChapters(t)
  /\ DOMAIN c.h = AssessmentFields
  /\ Covers(c.h, c.base, p, c.written)
  /\ c.at \in {"refine", "gate"} => DOMAIN c.patch = DOMAIN p /\ c.hit = {}
  /\ c.at \notin {"refine", "gate"} => ~NeedsConfirm(c.h, c.o)
  /\ c.hit # {} => c.h.severity = RewriteNeeded /\ c.h.mode # NoMode
  /\ c.hit \subseteq c.h.chapters \cap c.written
  /\ /\ c.at \notin {"refine", "gate"} /\ c.h.mode # NoMode
     /\ c.o.rewriteChapters /\ c.o.chapters = None /\ c.o.mode = None
     => c.h.chapters \cap c.written \subseteq c.plan \cup c.told

ApplyInv(c, f, t) ==
  /\ c.at = "assess" => c.patch \in Patches /\ c.hit = {}
  /\ c.at # "assess" => \E p \in Patches : AssessedInv(c, p, f, t)

\* A key of the foundation that filling may write.
MayFill(k, base, tier) ==
  /\ base[k] = None
  /\ k = "outline" => tier = "short" \/ base["layered_outline"] = None
  /\ k = "layered_outline" => base["outline"] = None

\* The keys make up for all that is missing.
FillsAll(keys, base, tier) ==
  \A k \in Missing(base, tier) :
    IF k = "outline" THEN (IF tier = "short" THEN "outline" ELSE "layered_outline") \in keys
    ELSE k \in keys

\* A generation, alone or in an automatic run, from the keys it has selected on.
SelectedInv(c, f) ==
  /\ c.keys # {} /\ c.keys \subseteq FoundationKeys
  /\ c.o.mode = "fill_missing" => \A k \in c.keys : MayFill(k, c.base, c.o.tier)
  /\ c.kind = "auto" => FillsAll(c.keys, c.base, c.o.tier)
  /\ c.at = "ask" => \A k \in FoundationKeys : f[k] = c.base[k]
  /\ c.at \in {"write", "drop"} =>
       /\ DOMAIN c.patch \subseteq c.keys
       /\ \A k \in FoundationKeys : f[k] \in {c.base[k], Generated[k]}
       /\ \A k \in DOMAIN c.patch : f[k] = c.base[k] /\ c.patch[k] = Generated[k]
       /\ c.full => \A k \in c.keys \ DOMAIN c.patch : f[k] = Generated[k]

GenerateInv(c, f) ==
  /\ c.at \in {"gaps", "select"} => c.base = <<>>
  /\ c.base = <<>> => ~c.full
  /\ c.at = "ask" => c.base # <<>>
  /\ c.at = "select" => c.keys \subseteq FoundationKeys
  /\ c.at = "select" /\ c.kind = "auto" => FillsAll(c.keys, f, c.o.tier)
  /\ c.at \in {"ask", "write", "drop"} /\ c.base # <<>> => SelectedInv(c, f)
  /\ c.at = "inspect" /\ c.full => Missing(f, c.o.tier) = {}

CallInv(c, f, t) ==
  /\ StagesFit(c)
  /\ c.at = "drop" => DOMAIN c.patch = {}
  /\ c.at = "write" => DOMAIN c.patch \subseteq FoundationKeys /\ \A k \in DOMAIN c.patch : c.patch[k] # None
  /\ c.kind = "apply" => ApplyInv(c, f, t)
  /\ c.kind \in {"generate", "auto"} => GenerateInv(c, f)

FoundationInv ==
  /\ DOMAIN foundation = FoundationKeys
  /\ DOMAIN call = Callers
  /\ \A s \in Callers : CallInv(call[s], foundation, text)

-----------------------------------------------------------------------------
(* What an assessment tells. *)

\* The key that is written next is one of those left, and the outline goes first.
LEMMA FirstIsLeft ==
  ASSUME NEW keys, keys \subseteq FoundationKeys, keys # {}
  PROVE  FirstOf(keys) \in keys /\ (FirstOf(keys) = "layered_outline" => "outline" \notin keys)
<1> DEFINE Least(i) == WriteOrder[i] \in keys /\ \A j \in 1..i-1 : WriteOrder[j] \notin keys
<1>1. DOMAIN WriteOrder = 1..6 /\ FoundationKeys = {WriteOrder[i] : i \in 1..6}
  BY DEF WriteOrder, FoundationKeys
<1>2. \E i \in 1..6 : Least(i)
  <2>1. PICK k \in 1..6 : WriteOrder[k] \in keys
    BY <1>1
  <2>2. CASE WriteOrder[1] \in keys
    <3>1. Least(1)
      BY <2>2
    <3>2. QED
      BY <3>1
  <2>3. CASE WriteOrder[1] \notin keys /\ WriteOrder[2] \in keys
    <3>1. Least(2)
      BY <2>3
    <3>2. QED
      BY <3>1
  <2>4. CASE (\A j \in 1..2 : WriteOrder[j] \notin keys) /\ WriteOrder[3] \in keys
    <3>1. Least(3)
      BY <2>4
    <3>2. QED
      BY <3>1
  <2>5. CASE (\A j \in 1..3 : WriteOrder[j] \notin keys) /\ WriteOrder[4] \in keys
    <3>1. Least(4)
      BY <2>5
    <3>2. QED
      BY <3>1
  <2>6. CASE (\A j \in 1..4 : WriteOrder[j] \notin keys) /\ WriteOrder[5] \in keys
    <3>1. Least(5)
      BY <2>6
    <3>2. QED
      BY <3>1
  <2>7. CASE \A j \in 1..5 : WriteOrder[j] \notin keys
    <3>1. Least(6)
      BY <2>1, <2>7
    <3>2. QED
      BY <3>1
  <2>8. QED
    BY <2>2, <2>3, <2>4, <2>5, <2>6, <2>7
<1> DEFINE i == CHOOSE i \in 1..6 : Least(i)
<1>3. i \in 1..6 /\ Least(i) /\ FirstOf(keys) = WriteOrder[i]
  BY <1>1, <1>2 DEF FirstOf
<1> HIDE DEF i
<1>4. WriteOrder[i] = "layered_outline" => i = 4
  BY <1>3 DEF WriteOrder
<1>5. WriteOrder[3] = "outline"
  BY DEF WriteOrder
<1>6. QED
  BY <1>3, <1>4, <1>5

\* A finding is one of three ranks, whatever it is about.
LEMMA FindingsRanked ==
  ASSUME NEW f, NEW p, NEW written, NEW x \in Findings(f, p, written, Mentions)
  PROVE  x.severity \in Severities
BY DEF Findings, AssessBook, AssessPremise, AssessOutline, AssessOutlineEntries,
       AssessCharacters, AssessWorldRules, FindingIf, Finding, Severities, MetaOnly, ForwardOnly,
       RewriteNeeded

\* The merge of the findings loses none of them.
LEMMA AssessmentCovers ==
  ASSUME NEW f, NEW p, NEW t
  PROVE  LET h == AssessProposed(f, p, t, Mentions)
         IN  DOMAIN h = AssessmentFields /\ Covers(h, f, p, WrittenChapters(t))
<1> DEFINE F == Findings(f, p, WrittenChapters(t), Mentions)
           h == AssessProposed(f, p, t, Mentions)
           ranks == {MetaOnly} \cup {x.severity : x \in F}
<1>1. DOMAIN h = AssessmentFields
  BY DEF AssessProposed, MergeFindings, AssessmentFields
<1>2. ASSUME NEW x \in F, x.severity = RewriteNeeded
      PROVE  h.severity = RewriteNeeded /\ h.mode # NoMode /\ x.chapters \subseteq h.chapters
  <2>1. ranks \subseteq Severities /\ RewriteNeeded \in ranks
    BY <1>2, FindingsRanked DEF Severities, MetaOnly
  <2>2. \A r \in Severities : RewriteNeeded >= r /\ (r >= RewriteNeeded => r = RewriteNeeded)
    BY DEF Severities, MetaOnly, ForwardOnly, RewriteNeeded
  <2>3. Highest(ranks) = RewriteNeeded
    <3> HIDE DEF ranks
    <3>1. \E r \in ranks : \A other \in ranks : r >= other
      BY <2>1, <2>2
    <3>2. Highest(ranks) \in ranks /\ \A other \in ranks : Highest(ranks) >= other
      BY <3>1 DEF Highest
    <3>3. QED
      BY <2>1, <2>2, <3>2
  <2>4. /\ h.severity = RewriteNeeded
        /\ h.chapters = UNION {y.chapters : y \in F}
        /\ h.mode # NoMode
    BY <2>3 DEF AssessProposed, MergeFindings, NoMode, Rewrite
  <2>5. QED
    BY <1>2, <2>4
<1>3. QED
  BY <1>1, <1>2 DEF Covers

\* What the model makes of an assessment does not play it down.
LEMMA RefinementCovers ==
  ASSUME NEW h, NEW f, NEW p, NEW written, DOMAIN h = AssessmentFields, Covers(h, f, p, written),
         NEW raw \in Refinements
  PROVE  LET g == RefineWithLlm(h, raw, written)
         IN  DOMAIN g = AssessmentFields /\ Covers(g, f, p, written)
<1> DEFINE g == RefineWithLlm(h, raw, written)
<1>1. CASE raw = None
  BY <1>1 DEF RefineWithLlm
<1>2. CASE raw # None
  <2>1. g = ApplyLlmRefinement(h, raw, written)
    BY <1>2 DEF RefineWithLlm
  <2>2. DOMAIN g = AssessmentFields
    BY <2>1 DEF ApplyLlmRefinement, AssessmentFields
  <2>3. ASSUME h.severity = RewriteNeeded
        PROVE  g.severity = RewriteNeeded /\ g.mode # NoMode /\ h.chapters \subseteq g.chapters
    <3>1. "severity" \in DOMAIN raw => MaxRank(h.severity, raw.severity) = RewriteNeeded
      BY <1>2, <2>3, FoundationAssumption
         DEF MaxRank, Severities, MetaOnly, ForwardOnly, RewriteNeeded
    <3>2. g.severity = RewriteNeeded
      BY <2>1, <2>3, <3>1 DEF ApplyLlmRefinement, AssessmentFields
    <3>3. g.chapters = RefinedChapters(h, raw, written)
      BY <2>1, <2>3, <3>1 DEF ApplyLlmRefinement, AssessmentFields
    <3>4. g.mode # NoMode
      BY <2>1, <2>3, <3>1 DEF ApplyLlmRefinement, AssessmentFields, NoMode, Rewrite
    <3>5. QED
      BY <3>2, <3>3, <3>4 DEF RefinedChapters
  <2>4. QED
    BY <2>2, <2>3 DEF Covers
<1>3. QED
  BY <1>1, <1>2

\* The file of p that is written next contradicts only chapters a finding names.
LEMMA ContradictionIsFound ==
  ASSUME NEW c, NEW p \in Patches, NEW f, DOMAIN f = FoundationKeys, WrittenSoFar(c, p, f),
         DOMAIN c.patch # {}, NEW written, NEW n \in written,
         Contradicted(n, f, [f EXCEPT ![FirstOf(DOMAIN c.patch)] = c.patch[FirstOf(DOMAIN c.patch)]],
                      Mentions)
  PROVE  \E x \in Findings(c.base, p, written, Mentions) :
           x.severity = RewriteNeeded /\ n \in x.chapters
<1> DEFINE k == FirstOf(DOMAIN c.patch)
           b == c.base
           g == [f EXCEPT ![k] = c.patch[k]]
           Told == \E x \in Findings(b, p, written, Mentions) :
                     x.severity = RewriteNeeded /\ n \in x.chapters
<1>1. /\ k \in DOMAIN c.patch /\ k \in DOMAIN p /\ k \in FoundationKeys
      /\ f[k] = b[k] /\ c.patch[k] = p[k] /\ p[k] # None
      /\ k = "layered_outline" => "outline" \notin DOMAIN c.patch
  BY FirstIsLeft, FoundationAssumption DEF WrittenSoFar
<1>2. g[k] = p[k] /\ \A j \in FoundationKeys \ {k} : g[j] = f[j]
  BY <1>1
<1> HIDE DEF k, g
<1> USE DEF FoundationKeys
<1>3. CASE f["premise"] # g["premise"]
  <2>1. k = "premise" /\ p["premise"] # b["premise"]
    BY <1>1, <1>2, <1>3
  <2> DEFINE x == Finding("premise", RewriteNeeded, Rewrite, written)
  <2>2. x \in AssessPremise(b, p, written)
    BY <1>1, <2>1 DEF AssessPremise, FindingIf
  <2>3. x \in Findings(b, p, written, Mentions) /\ x.severity = RewriteNeeded /\ n \in x.chapters
    BY <2>2 DEF Findings, Finding
  <2>4. QED
    BY <2>3
<1>4. CASE PlotOf(f, n) # PlotOf(g, n)
  <2> DEFINE before == Rows(FlattenCurrentOutline(b))
             after == p[k]
  <2>1. /\ k \in {"outline", "layered_outline"}
        /\ GoverningOutline(f) = before
        /\ GoverningOutline(g) = after
    <3>1. GoverningOutline(f) # GoverningOutline(g)
      BY <1>4 DEF PlotOf
    <3>2. k \in {"outline", "layered_outline"}
      BY <1>2, <3>1 DEF GoverningOutline
    <3>3. CASE k = "outline"
      <4>1. g["outline"] = after /\ after # None /\ f["outline"] = b["outline"]
        BY <1>1, <1>2, <3>3
      <4>2. f["layered_outline"] = b["layered_outline"]
        BY <1>1, <3>3 DEF WrittenSoFar
      <4>3. QED
        BY <3>2, <4>1, <4>2 DEF GoverningOutline, FlattenCurrentOutline, Rows
    <3>4. CASE k = "layered_outline"
      <4>1. g["outline"] = f["outline"] /\ g["layered_outline"] = after /\ after # None
        BY <1>1, <1>2, <3>4
      <4>2. f["outline"] = None
        BY <3>1, <4>1 DEF GoverningOutline
      <4>3. b["outline"] = None /\ f["layered_outline"] = b["layered_outline"]
        BY <1>1, <3>4, <4>2, FoundationAssumption DEF WrittenSoFar
      <4>4. QED
        BY <3>2, <4>1, <4>2, <4>3 DEF GoverningOutline, FlattenCurrentOutline, Rows
    <3>5. QED
      BY <3>2, <3>3, <3>4
  <2>2. n \in PlotChapters(before, after, written)
    BY <1>4, <2>1 DEF PlotOf, PlotChapters
  <2> DEFINE x == Finding(k, RewriteNeeded, Rewrite, PlotChapters(before, after, written))
  <2>3. x \in AssessOutline(k, b, p, written)
    BY <1>1, <2>2 DEF AssessOutline, AssessOutlineEntries, FindingIf
  <2>4. x \in Findings(b, p, written, Mentions)
    BY <2>1, <2>3 DEF Findings
  <2>5. x.severity = RewriteNeeded /\ n \in x.chapters
    BY <2>2 DEF Finding
  <2>6. QED
    BY <2>4, <2>5
<1>5. ASSUME NEW key \in {"characters", "world_rules"}, NEW m \in Mentions[n],
             ContentOf(key, f, m) # {}, ContentOf(key, f, m) # ContentOf(key, g, m)
      PROVE  Told
  <2>1. k = key /\ f[key] = b[key] /\ g[key] = p[key] /\ p[key] # None /\ key \in DOMAIN p
    BY <1>1, <1>2, <1>5 DEF ContentOf
  <2>2. m \in DOMAIN Rows(b[key])
    BY <1>5, <2>1 DEF ContentOf
  <2>3. m \in DOMAIN p[key] => Rows(b[key])[m] # p[key][m]
    BY <1>5, <2>1, <2>2 DEF ContentOf, Rows
  <2>4. b[key] # None
    BY <2>2 DEF Rows
  <2>5. m \in Changed(key, b, p) \/ m \in Removed(key, b, p)
    BY <2>1, <2>2, <2>3, <2>4 DEF Changed, Removed, Rows
  <2>6. n \in ChaptersMentioning(m, written, Mentions)
    BY <1>5 DEF ChaptersMentioning
  <2>7. CASE key = "characters"
    <3> DEFINE touched == CharactersTouch(b, p, written, Mentions)
               x == Finding("characters", RewriteNeeded, Rewrite, touched)
    <3>1. n \in touched
      <4>1. m \in Changed(key, b, p) => n \in TouchedBy(Changed(key, b, p), written, Mentions)
        BY <2>6 DEF TouchedBy
      <4>2. m \in Removed(key, b, p) => n \in Mentioning(Removed(key, b, p), written, Mentions)
        BY <2>6 DEF Mentioning
      <4>3. QED
        BY <2>5, <2>7, <4>1, <4>2 DEF CharactersTouch
    <3>2. x \in AssessCharacters(b, p, written, Mentions)
      BY <2>1, <2>7, <3>1 DEF AssessCharacters, FindingIf
    <3>3. x \in Findings(b, p, written, Mentions)
      BY <3>2 DEF Findings
    <3>4. x.severity = RewriteNeeded /\ n \in x.chapters
      BY <3>1 DEF Finding
    <3>5. QED
      BY <3>3, <3>4
  <2>8. CASE key = "world_rules"
    <3> DEFINE existing == Changed("world_rules", b, p) \cup Removed("world_rules", b, p)
               mentioned == Mentioning(existing, written, Mentions)
               x == Finding("world_rules", RewriteNeeded, Rewrite,
                            IF mentioned = {} THEN written ELSE mentioned)
    <3>1. n \in mentioned /\ existing # {} /\ written # {}
      BY <2>5, <2>6, <2>8 DEF Mentioning
    <3>2. x \in AssessWorldRules(b, p, written, Mentions)
      BY <2>1, <2>8, <3>1 DEF AssessWorldRules, FindingIf
    <3>3. x \in Findings(b, p, written, Mentions)
      BY <3>2 DEF Findings
    <3>4. x.severity = RewriteNeeded /\ n \in x.chapters
      BY <3>1 DEF Finding
    <3>5. QED
      BY <3>3, <3>4
  <2>9. QED
    BY <2>7, <2>8
<1>6. QED
  BY <1>3, <1>4, <1>5 DEF Contradicted, k, g

-----------------------------------------------------------------------------
(* The steps of a call. *)

LEMMA IdleIsFine ==
  ASSUME NEW f, NEW t, NEW r, r \notin ActiveKinds
  PROVE  CallInv([NoCall EXCEPT !.kind = r], f, t)
BY DEF CallInv, StagesFit, CallFields, NoCall, ActiveKinds

LEMMA NoCallIsFine ==
  ASSUME NEW f, NEW t
  PROVE  CallInv(NoCall, f, t)
BY DEF CallInv, StagesFit, CallFields, NoCall, ActiveKinds

\* With one caller the invariant is about the call that makes the step.
LEMMA AloneKeepsInv ==
  ASSUME OneCaller, FoundationInv, NEW s \in Callers, NEW d, Goes(s, d),
         DOMAIN foundation' = FoundationKeys, CallInv(d, foundation', text')
  PROVE  FoundationInv'
BY DEF OneCaller, FoundationInv, Goes

LEMMA EndKeepsInv ==
  ASSUME OneCaller, FoundationInv, NEW s \in Callers, NEW r, r \notin ActiveKinds, EndsAs(s, r),
         DOMAIN foundation' = FoundationKeys
  PROVE  FoundationInv'
BY IdleIsFine, AloneKeepsInv DEF EndsAs

\* Where it leaves the files and the written chapters alone.
Still == foundation' = foundation /\ text' = text

LEMMA MoveKeepsInv ==
  ASSUME OneCaller, FoundationInv, NEW s \in Callers, NEW d, Goes(s, d), Still,
         CallInv(d, foundation, text)
  PROVE  FoundationInv'
<1>1. DOMAIN foundation' = FoundationKeys /\ CallInv(d, foundation', text')
  BY DEF Still, FoundationInv
<1>2. QED
  BY <1>1, AloneKeepsInv

LEMMA BeginKeepsInv ==
  ASSUME OneCaller, FoundationInv, NEW s \in Callers, NEW k \in ActiveKinds, NEW w, NEW p,
         NEW keys, NEW o, Begin(s, k, w, p, keys, o),
         \/ w = "write" /\ k \in {"upsert", "auto"} /\ p \in Patches
         \/ w = "assess" /\ k = "apply" /\ p \in Patches
         \/ w = "select" /\ k = "generate" /\ keys \in Requests
         \/ w \in {"gaps", "inspect"} /\ k = "auto"
  PROVE  FoundationInv'
<1> DEFINE d == [NoCall EXCEPT !.kind = k, !.at = w, !.patch = p, !.keys = keys, !.o = o]
<1>1. Goes(s, d) /\ Still
  BY DEF Begin, Still
<1>2. /\ DOMAIN d = CallFields /\ d.kind = k /\ d.at = w /\ d.patch = p /\ d.keys = keys
      /\ d.base = <<>> /\ d.full = FALSE /\ d.hit = {}
  BY DEF NoCall, CallFields
<1> HIDE DEF d
<1>3. StagesFit(d)
  BY <1>2 DEF StagesFit, ActiveKinds
<1>4. k = "apply" => ApplyInv(d, foundation, text)
  BY <1>2 DEF ApplyInv
<1>5. k \in {"generate", "auto"} => GenerateInv(d, foundation)
  BY <1>2, FoundationAssumption DEF GenerateInv
<1>6. CallInv(d, foundation, text)
  BY <1>2, <1>3, <1>4, <1>5, FoundationAssumption DEF CallInv
<1>7. QED
  BY <1>1, <1>6, MoveKeepsInv

\* A call whose patch is saved, or that had nothing to save, goes on.
LEMMA ContinueKeepsInv ==
  ASSUME OneCaller, FoundationInv, NEW s \in Callers, Continue(s, call[s]), Still,
         \/ call[s].at = "select"
         \/ call[s].at \in {"write", "drop"} /\ DOMAIN call[s].patch = {}
  PROVE  FoundationInv'
<1> DEFINE c == call[s]
<1>1. CallInv(c, foundation, text) /\ StagesFit(c) /\ DOMAIN foundation' = FoundationKeys
  BY DEF FoundationInv, CallInv, Still
<1>2. c.kind \in ActiveKinds
  BY <1>1 DEF StagesFit
<1>3. CASE c.kind \in {"upsert", "generate"}
  <2>1. EndsAs(s, "done")
    BY <1>3 DEF Continue
  <2>2. QED
    BY <1>1, <2>1, EndKeepsInv DEF ActiveKinds
<1>4. CASE c.kind = "apply" /\ c.plan = {}
  <2>1. EndsAs(s, "applied")
    BY <1>4 DEF Continue
  <2>2. QED
    BY <1>1, <2>1, EndKeepsInv DEF ActiveKinds
<1>5. CASE c.kind = "apply" /\ c.plan # {}
  <2> DEFINE d == [c EXCEPT !.at = "rewrite"]
  <2>1. Goes(s, d)
    BY <1>5 DEF Continue
  <2>2. /\ DOMAIN d = CallFields /\ d.at = "rewrite" /\ d.kind = "apply"
        /\ \A x \in CallFields \ {"at"} : d[x] = c[x]
    BY <1>1, <1>5 DEF StagesFit, CallFields
  <2>3. PICK p \in Patches : AssessedInv(c, p, foundation, text)
    BY <1>1, <1>5 DEF CallInv, ApplyInv, StagesFit
  <2>4. c.at \in {"write", "drop"}
    BY <1>1, <1>5 DEF StagesFit
  <2> HIDE DEF c, d
  <2>5. AssessedInv(d, p, foundation, text)
    BY <2>2, <2>3, <2>4 DEF AssessedInv, WrittenSoFar, CallFields
  <2>6. CallInv(d, foundation, text)
    BY <2>2, <2>5 DEF CallInv, StagesFit, ApplyInv, ActiveKinds
  <2>7. QED
    BY <2>1, <2>6, MoveKeepsInv
<1>6. CASE c.kind = "auto"
  <2>1. PICK w \in {"gaps", "inspect"} :
           /\ Goes(s, [c EXCEPT !.at = w])
           /\ c.keys # {} => w = "inspect"
    BY <1>6 DEF Continue, AfterPatch
  <2> DEFINE d == [c EXCEPT !.at = w]
  <2>2. /\ DOMAIN d = CallFields /\ d.at = w /\ d.kind = "auto"
        /\ \A x \in CallFields \ {"at"} : d[x] = c[x]
    BY <1>1, <1>6 DEF StagesFit, CallFields
  <2>3. GenerateInv(c, foundation)
    BY <1>1, <1>6 DEF CallInv
  <2> HIDE DEF c, d
  <2>4. c.base # <<>> => c.at \in {"write", "drop"} /\ SelectedInv(c, foundation)
    BY <2>3 DEF GenerateInv, c
  <2>5. c.base # <<>> => c.keys # {}
    BY <2>4 DEF SelectedInv
  <2>6. c.base # <<>> /\ c.full => Missing(foundation, c.o.tier) = {}
    <3> SUFFICES ASSUME c.base # <<>>, c.full, NEW k \in Missing(foundation, c.o.tier)
                 PROVE  FALSE
      OBVIOUS
    <3>1. /\ FillsAll(c.keys, c.base, c.o.tier) /\ c.keys \subseteq FoundationKeys
          /\ \A j \in FoundationKeys : foundation[j] \in {c.base[j], Generated[j]}
          /\ \A j \in c.keys : foundation[j] = Generated[j]
      BY <1>6, <2>4 DEF SelectedInv, c
    <3>2. \A j \in FoundationKeys : Generated[j] # None
      BY FoundationAssumption
    <3>3. k \in Missing(c.base, c.o.tier)
      BY <3>1, <3>2 DEF Missing, OutlineSatisfied, FoundationKeys
    <3>4. CASE k # "outline"
      BY <3>1, <3>2, <3>3, <3>4 DEF FillsAll, Missing, FoundationKeys
    <3>5. CASE k = "outline"
      BY <3>1, <3>2, <3>3, <3>5 DEF FillsAll, Missing, OutlineSatisfied, FoundationKeys
    <3>6. QED
      BY <3>4, <3>5
  <2>7. GenerateInv(d, foundation)
    BY <2>1, <2>2, <2>3, <2>4, <2>5, <2>6 DEF GenerateInv, CallFields, c
  <2>8. CallInv(d, foundation, text)
    BY <2>1, <2>2, <2>7 DEF CallInv, StagesFit, ActiveKinds
  <2>9. QED
    BY <2>1, <2>8, MoveKeepsInv DEF d
<1>7. QED
  BY <1>2, <1>3, <1>4, <1>5, <1>6 DEF ActiveKinds

\* The next file of a patch of the host's change: what it contradicts was told.
LEMMA WriteKeepsAssessed ==
  ASSUME NEW c, NEW p \in Patches, NEW f, NEW t, DOMAIN f = FoundationKeys,
         c.at = "write", AssessedInv(c, p, f, t), DOMAIN c.patch # {},
         NEW d, DOMAIN d = CallFields, d.at \in {"write", "drop"},
         LET k    == FirstOf(DOMAIN c.patch)
             g    == [f EXCEPT ![k] = c.patch[k]]
             hits == {n \in WrittenChapters(t) : Contradicted(n, f, g, Mentions)}
         IN  /\ d.patch = [j \in DOMAIN c.patch \ {k} |-> c.patch[j]]
             /\ d.hit = c.hit \cup hits,
         \A x \in CallFields \ {"at", "patch", "hit"} : d[x] = c[x]
  PROVE  LET k == FirstOf(DOMAIN c.patch)
         IN  AssessedInv(d, p, [f EXCEPT ![k] = c.patch[k]], t)
<1> DEFINE k    == FirstOf(DOMAIN c.patch)
           g    == [f EXCEPT ![k] = c.patch[k]]
           hits == {n \in WrittenChapters(t) : Contradicted(n, f, g, Mentions)}
<1>1. /\ k \in DOMAIN c.patch /\ k \in FoundationKeys /\ c.patch[k] = p[k]
      /\ k = "layered_outline" => "outline" \notin DOMAIN c.patch
  BY FirstIsLeft, FoundationAssumption DEF AssessedInv, WrittenSoFar
<1>2. \A n \in hits : \E x \in Findings(c.base, p, c.written, Mentions) :
        x.severity = RewriteNeeded /\ n \in x.chapters
  <2> SUFFICES ASSUME NEW n \in hits
               PROVE  \E x \in Findings(c.base, p, c.written, Mentions) :
                        x.severity = RewriteNeeded /\ n \in x.chapters
    OBVIOUS
  <2>1. n \in c.written /\ WrittenSoFar(c, p, f)
    BY DEF AssessedInv
  <2>2. QED
    BY <2>1, ContradictionIsFound
<1>3. d.hit = c.hit \cup hits /\ d.patch = [j \in DOMAIN c.patch \ {k} |-> c.patch[j]]
  OBVIOUS
<1>4. g[k] = p[k] /\ DOMAIN g = FoundationKeys /\ \A j \in FoundationKeys \ {k} : g[j] = f[j]
  BY <1>1
<1>5. /\ d.h = c.h /\ d.o = c.o /\ d.written = c.written /\ d.plan = c.plan /\ d.told = c.told
      /\ d.base = c.base
  BY DEF CallFields
<1>6. hits \subseteq c.written
  BY DEF AssessedInv
<1>7. hits # {} => c.h.severity = RewriteNeeded /\ c.h.mode # NoMode
  BY <1>2 DEF AssessedInv, Covers
<1>8. hits \subseteq c.h.chapters
  BY <1>2 DEF AssessedInv, Covers
<1> HIDE DEF k, g, hits
<1>9. WrittenSoFar(d, p, g)
  <2>1. DOMAIN d.patch = DOMAIN c.patch \ {k} /\ \A j \in DOMAIN d.patch : d.patch[j] = c.patch[j]
    BY <1>3
  <2>2. WrittenSoFar(c, p, f)
    BY DEF AssessedInv
  <2>3. DOMAIN p \ DOMAIN d.patch = (DOMAIN p \ DOMAIN c.patch) \cup {k}
    BY <1>1, <2>1, <2>2 DEF WrittenSoFar
  <2>4. \A j \in FoundationKeys : g[j] = IF j \in DOMAIN p \ DOMAIN d.patch THEN p[j] ELSE d.base[j]
    BY <1>4, <1>5, <2>2, <2>3 DEF WrittenSoFar
  <2>5. "layered_outline" \in DOMAIN p \ DOMAIN d.patch => "outline" \notin DOMAIN d.patch
    BY <1>1, <2>1, <2>2, <2>3 DEF WrittenSoFar
  <2>6. QED
    BY <2>1, <2>2, <2>4, <2>5 DEF WrittenSoFar
<1>10. d.at \notin {"refine", "gate"}
  OBVIOUS
<1>11. QED
  BY <1>3, <1>5, <1>6, <1>7, <1>8, <1>9, <1>10 DEF AssessedInv, k, g

\* The next file of what the model has made.
LEMMA WriteKeepsSelected ==
  ASSUME NEW c, NEW f, DOMAIN f = FoundationKeys, c.at = "write", SelectedInv(c, f),
         DOMAIN c.patch # {}, NEW d, DOMAIN d = CallFields, d.at \in {"write", "drop"},
         d.patch = [j \in DOMAIN c.patch \ {FirstOf(DOMAIN c.patch)} |-> c.patch[j]],
         \A x \in CallFields \ {"at", "patch", "hit"} : d[x] = c[x]
  PROVE  LET k == FirstOf(DOMAIN c.patch)
         IN  SelectedInv(d, [f EXCEPT ![k] = c.patch[k]])
<1> DEFINE k == FirstOf(DOMAIN c.patch)
           g == [f EXCEPT ![k] = c.patch[k]]
<1>1. k \in DOMAIN c.patch /\ k \in FoundationKeys /\ k \in c.keys /\ c.patch[k] = Generated[k]
  BY FirstIsLeft DEF SelectedInv
<1>2. g[k] = Generated[k] /\ \A j \in FoundationKeys \ {k} : g[j] = f[j]
  BY <1>1
<1>3. DOMAIN d.patch = DOMAIN c.patch \ {k} /\ \A j \in DOMAIN d.patch : d.patch[j] = c.patch[j]
  OBVIOUS
<1>4. /\ d.o = c.o /\ d.base = c.base /\ d.keys = c.keys /\ d.full = c.full /\ d.kind = c.kind
      /\ d.at # "ask"
  BY DEF CallFields
<1> HIDE DEF k, g
<1>5. /\ DOMAIN d.patch \subseteq d.keys
      /\ \A j \in FoundationKeys : g[j] \in {d.base[j], Generated[j]}
      /\ \A j \in DOMAIN d.patch : g[j] = d.base[j] /\ d.patch[j] = Generated[j]
      /\ d.full => \A j \in d.keys \ DOMAIN d.patch : g[j] = Generated[j]
  BY <1>1, <1>2, <1>3, <1>4 DEF SelectedInv
<1>6. QED
  BY <1>4, <1>5 DEF SelectedInv, k, g

LEMMA WriteFileKeepsInv ==
  ASSUME OneCaller, FoundationInv, NEW s \in Callers, WriteFile(s)
  PROVE  FoundationInv'
<1> DEFINE c    == call[s]
           k    == FirstOf(DOMAIN c.patch)
           g    == [foundation EXCEPT ![k] = c.patch[k]]
           hits == {n \in WrittenChapters(text) : Contradicted(n, foundation, g, Mentions)}
           left == DOMAIN c.patch \ {k}
           d    == [c EXCEPT !.patch = [j \in left |-> c.patch[j]],
                             !.at = IF left = {} THEN "drop" ELSE "write",
                             !.hit = c.hit \cup hits]
<1>1. /\ c.at = "write" /\ DOMAIN c.patch # {} /\ foundation' = g /\ text' = text
      /\ Goes(s, d)
  BY DEF WriteFile
<1>2. CallInv(c, foundation, text) /\ StagesFit(c) /\ DOMAIN foundation = FoundationKeys
  BY DEF FoundationInv, CallInv
<1>3. /\ DOMAIN d = CallFields /\ d.at \in {"write", "drop"} /\ d.hit = c.hit \cup hits
      /\ d.patch = [j \in DOMAIN c.patch \ {k} |-> c.patch[j]]
      /\ d.at = "drop" => left = {}
      /\ \A x \in CallFields \ {"at", "patch", "hit"} : d[x] = c[x]
  BY <1>2 DEF StagesFit, CallFields
<1>4. DOMAIN foundation' = FoundationKeys
  BY <1>1, <1>2
<1>5. /\ DOMAIN c.patch \subseteq FoundationKeys
      /\ \A j \in DOMAIN c.patch : c.patch[j] # None
  BY <1>1, <1>2 DEF CallInv
<1>a. c.kind = "apply" => \E p \in Patches : AssessedInv(d, p, g, text)
  <2> SUFFICES ASSUME c.kind = "apply"
               PROVE  \E p \in Patches : AssessedInv(d, p, g, text)
    OBVIOUS
  <2>1. PICK p \in Patches : AssessedInv(c, p, foundation, text)
    BY <1>1, <1>2 DEF CallInv, ApplyInv
  <2> HIDE DEF c, d
  <2>2. AssessedInv(d, p, g, text)
    BY <1>1, <1>2, <1>3, <2>1, WriteKeepsAssessed
  <2>3. QED
    BY <2>2
<1>b. c.kind \in {"generate", "auto"} /\ c.base # <<>> => SelectedInv(d, g)
  <2> SUFFICES ASSUME c.kind \in {"generate", "auto"}, c.base # <<>>
               PROVE  SelectedInv(d, g)
    OBVIOUS
  <2>1. SelectedInv(c, foundation)
    BY <1>1, <1>2 DEF CallInv, GenerateInv
  <2> HIDE DEF c, d
  <2>2. QED
    BY <1>1, <1>2, <1>3, <2>1, WriteKeepsSelected
<1>6. d.kind = c.kind /\ d.base = c.base /\ d.full = c.full
  BY <1>3 DEF CallFields
<1>7. DOMAIN d.patch = left /\ \A j \in left : d.patch[j] = c.patch[j]
  BY <1>3
<1>c. StagesFit(d)
  BY <1>1, <1>2, <1>3, <1>6 DEF StagesFit
<1>d. c.kind \in {"generate", "auto"} /\ c.base = <<>> => ~c.full
  BY <1>2 DEF CallInv, GenerateInv
<1> HIDE DEF c, d, g, left
<1>8. c.kind = "apply" => ApplyInv(d, g, text)
  BY <1>3, <1>a DEF ApplyInv
<1>9. c.kind \in {"generate", "auto"} => GenerateInv(d, g)
  BY <1>3, <1>6, <1>b, <1>d DEF GenerateInv
<1>10. CallInv(d, g, text)
  BY <1>3, <1>5, <1>6, <1>7, <1>8, <1>9, <1>c DEF CallInv, left
<1>11. QED
  BY <1>1, <1>4, <1>10, AloneKeepsInv

\* What startAutoWrite asks for are keys, and make up for all that is missing.
LEMMA MissingKeysFill ==
  ASSUME NEW f, NEW tier
  PROVE  LET keys == MissingKeysFromGaps(Gaps(f, tier), tier)
         IN  keys \subseteq FoundationKeys /\ FillsAll(keys, f, tier)
<1>1. Missing(f, tier) \subseteq {"book", "premise", "characters", "world_rules", "outline"}
  BY DEF Missing
<1>2. Missing(f, tier) # {} => Gaps(f, tier) = Missing(f, tier)
  BY DEF Gaps
<1>3. Gaps(f, tier) \subseteq {"book", "premise", "characters", "world_rules", "outline",
                               "foundation_audit"}
  BY <1>1 DEF Gaps
<1>4. QED
  BY <1>1, <1>2, <1>3 DEF MissingKeysFromGaps, FillsAll, FoundationKeys

\* Of keys that make up for all that is missing, those selected still do.
LEMMA SelectedKeysFill ==
  ASSUME NEW f, NEW tier, NEW mode, NEW requested, requested \subseteq FoundationKeys
  PROVE  LET keys == KeysToGenerate(requested, mode, Gaps(f, tier), tier)
         IN  /\ keys \subseteq FoundationKeys
             /\ FillsAll(requested, f, tier) => FillsAll(keys, f, tier)
             /\ mode = "fill_missing" => \A k \in keys : MayFill(k, f, tier)
<1> DEFINE keys == KeysToGenerate(requested, mode, Gaps(f, tier), tier)
<1>1. Missing(f, tier) # {} => Gaps(f, tier) = Missing(f, tier)
  BY DEF Gaps
<1>2. keys \subseteq requested
  BY DEF KeysToGenerate
<1>3. FillsAll(requested, f, tier) => FillsAll(keys, f, tier)
  BY <1>1 DEF FillsAll, KeysToGenerate, Missing
<1>4. ASSUME mode = "fill_missing", NEW k \in keys
      PROVE  MayFill(k, f, tier)
  <2>1. k \in FoundationKeys /\ k # "foundation_audit"
    BY <1>2 DEF FoundationKeys
  <2>2. \A j \in FoundationKeys : j \in Gaps(f, tier) => j \in Missing(f, tier)
    BY DEF Gaps, FoundationKeys
  <2>3. k \in Gaps(f, tier) \/ (k = "layered_outline" /\ "outline" \in Gaps(f, tier) /\ tier # "short")
    BY <1>4 DEF KeysToGenerate
  <2>4. CASE k \in Missing(f, tier)
    BY <2>4 DEF MayFill, Missing, OutlineSatisfied
  <2>5. CASE k = "layered_outline" /\ "outline" \in Missing(f, tier) /\ tier # "short"
    BY <2>5 DEF MayFill, Missing, OutlineSatisfied
  <2>6. QED
    BY <2>1, <2>2, <2>3, <2>4, <2>5 DEF FoundationKeys
<1>5. QED
  BY <1>2, <1>3, <1>4

LEMMA SelectKeepsInv ==
  ASSUME OneCaller, FoundationInv, NEW s \in Callers, Select(s)
  PROVE  FoundationInv'
<1> DEFINE c    == call[s]
           tier == c.o.tier
           keys == KeysToGenerate(c.keys, c.o.mode, Gaps(foundation, tier), tier)
           d    == [c EXCEPT !.keys = keys, !.at = "ask", !.base = foundation]
<1>1. c.at = "select" /\ Still /\ CallInv(c, foundation, text) /\ StagesFit(c)
  BY DEF Select, Still, FoundationInv, CallInv
<1>2. CASE keys = {}
  BY <1>1, <1>2, ContinueKeepsInv DEF Select
<1>3. CASE keys # {}
  <2>1. Goes(s, d)
    BY <1>3 DEF Select
  <2>2. /\ DOMAIN d = CallFields /\ d.at = "ask" /\ d.keys = keys /\ d.base = foundation
        /\ d.kind = c.kind /\ d.o = c.o
    BY <1>1 DEF StagesFit, CallFields
  <2>3. c.kind \in {"generate", "auto"} /\ GenerateInv(c, foundation)
    BY <1>1 DEF CallInv, StagesFit
  <2>4. c.keys \subseteq FoundationKeys /\ (c.kind = "auto" => FillsAll(c.keys, foundation, tier))
    BY <1>1, <2>3 DEF GenerateInv
  <2>5. /\ keys \subseteq FoundationKeys
        /\ c.kind = "auto" => FillsAll(keys, foundation, tier)
        /\ c.o.mode = "fill_missing" => \A k \in keys : MayFill(k, foundation, tier)
    BY <2>4, SelectedKeysFill
  <2>6. foundation # <<>>
    BY DEF FoundationInv, FoundationKeys
  <2> HIDE DEF c, d, keys
  <2>7. SelectedInv(d, foundation)
    BY <1>3, <2>2, <2>5 DEF SelectedInv
  <2>8. GenerateInv(d, foundation)
    BY <2>2, <2>6, <2>7 DEF GenerateInv
  <2>9. CallInv(d, foundation, text)
    BY <2>2, <2>3, <2>8 DEF CallInv, StagesFit, ActiveKinds
  <2>10. QED
    BY <1>1, <2>1, <2>9, MoveKeepsInv
<1>4. QED
  BY <1>2, <1>3

\* The model answers: what is kept of it are keys that were asked for.
LEMMA AnswerKeepsInv ==
  ASSUME OneCaller, FoundationInv, NEW s \in Callers, Answer(s)
  PROVE  FoundationInv'
<1> DEFINE c == call[s]
<1>1. c.at = "ask" /\ Still /\ CallInv(c, foundation, text) /\ StagesFit(c)
  BY DEF Answer, Still, FoundationInv, CallInv
<1>2. PICK answered \in Answers :
         Goes(s, [c EXCEPT !.patch = [k \in Kept(answered, c.keys) |-> Generated[k]],
                           !.full  = c.keys \subseteq answered,
                           !.at    = "write"])
  BY DEF Answer
<1> DEFINE d == [c EXCEPT !.patch = [k \in Kept(answered, c.keys) |-> Generated[k]],
                          !.full  = c.keys \subseteq answered,
                          !.at    = "write"]
<1>3. /\ DOMAIN d = CallFields /\ d.at = "write" /\ d.full = (c.keys \subseteq answered)
      /\ d.patch = [k \in Kept(answered, c.keys) |-> Generated[k]]
      /\ d.kind = c.kind /\ d.o = c.o /\ d.base = c.base /\ d.keys = c.keys
  BY <1>1 DEF StagesFit, CallFields
<1>4. c.kind \in {"generate", "auto"} /\ c.base # <<>> /\ SelectedInv(c, foundation)
  BY <1>1 DEF CallInv, StagesFit, GenerateInv
<1> HIDE DEF c, d
<1>5. /\ DOMAIN d.patch = answered \cap c.keys
      /\ \A k \in DOMAIN d.patch : d.patch[k] = Generated[k]
  BY <1>3 DEF Kept
<1>6. /\ c.keys # {} /\ c.keys \subseteq FoundationKeys
      /\ \A k \in FoundationKeys : foundation[k] = c.base[k]
  BY <1>1, <1>4 DEF SelectedInv
<1>7. SelectedInv(d, foundation)
  BY <1>3, <1>4, <1>5, <1>6 DEF SelectedInv
<1>8. GenerateInv(d, foundation)
  BY <1>3, <1>4, <1>7 DEF GenerateInv
<1>9. CallInv(d, foundation, text)
  BY <1>3, <1>4, <1>5, <1>6, <1>8, FoundationAssumption DEF CallInv, StagesFit, ActiveKinds
<1>10. QED
  BY <1>1, <1>2, <1>9, MoveKeepsInv DEF d

LEMMA ListGapsKeepsInv ==
  ASSUME OneCaller, FoundationInv, NEW s \in Callers, ListGaps(s)
  PROVE  FoundationInv'
<1> DEFINE c    == call[s]
           keys == MissingKeysFromGaps(Gaps(foundation, c.o.tier), c.o.tier)
           d    == [c EXCEPT !.keys = keys, !.at = IF keys = {} THEN "inspect" ELSE "select"]
<1>1. c.at = "gaps" /\ Still /\ CallInv(c, foundation, text) /\ StagesFit(c) /\ Goes(s, d)
  BY DEF ListGaps, Still, FoundationInv, CallInv
<1>2. /\ DOMAIN d = CallFields /\ d.at \in {"inspect", "select"} /\ d.keys = keys
      /\ d.kind = c.kind /\ d.o = c.o /\ d.base = c.base /\ d.full = c.full
  BY <1>1 DEF StagesFit, CallFields
<1>3. c.kind = "auto" /\ c.base = <<>> /\ ~c.full
  BY <1>1 DEF CallInv, StagesFit, GenerateInv
<1>4. keys \subseteq FoundationKeys /\ FillsAll(keys, foundation, c.o.tier)
  BY MissingKeysFill
<1> HIDE DEF c, d, keys
<1>5. GenerateInv(d, foundation)
  BY <1>2, <1>3, <1>4 DEF GenerateInv
<1>6. CallInv(d, foundation, text)
  BY <1>2, <1>3, <1>5 DEF CallInv, StagesFit, ActiveKinds
<1>7. QED
  BY <1>1, <1>6, MoveKeepsInv

LEMMA InspectKeepsInv ==
  ASSUME OneCaller, FoundationInv, NEW s \in Callers, Inspect(s)
  PROVE  FoundationInv'
<1> DEFINE c == call[s]
           d == [c EXCEPT !.at = "run"]
<1>1. c.at = "inspect" /\ Still /\ CallInv(c, foundation, text) /\ StagesFit(c)
      /\ DOMAIN foundation' = FoundationKeys
  BY DEF Inspect, Still, FoundationInv, CallInv
<1>2. CASE EndsAs(s, "needs_foundation")
  BY <1>1, <1>2, EndKeepsInv DEF ActiveKinds
<1>3. CASE Goes(s, d)
  <2>1. /\ DOMAIN d = CallFields /\ d.at = "run"
        /\ d.kind = c.kind /\ d.base = c.base /\ d.full = c.full
    BY <1>1 DEF StagesFit, CallFields
  <2>2. c.kind = "auto" /\ GenerateInv(c, foundation)
    BY <1>1 DEF CallInv, StagesFit
  <2> HIDE DEF c, d
  <2>3. CallInv(d, foundation, text)
    BY <2>1, <2>2 DEF CallInv, StagesFit, ActiveKinds, GenerateInv
  <2>4. QED
    BY <1>1, <1>3, <2>3, MoveKeepsInv
<1>4. QED
  BY <1>2, <1>3 DEF Inspect

LEMMA AssessKeepsInv ==
  ASSUME OneCaller, FoundationInv, NEW s \in Callers, Assess(s)
  PROVE  FoundationInv'
<1> DEFINE c == call[s]
           d == [c EXCEPT !.h = AssessProposed(foundation, c.patch, text, Mentions),
                          !.written = WrittenChapters(text), !.base = foundation,
                          !.at = IF c.o.refineWithLlm THEN "refine" ELSE "gate"]
<1>1. c.at = "assess" /\ Still /\ CallInv(c, foundation, text) /\ StagesFit(c) /\ Goes(s, d)
  BY DEF Assess, Still, FoundationInv, CallInv
<1>2. /\ DOMAIN d = CallFields /\ d.at \in {"refine", "gate"} /\ d.kind = c.kind
      /\ d.h = AssessProposed(foundation, c.patch, text, Mentions)
      /\ d.written = WrittenChapters(text) /\ d.base = foundation
      /\ d.patch = c.patch /\ d.hit = c.hit /\ d.o = c.o
  BY <1>1 DEF StagesFit, CallFields
<1>3. c.kind = "apply" /\ c.patch \in Patches /\ c.hit = {}
  BY <1>1 DEF CallInv, StagesFit, ApplyInv
<1> HIDE DEF c, d
<1>4. WrittenSoFar(d, c.patch, foundation)
  BY <1>2 DEF WrittenSoFar
<1>5. AssessedInv(d, c.patch, foundation, text)
  BY <1>2, <1>3, <1>4, AssessmentCovers DEF AssessedInv
<1>6. CallInv(d, foundation, text)
  BY <1>2, <1>3, <1>5 DEF CallInv, StagesFit, ActiveKinds, ApplyInv
<1>7. QED
  BY <1>1, <1>6, MoveKeepsInv

LEMMA RefineKeepsInv ==
  ASSUME OneCaller, FoundationInv, NEW s \in Callers, Refine(s)
  PROVE  FoundationInv'
<1> DEFINE c == call[s]
<1>1. c.at = "refine" /\ Still /\ CallInv(c, foundation, text) /\ StagesFit(c)
  BY DEF Refine, Still, FoundationInv, CallInv
<1>2. PICK raw \in Refinements :
         Goes(s, [c EXCEPT !.h = RefineWithLlm(c.h, raw, c.written), !.at = "gate"])
  BY DEF Refine
<1> DEFINE d == [c EXCEPT !.h = RefineWithLlm(c.h, raw, c.written), !.at = "gate"]
<1>3. /\ DOMAIN d = CallFields /\ d.at = "gate" /\ d.h = RefineWithLlm(c.h, raw, c.written)
      /\ \A x \in CallFields \ {"at", "h"} : d[x] = c[x]
  BY <1>1 DEF StagesFit, CallFields
<1>4. c.kind = "apply" /\ \E p \in Patches : AssessedInv(c, p, foundation, text)
  BY <1>1 DEF CallInv, StagesFit, ApplyInv
<1>5. PICK p \in Patches : AssessedInv(c, p, foundation, text)
  BY <1>4
<1> HIDE DEF c, d
<1>6. /\ d.kind = c.kind /\ d.patch = c.patch /\ d.hit = c.hit /\ d.written = c.written
      /\ d.base = c.base
  BY <1>3 DEF CallFields
<1>7. WrittenSoFar(d, p, foundation)
  BY <1>5, <1>6 DEF AssessedInv, WrittenSoFar
<1>8. DOMAIN d.h = AssessmentFields /\ Covers(d.h, d.base, p, d.written)
  BY <1>3, <1>5, <1>6, RefinementCovers DEF AssessedInv
<1>9. c.hit = {} /\ DOMAIN c.patch = DOMAIN p /\ c.written = WrittenChapters(text)
  BY <1>1, <1>5 DEF AssessedInv
<1>10. AssessedInv(d, p, foundation, text)
  BY <1>3, <1>6, <1>7, <1>8, <1>9 DEF AssessedInv
<1>11. CallInv(d, foundation, text)
  BY <1>3, <1>4, <1>6, <1>10 DEF CallInv, StagesFit, ActiveKinds, ApplyInv
<1>12. QED
  BY <1>1, <1>2, <1>11, MoveKeepsInv DEF d

\* The change is confirmed where that is wanted, and what is to be rewritten is planned.
LEMMA GateKeepsInv ==
  ASSUME OneCaller, FoundationInv, NEW s \in Callers, Gate(s)
  PROVE  FoundationInv'
<1> DEFINE c == call[s]
           d == [c EXCEPT !.plan = WritePlan(c.h, c.o), !.at = "write"]
<1>1. c.at = "gate" /\ Still /\ CallInv(c, foundation, text) /\ StagesFit(c)
      /\ DOMAIN foundation' = FoundationKeys
  BY DEF Gate, Still, FoundationInv, CallInv
<1>2. CASE NeedsConfirm(c.h, c.o)
  <2>1. EndsAs(s, "needs_confirm")
    BY <1>2 DEF Gate
  <2>2. QED
    BY <1>1, <2>1, EndKeepsInv DEF ActiveKinds
<1>3. CASE ~NeedsConfirm(c.h, c.o)
  <2>1. Goes(s, d)
    BY <1>3 DEF Gate
  <2>2. /\ DOMAIN d = CallFields /\ d.at = "write" /\ d.plan = WritePlan(c.h, c.o)
        /\ \A x \in CallFields \ {"at", "plan"} : d[x] = c[x]
    BY <1>1 DEF StagesFit, CallFields
  <2>3. c.kind = "apply" /\ \E p \in Patches : AssessedInv(c, p, foundation, text)
    BY <1>1 DEF CallInv, StagesFit, ApplyInv
  <2>4. PICK p \in Patches : AssessedInv(c, p, foundation, text)
    BY <2>3
  <2> HIDE DEF c, d
  <2>5. /\ d.kind = c.kind /\ d.patch = c.patch /\ d.hit = c.hit /\ d.written = c.written
        /\ d.base = c.base /\ d.h = c.h /\ d.o = c.o
    BY <2>2 DEF CallFields
  <2>6. WrittenSoFar(d, p, foundation)
    BY <2>4, <2>5 DEF AssessedInv, WrittenSoFar
  <2>7. d.h.mode # NoMode /\ d.o.rewriteChapters /\ d.o.chapters = None /\ d.o.mode = None
          => d.h.chapters \cap d.written \subseteq d.plan
    BY <2>2, <2>4, <2>5 DEF AssessedInv, WritePlan, Chosen
  <2>8. AssessedInv(d, p, foundation, text)
    BY <1>1, <1>3, <2>2, <2>4, <2>5, <2>6, <2>7 DEF AssessedInv
  <2>9. DOMAIN d.patch \subseteq FoundationKeys /\ \A k \in DOMAIN d.patch : d.patch[k] # None
    BY <2>6, FoundationAssumption DEF WrittenSoFar
  <2>10. CallInv(d, foundation, text)
    BY <2>2, <2>3, <2>5, <2>8, <2>9 DEF CallInv, StagesFit, ActiveKinds, ApplyInv
  <2>11. QED
    BY <1>1, <2>1, <2>10, MoveKeepsInv
<1>4. QED
  BY <1>2, <1>3

LEMMA RewriteKeepsInv ==
  ASSUME OneCaller, FoundationInv, NEW s \in Callers, RewriteChapter(s)
  PROVE  FoundationInv'
<1> DEFINE c == call[s]
<1>1. c.at = "rewrite" /\ Still /\ CallInv(c, foundation, text) /\ StagesFit(c)
      /\ DOMAIN foundation' = FoundationKeys
  BY DEF RewriteChapter, Still, FoundationInv, CallInv
<1>2. CASE c.plan = {}
  <2>1. EndsAs(s, "applied")
    BY <1>2 DEF RewriteChapter
  <2>2. QED
    BY <1>1, <2>1, EndKeepsInv DEF ActiveKinds
<1>3. CASE c.plan # {}
  <2>1. PICK n : Goes(s, [c EXCEPT !.plan = c.plan \ {n}, !.told = c.told \cup {n}])
    BY <1>3 DEF RewriteChapter
  <2> DEFINE d == [c EXCEPT !.plan = c.plan \ {n}, !.told = c.told \cup {n}]
  <2>2. /\ DOMAIN d = CallFields /\ d.plan = c.plan \ {n} /\ d.told = c.told \cup {n}
        /\ \A x \in CallFields \ {"plan", "told"} : d[x] = c[x]
    BY <1>1 DEF StagesFit, CallFields
  <2>3. c.kind = "apply" /\ \E p \in Patches : AssessedInv(c, p, foundation, text)
    BY <1>1 DEF CallInv, StagesFit, ApplyInv
  <2>4. PICK p \in Patches : AssessedInv(c, p, foundation, text)
    BY <2>3
  <2> HIDE DEF c, d
  <2>5. /\ d.kind = c.kind /\ d.patch = c.patch /\ d.hit = c.hit /\ d.written = c.written
        /\ d.base = c.base /\ d.h = c.h /\ d.o = c.o /\ d.at = c.at
    BY <2>2 DEF CallFields
  <2>6. WrittenSoFar(d, p, foundation)
    BY <2>4, <2>5 DEF AssessedInv, WrittenSoFar
  <2>7. c.plan \cup c.told \subseteq d.plan \cup d.told
    BY <2>2
  <2>8. AssessedInv(d, p, foundation, text)
    BY <1>1, <2>4, <2>5, <2>6, <2>7 DEF AssessedInv
  <2>9. CallInv(d, foundation, text)
    BY <1>1, <2>2, <2>3, <2>5, <2>8 DEF CallInv, StagesFit, ActiveKinds, ApplyInv
  <2>10. QED
    BY <1>1, <2>1, <2>9, MoveKeepsInv DEF d
<1>4. QED
  BY <1>2, <1>3

LEMMA RunKeepsFoundation ==
  ASSUME OneCaller, FoundationInv, NEW s \in Callers,
         EngineAudits(s) \/ EngineWrites(s) \/ EngineEnds(s)
  PROVE  FoundationInv'
<1> DEFINE c == call[s]
<1>1. c.at = "run" /\ foundation' = foundation /\ CallInv(c, foundation, text) /\ StagesFit(c)
      /\ DOMAIN foundation' = FoundationKeys
  BY DEF EngineAudits, EngineWrites, EngineEnds, FoundationInv, CallInv
<1>2. CASE EngineEnds(s)
  <2>1. EndsAs(s, "stopped")
    BY <1>2 DEF EngineEnds
  <2>2. QED
    BY <1>1, <2>1, EndKeepsInv DEF ActiveKinds
<1>3. CASE EngineAudits(s) \/ EngineWrites(s)
  <2>1. call' = call
    BY <1>3 DEF EngineAudits, EngineWrites
  <2>2. c.kind = "auto" /\ \A t : CallInv(c, foundation, t)
    BY <1>1 DEF CallInv, StagesFit
  <2>3. QED
    BY <1>1, <2>1, <2>2 DEF FoundationInv, OneCaller
<1>4. QED
  BY <1>2, <1>3

\* A chapter is saved by the host only while its one caller is not in a call.
LEMMA SaveFinalKeepsInv ==
  ASSUME OneCaller, FoundationInv, NEW n \in Chapters, SaveFinal(n)
  PROVE  FoundationInv'
<1>1. foundation' = foundation /\ call' = call
  BY DEF SaveFinal
<1>2. ASSUME NEW s \in Callers
      PROVE  call[s].at = "done"
  <2> SUFFICES ASSUME call[s].at # "done"
               PROVE  FALSE
    OBVIOUS
  <2>1. Callers = {s} /\ {t \in Callers : call[t].at # "done"} = {s}
    BY DEF OneCaller
  <2>2. Cardinality({s}) < Cardinality({s})
    BY <2>1 DEF SaveFinal
  <2>3. Cardinality({s}) = 1
    BY FS_Singleton
  <2>4. QED
    BY <2>2, <2>3
<1>3. ASSUME NEW s \in Callers
      PROVE  CallInv(call[s], foundation, text')
  BY <1>2 DEF FoundationInv, CallInv, StagesFit, ActiveKinds
<1>4. QED
  BY <1>1, <1>3 DEF FoundationInv

LEMMA FoundationStep ==
  ASSUME OneCaller, FoundationInv, [FoundationNext]_foundationVars
  PROVE  FoundationInv'
<1>1. CASE UNCHANGED foundationVars
  BY <1>1 DEF FoundationInv, foundationVars
<1>2. CASE Crash
  <2>1. /\ call' = [s \in Callers |-> NoCall] /\ foundation' = foundation
    BY <1>2 DEF Crash
  <2>2. QED
    BY <2>1, NoCallIsFine DEF FoundationInv
<1>3. CASE \E n \in Chapters : SaveFinal(n)
  BY <1>3, SaveFinalKeepsInv
<1>4. ASSUME NEW s \in Callers, CallerStep(s)
      PROVE  FoundationInv'
  <2>1. CASE Upsert(s) \/ Apply(s) \/ Generate(s) \/ StartAutoWrite(s)
    <3>1. CASE Upsert(s)
      BY <3>1, BeginKeepsInv DEF Upsert, ActiveKinds
    <3>2. CASE Apply(s)
      BY <3>2, BeginKeepsInv DEF Apply, ActiveKinds
    <3>3. CASE Generate(s)
      BY <3>3, BeginKeepsInv DEF Generate, ActiveKinds
    <3>4. CASE StartAutoWrite(s)
      BY <3>4, BeginKeepsInv DEF StartAutoWrite, AfterPatch, ActiveKinds
    <3>5. QED
      BY <2>1, <3>1, <3>2, <3>3, <3>4
  <2>2. CASE WriteFile(s)
    BY <2>2, WriteFileKeepsInv
  <2>3. CASE NothingToWrite(s)
    BY <2>3, ContinueKeepsInv DEF NothingToWrite, Still
  <2>4. CASE InvalidateAudit(s)
    <3>1. DOMAIN call[s].patch = {}
      BY <2>4 DEF InvalidateAudit, FoundationInv, CallInv
    <3>2. QED
      BY <2>4, <3>1, ContinueKeepsInv DEF InvalidateAudit, Still
  <2>5. CASE ListGaps(s) \/ Select(s) \/ Answer(s) \/ Inspect(s)
    BY <2>5, ListGapsKeepsInv, SelectKeepsInv, AnswerKeepsInv, InspectKeepsInv
  <2>6. CASE EngineAudits(s) \/ EngineWrites(s) \/ EngineEnds(s)
    BY <2>6, RunKeepsFoundation
  <2>7. CASE Assess(s) \/ Refine(s) \/ Gate(s) \/ RewriteChapter(s)
    BY <2>7, AssessKeepsInv, RefineKeepsInv, GateKeepsInv, RewriteKeepsInv
  <2>8. CASE Fail(s)
    <3>1. EndsAs(s, "failed") /\ DOMAIN foundation' = FoundationKeys
      BY <2>8 DEF Fail, FoundationInv
    <3>2. QED
      BY <3>1, EndKeepsInv DEF ActiveKinds
  <2>9. QED
    BY <1>4, <2>1, <2>2, <2>3, <2>4, <2>5, <2>6, <2>7, <2>8 DEF CallerStep
<1>5. QED
  BY <1>1, <1>2, <1>3, <1>4 DEF FoundationNext

\* Of one caller: the call in flight is at a wait of its kind, the files are
\* those it read with what it has written since, and what it knows holds of them.
THEOREM FoundationInvariant ==
  ASSUME OneCaller
  PROVE  FoundationSpec => []FoundationInv
<1>1. FoundationInit => FoundationInv
  <2> SUFFICES ASSUME FoundationInit
               PROVE  FoundationInv
    OBVIOUS
  <2>1. QED
    BY NoCallIsFine, FoundationAssumption DEF FoundationInit, FoundationInv
<1>2. FoundationInv /\ [FoundationNext]_foundationVars => FoundationInv'
  BY FoundationStep
<1>3. QED
  BY <1>1, <1>2, PTL DEF FoundationSpec

\* Whatever the host, the model and the books are: applyFoundationChange makes
\* a written chapter contradict the foundation only if that was confirmed or is
\* not wanted to be, and the assessment names the chapter.
THEOREM StaleConfirmed ==
  ASSUME OneCaller
  PROVE  FoundationSpec => []StaleIsConfirmed
<1>1. FoundationInv => StaleIsConfirmed
  <2> SUFFICES ASSUME FoundationInv, NEW s \in Callers,
                      call[s].kind = "apply", call[s].hit # {}
               PROVE  /\ call[s].o.confirmRewrite \/ ~call[s].o.requireConfirmRewrite
                      /\ call[s].h.severity = RewriteNeeded
                      /\ call[s].hit \subseteq call[s].h.chapters
    BY DEF StaleIsConfirmed
  <2> DEFINE c == call[s]
  <2>1. ApplyInv(c, foundation, text)
    BY DEF FoundationInv, CallInv
  <2>2. PICK p \in Patches : AssessedInv(c, p, foundation, text)
    BY <2>1 DEF ApplyInv
  <2>3. QED
    BY <2>2 DEF AssessedInv, NeedsConfirm
<1>2. QED
  BY <1>1, FoundationInvariant, PTL

\* An automatic run whose model answers all it is asked finds nothing missing.
THEOREM FilledIsWhole ==
  ASSUME OneCaller
  PROVE  FoundationSpec => []FillClosesGaps
<1>1. FoundationInv => FillClosesGaps
  BY DEF FoundationInv, CallInv, StagesFit, GenerateInv, FillClosesGaps
<1>2. QED
  BY <1>1, FoundationInvariant, PTL

\* A step of the invariant's one call that writes files writes the next of its patch.
LEMMA OnlyWriteFileWrites ==
  ASSUME [FoundationNext]_foundationVars, foundation' # foundation
  PROVE  \E s \in Callers : WriteFile(s)
BY DEF FoundationNext, foundationVars, CallerStep, SaveFinal, Crash, Upsert, Apply, Generate,
       StartAutoWrite, Begin, NothingToWrite, InvalidateAudit, ListGaps, Select, Answer, Inspect,
       EngineAudits, EngineWrites, EngineEnds, Assess, Refine, Gate, RewriteChapter, Fail

\* Filling replaces nothing and gives no second outline, for any keys asked
\* for, any answer and any book.
THEOREM FillingReplacesNothing ==
  ASSUME OneCaller
  PROVE  FoundationSpec => FillsOnlyGaps
<1> DEFINE Fills(s) ==
             call[s].at = "write" /\ call'[s] # call[s] /\ call[s].base # <<>>
               /\ call[s].kind \in {"generate", "auto"} /\ call[s].o.mode = "fill_missing" =>
             \A k \in FoundationKeys : foundation'[k] # foundation[k] =>
               /\ foundation[k] = None
               /\ k = "outline" => call[s].o.tier = "short" \/ call[s].base["layered_outline"] = None
               /\ k = "layered_outline" => call[s].base["outline"] = None
<1>1. ASSUME FoundationInv, [FoundationNext]_foundationVars, NEW s \in Callers
      PROVE  Fills(s)
  <2> DEFINE c == call[s]
  <2> SUFFICES ASSUME c.at = "write", c.base # <<>>, c.kind \in {"generate", "auto"},
                      c.o.mode = "fill_missing",
                      NEW k \in FoundationKeys, foundation'[k] # foundation[k]
               PROVE  /\ foundation[k] = None
                      /\ k = "outline" => c.o.tier = "short" \/ c.base["layered_outline"] = None
                      /\ k = "layered_outline" => c.base["outline"] = None
    OBVIOUS
  <2>1. SelectedInv(c, foundation) /\ DOMAIN foundation = FoundationKeys
    BY <1>1 DEF FoundationInv, CallInv, GenerateInv
  <2>2. WriteFile(s)
    BY <1>1, OnlyWriteFileWrites DEF OneCaller
  <2>3. k = FirstOf(DOMAIN c.patch) /\ DOMAIN c.patch # {}
    BY <2>1, <2>2 DEF WriteFile
  <2>4. k \in DOMAIN c.patch
    BY <2>1, <2>3, FirstIsLeft DEF SelectedInv
  <2>5. MayFill(k, c.base, c.o.tier) /\ foundation[k] = c.base[k]
    BY <2>1, <2>4 DEF SelectedInv
  <2>6. QED
    BY <2>5 DEF MayFill
<1>2. FoundationInv /\ [FoundationNext]_foundationVars =>
        [\A s \in Callers : Fills(s)]_foundationVars
  BY <1>1
<1>3. QED
  BY <1>2, FoundationInvariant, PTL DEF FoundationSpec, FillsOnlyGaps

\* A change that ends as applied has sent every chapter it contradicts, if the
\* chapters were left to the assessment, to the worker.
THEOREM SyncIsComplete ==
  ASSUME OneCaller
  PROVE  FoundationSpec => SyncReachesStale
<1> DEFINE Syncs(s) ==
             /\ call[s].kind = "apply" /\ call'[s].kind = "applied"
             /\ call[s].o.rewriteChapters /\ call[s].o.chapters = None /\ call[s].o.mode = None
             => call[s].hit \subseteq call[s].told
<1>1. ASSUME FoundationInv, [FoundationNext]_foundationVars, NEW s \in Callers
      PROVE  Syncs(s)
  <2> DEFINE c == call[s]
  <2> SUFFICES ASSUME c.kind = "apply", call'[s].kind = "applied",
                      c.o.rewriteChapters, c.o.chapters = None, c.o.mode = None
               PROVE  c.hit \subseteq c.told
    OBVIOUS
  <2>1. StagesFit(c) /\ ApplyInv(c, foundation, text) /\ DOMAIN call = Callers
    BY <1>1 DEF FoundationInv, CallInv
  <2>2. c.plan = {} /\ c.at \in {"write", "drop", "rewrite"}
    <3>1. PICK t \in Callers : CallerStep(t)
      <4>1. ~UNCHANGED foundationVars /\ ~(\E n \in Chapters : SaveFinal(n))
        BY DEF foundationVars, SaveFinal
      <4>2. ~Crash
        BY DEF Crash, NoCall
      <4>3. QED
        BY <1>1, <4>1, <4>2 DEF FoundationNext
    <3>2. CallerStep(s)
      BY <3>1 DEF OneCaller
    <3>3. \A d : Goes(s, d) => d.kind = "applied"
      BY <2>1 DEF Goes
    <3>4. c.at # "done" /\ DOMAIN c = CallFields
      BY <2>1 DEF StagesFit, ActiveKinds
    <3>5. \A r : EndsAs(s, r) => r = "applied"
      BY <3>3 DEF EndsAs, NoCall
    <3>6. \A k, w, p, keys, o : ~Begin(s, k, w, p, keys, o)
      BY <3>4 DEF Begin
    <3>7. ~(Upsert(s) \/ Apply(s) \/ Generate(s) \/ StartAutoWrite(s))
      BY <3>6 DEF Upsert, Apply, Generate, StartAutoWrite
    <3>a. ~WriteFile(s)
      <4> SUFFICES ASSUME WriteFile(s)
                   PROVE  FALSE
        OBVIOUS
      <4>1. PICK p, w, x : Goes(s, [c EXCEPT !.patch = p, !.at = w, !.hit = x])
        BY DEF WriteFile
      <4>2. [c EXCEPT !.patch = p, !.at = w, !.hit = x].kind = "apply"
        BY <3>4 DEF CallFields
      <4>3. QED
        BY <3>3, <4>1, <4>2
    <3>b. ~Assess(s)
      <4> SUFFICES ASSUME Assess(s)
                   PROVE  FALSE
        OBVIOUS
      <4>1. PICK h, x, b, w :
               Goes(s, [c EXCEPT !.h = h, !.written = x, !.base = b, !.at = w])
        BY DEF Assess
      <4>2. [c EXCEPT !.h = h, !.written = x, !.base = b, !.at = w].kind = "apply"
        BY <3>4 DEF CallFields
      <4>3. QED
        BY <3>3, <4>1, <4>2
    <3>c. ~Refine(s)
      <4> SUFFICES ASSUME Refine(s)
                   PROVE  FALSE
        OBVIOUS
      <4>1. PICK h : Goes(s, [c EXCEPT !.h = h, !.at = "gate"])
        BY DEF Refine
      <4>2. [c EXCEPT !.h = h, !.at = "gate"].kind = "apply"
        BY <3>4 DEF CallFields
      <4>3. QED
        BY <3>3, <4>1, <4>2
    <3>d. ~Gate(s)
      <4> SUFFICES ASSUME Gate(s)
                   PROVE  FALSE
        OBVIOUS
      <4>1. CASE EndsAs(s, "needs_confirm")
        BY <3>5, <4>1
      <4>2. CASE Goes(s, [c EXCEPT !.plan = WritePlan(c.h, c.o), !.at = "write"])
        <5>1. [c EXCEPT !.plan = WritePlan(c.h, c.o), !.at = "write"].kind = "apply"
          BY <3>4 DEF CallFields
        <5>2. QED
          BY <3>3, <4>2, <5>1
      <4>3. QED
        BY <4>1, <4>2 DEF Gate
    <3>8. ~Fail(s)
      BY <3>5 DEF Fail
    <3>9. ~(EngineAudits(s) \/ EngineWrites(s) \/ EngineEnds(s) \/ Inspect(s)
              \/ ListGaps(s) \/ Select(s) \/ Answer(s))
      BY <2>1 DEF EngineAudits, EngineWrites, EngineEnds, Inspect, ListGaps, Select, Answer, StagesFit
    <3>10. NothingToWrite(s) \/ InvalidateAudit(s) \/ RewriteChapter(s)
      BY <3>2, <3>7, <3>a, <3>b, <3>c, <3>d, <3>8, <3>9 DEF CallerStep
    <3>11. c.at \in {"write", "drop", "rewrite"}
      BY <3>10 DEF NothingToWrite, InvalidateAudit, RewriteChapter
    <3>12. CASE NothingToWrite(s) \/ InvalidateAudit(s)
      <4>1. Continue(s, c)
        BY <3>12 DEF NothingToWrite, InvalidateAudit
      <4>2. c.plan # {} => Goes(s, [c EXCEPT !.at = "rewrite"])
        BY <4>1 DEF Continue
      <4>3. [c EXCEPT !.at = "rewrite"].kind = "apply"
        BY <3>4 DEF CallFields
      <4>4. QED
        BY <3>3, <3>11, <4>2, <4>3
    <3>13. CASE RewriteChapter(s)
      <4>1. c.plan # {} => \E n : Goes(s, [c EXCEPT !.plan = @ \ {n}, !.told = @ \cup {n}])
        BY <3>13 DEF RewriteChapter
      <4>2. \A n : [c EXCEPT !.plan = @ \ {n}, !.told = @ \cup {n}].kind = "apply"
        BY <3>4 DEF CallFields
      <4>3. QED
        BY <3>3, <3>11, <4>1, <4>2
    <3>14. QED
      BY <3>10, <3>12, <3>13
  <2>3. PICK p \in Patches : AssessedInv(c, p, foundation, text)
    BY <2>1, <2>2 DEF ApplyInv
  <2>4. c.hit \subseteq c.plan \cup c.told
    BY <2>2, <2>3 DEF AssessedInv
  <2>5. QED
    BY <2>2, <2>4
<1>2. FoundationInv /\ [FoundationNext]_foundationVars =>
        [\A s \in Callers : Syncs(s)]_foundationVars
  BY <1>1
<1>3. QED
  BY <1>2, FoundationInvariant, PTL DEF FoundationSpec, SyncReachesStale
=============================================================================

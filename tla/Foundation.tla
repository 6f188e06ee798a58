----------------------------- MODULE Foundation -----------------------------
(***************************************************************************)
(* The foundation of a book as its host and the language model change it:  *)
(* upsertFoundation, generateFoundation, applyFoundationChange and the     *)
(* first half of startAutoWrite (src/src/session/novel-session.ts, with    *)
(* foundation-write.ts, generate.ts and gaps.ts).                          *)
(*                                                                         *)
(* A step goes from one wait of a call to the next: one file of a patch is *)
(* written, the model answers, the foundation is read.  Session has the    *)
(* flags, signals and errors of the same calls; here is what they read and *)
(* write.  A patch with content that does not parse throws before it does  *)
(* anything, so patches and answers here are those that parse.             *)
(***************************************************************************)
EXTENDS Impact

CONSTANTS
  Chapters,     \* bound: the chapters of the book
  Callers,      \* bound: calls in flight at once
  MaxCalls,     \* bound: calls that are made
  Starts,       \* the books to begin with: [foundation, text, writing]
  Mentions,     \* the names a chapter mentions once it is written
  Patches,      \* the patches of the host
  Options,      \* the options of its calls
  Requests,     \* the keys it asks generateFoundation for
  Generated,    \* what the model makes of each key
  Answers,      \* the sets of keys it may answer
  Refinements   \* what the model makes of an assessment

\* Content that is set is not absent, the keys asked for are keys of a
\* foundation, and a valid severity is one of the three.
ASSUME FoundationAssumption ==
  /\ \A p \in Patches : DOMAIN p \subseteq FoundationKeys /\ \A k \in DOMAIN p : p[k] # None
  /\ \A keys \in Requests : keys \subseteq FoundationKeys
  /\ \A k \in FoundationKeys : Generated[k] # None
  /\ \A raw \in Refinements : raw # None /\ "severity" \in DOMAIN raw => raw.severity \in Severities
  /\ \A start \in Starts : DOMAIN start.foundation = FoundationKeys

VARIABLES
  foundation,   \* the files: content or None for each key
  audit,        \* meta/foundation_audit.json is there
  text,         \* of each chapter: "absent", "draft", "blank" or "final"
  writing,      \* the phase is writing or complete
  call,         \* the call of each of the callers
  calls         \* how many were made, for the bound

foundationVars == <<foundation, audit, text, writing, call, calls>>

WriteOrder ==
  <<"book", "premise", "outline", "layered_outline", "characters", "world_rules">>

-----------------------------------------------------------------------------
(* Gaps. *)

OutlineSatisfied(f, tier) ==
  f["outline"] # None \/ (tier # "short" /\ f["layered_outline"] # None)

Missing(f, tier) ==
  {k \in {"book", "premise", "characters", "world_rules"} : f[k] = None}
    \cup {k \in {"outline"} : ~OutlineSatisfied(f, tier)}

Gaps(f, tier) ==
  IF Missing(f, tier) = {} /\ ~writing THEN {"foundation_audit"} ELSE Missing(f, tier)

IsAuditOnlyGaps(gaps) == gaps = {"foundation_audit"}

\* Slip: a book of any tier lacks the layered outline.
MissingKeysFromGaps_Layered(gaps, tier) ==
  (gaps \ {"foundation_audit", "outline"})
    \cup {k \in {"layered_outline"} : "outline" \in gaps}

\* What startAutoWrite has generated: the outline is the one the tier wants.
MissingKeysFromGaps(gaps, tier) ==
  (gaps \ {"foundation_audit", "outline"})
    \cup {k \in {IF tier = "short" THEN "outline" ELSE "layered_outline"} : "outline" \in gaps}

\* Slip: the layered outline is generated if its file is absent.
KeysToGenerate_File(requested, mode, gaps, tier) ==
  IF mode = "overwrite" THEN requested
  ELSE {k \in requested : k \in gaps \/ (k = "layered_outline" /\ tier # "short")}

\* Of the requested keys those with a gap; a gap in the outline stands for both outlines.
KeysToGenerate(requested, mode, gaps, tier) ==
  IF mode = "overwrite" THEN requested
  ELSE {k \in requested :
          k \in gaps \/ (k = "layered_outline" /\ "outline" \in gaps /\ tier # "short")}

-----------------------------------------------------------------------------
(* Calls. *)

NoCall == [ kind |-> "none", at |-> "done", patch |-> <<>>, keys |-> {}, o |-> None,
            h |-> None, written |-> {}, plan |-> {}, base |-> <<>>, full |-> FALSE,
            hit |-> {}, told |-> {} ]

Busy == \E s \in Callers : call[s].at # "done" /\ call[s].kind \in {"apply", "auto"}

\* Updates of the call of s: it goes on, or ends with a result.
Goes(s, new) == call' = [call EXCEPT ![s] = new]

EndsAs(s, result) ==
  Goes(s, [NoCall EXCEPT !.kind = result])

\* The call begins at a wait with what it was given.
Begin(s, kind, at, patch, keys, o) ==
  /\ call[s].at = "done"
  /\ kind \in {"apply", "auto"} => ~Busy
  /\ calls < MaxCalls
  /\ calls' = calls + 1
  /\ Goes(s, [NoCall EXCEPT !.kind = kind, !.at = at, !.patch = patch, !.keys = keys,
                            !.o = o])
  /\ UNCHANGED <<foundation, audit, text, writing>>

Upsert(s) == \E p \in Patches : Begin(s, "upsert", "write", p, {}, None)

Apply(s) == \E p \in Patches, o \in Options.apply : Begin(s, "apply", "assess", p, {}, o)

Generate(s) ==
  \E keys \in Requests, o \in Options.generate :
    Begin(s, "generate", "select", <<>>, keys, o)

\* startAutoWrite: after the host's patch what is missing is generated, or not.
AfterPatch(o) == IF o.generateMissing THEN "gaps" ELSE "inspect"

StartAutoWrite(s) ==
  \E o \in Options.auto :
    \/ Begin(s, "auto", AfterPatch(o), <<>>, {}, o)
    \/ \E p \in Patches : Begin(s, "auto", "write", p, {}, o)

\* Where a call goes on when its patch is saved, or there was nothing to save.
Continue(s, c) ==
  CASE c.kind \in {"upsert", "generate"}    -> EndsAs(s, "done")
    [] c.kind = "apply" /\ c.plan = {}      -> EndsAs(s, "applied")
    [] c.kind = "apply" /\ c.plan # {}      -> Goes(s, [c EXCEPT !.at = "rewrite"])
    [] c.kind = "auto" /\ c.keys = {}       -> Goes(s, [c EXCEPT !.at = AfterPatch(c.o)])
    [] c.kind = "auto" /\ c.keys # {}       -> Goes(s, [c EXCEPT !.at = "inspect"])

-----------------------------------------------------------------------------
(* writeFoundationPatch(): one file after the other, then the audit goes. *)

FirstOf(keys) ==
  WriteOrder[CHOOSE i \in DOMAIN WriteOrder :
               WriteOrder[i] \in keys /\ \A j \in 1..i-1 : WriteOrder[j] \notin keys]

WriteFile(s) ==
  LET c    == call[s]
      k    == FirstOf(DOMAIN c.patch)
      next == [foundation EXCEPT ![k] = c.patch[k]]
      hits == {n \in WrittenChapters(text) : Contradicted(n, foundation, next, Mentions)}
      left == DOMAIN c.patch \ {k}
  IN  /\ c.at = "write" /\ DOMAIN c.patch # {}
      /\ foundation' = next
      /\ Goes(s, [c EXCEPT !.patch = [j \in left |-> c.patch[j]],
                           !.at = IF left = {} THEN "drop" ELSE "write",
                           !.hit = c.hit \cup hits])
      /\ UNCHANGED <<audit, text, writing, calls>>

\* A patch that sets nothing leaves the audit.
NothingToWrite(s) ==
  /\ call[s].at = "write" /\ DOMAIN call[s].patch = {}
  /\ Continue(s, call[s])
  /\ UNCHANGED <<foundation, audit, text, writing, calls>>

InvalidateAudit(s) ==
  /\ call[s].at = "drop"
  /\ audit' = FALSE
  /\ Continue(s, call[s])
  /\ UNCHANGED <<foundation, text, writing, calls>>

-----------------------------------------------------------------------------
(* generateFoundation(), alone or in startAutoWrite(). *)

\* An automatic run asks for what its tier lacks.
ListGaps(s) ==
  LET c    == call[s]
      keys == MissingKeysFromGaps(Gaps(foundation, c.o.tier), c.o.tier)
  IN  /\ c.at = "gaps"
      /\ Goes(s, [c EXCEPT !.keys = keys, !.at = IF keys = {} THEN "inspect" ELSE "select"])
      /\ UNCHANGED <<foundation, audit, text, writing, calls>>

Select(s) ==
  LET c    == call[s]
      keys == KeysToGenerate(c.keys, c.o.mode, Gaps(foundation, c.o.tier), c.o.tier)
  IN  /\ c.at = "select"
      /\ IF keys = {}
         THEN Continue(s, c)
         ELSE Goes(s, [c EXCEPT !.keys = keys, !.at = "ask", !.base = foundation])
      /\ UNCHANGED <<foundation, audit, text, writing, calls>>

\* patchFromGeneratedJson(): of what the model answers, the keys it was asked for.
Kept(answered, keys) == answered \cap keys

\* The model answers any of the keys it knows, asked for or not.
Answer(s) ==
  LET c == call[s]
  IN  /\ c.at = "ask"
      /\ \E answered \in Answers :
           Goes(s, [c EXCEPT !.patch = [k \in Kept(answered, c.keys) |-> Generated[k]],
                             !.full  = c.keys \subseteq answered,
                             !.at    = "write"])
      /\ UNCHANGED <<foundation, audit, text, writing, calls>>

\* The second look of startAutoWrite, and its gate.
Inspect(s) ==
  LET c    == call[s]
      gaps == Gaps(foundation, c.o.tier)
      ends == /\ c.o.requireConfirmGaps
              /\ gaps # {}
              /\ ~(IsAuditOnlyGaps(gaps) /\ c.o.confirmAuditGap)
  IN  /\ c.at = "inspect"
      /\ IF ends THEN EndsAs(s, "needs_foundation") ELSE Goes(s, [c EXCEPT !.at = "run"])
      /\ UNCHANGED <<foundation, audit, text, writing, calls>>

\* The engine audits the foundation and writes chapters; Book says how.
EngineAudits(s) ==
  /\ call[s].at = "run"
  /\ audit' = TRUE
  /\ UNCHANGED <<foundation, text, writing, call, calls>>

EngineWrites(s) ==
  /\ call[s].at = "run"
  /\ \E n \in Chapters : text' = [text EXCEPT ![n] = "final"]
  /\ writing' = TRUE
  /\ UNCHANGED <<foundation, audit, call, calls>>

EngineEnds(s) ==
  /\ call[s].at = "run"
  /\ EndsAs(s, "stopped")
  /\ UNCHANGED <<foundation, audit, text, writing, calls>>

-----------------------------------------------------------------------------
(* applyFoundationChange(). *)

Assess(s) ==
  LET c == call[s]
  IN  /\ c.at = "assess"
      /\ Goes(s, [c EXCEPT !.h = AssessProposed(foundation, c.patch, text, Mentions),
                           !.written = WrittenChapters(text), !.base = foundation,
                           !.at = IF c.o.refineWithLlm THEN "refine" ELSE "gate"])
      /\ UNCHANGED <<foundation, audit, text, writing, calls>>

Refine(s) ==
  LET c == call[s]
  IN  /\ c.at = "refine"
      /\ \E raw \in Refinements :
           Goes(s, [c EXCEPT !.h = RefineWithLlm(c.h, raw, c.written), !.at = "gate"])
      /\ UNCHANGED <<foundation, audit, text, writing, calls>>

NeedsConfirm(h, o) ==
  h.severity = RewriteNeeded /\ o.requireConfirmRewrite /\ ~o.confirmRewrite

\* The host's choice, or else what the assessment suggests.
Chosen(choice, suggested) == IF choice = None THEN suggested ELSE choice

\* The chapters to rewrite after the patch, of those written by now.
WritePlan(h, o) ==
  IF o.rewriteChapters /\ Chosen(o.mode, h.mode) # NoMode
  THEN Chosen(o.chapters, h.chapters) \cap WrittenChapters(text)
  ELSE {}

Gate(s) ==
  LET c == call[s]
  IN  /\ c.at = "gate"
      /\ IF NeedsConfirm(c.h, c.o)
         THEN EndsAs(s, "needs_confirm")
         ELSE Goes(s, [c EXCEPT !.plan = WritePlan(c.h, c.o), !.at = "write"])
      /\ UNCHANGED <<foundation, audit, text, writing, calls>>

\* runChapterWrite() of the next chapter: the worker writes it anew, or does not.
RewriteChapter(s) ==
  LET c == call[s]
      n == CHOOSE n \in c.plan : \A m \in c.plan : n <= m
  IN  /\ c.at = "rewrite"
      /\ IF c.plan = {}
         THEN EndsAs(s, "applied")
         ELSE Goes(s, [c EXCEPT !.plan = @ \ {n}, !.told = @ \cup {n}])
      /\ UNCHANGED <<foundation, audit, text, writing, calls>>

-----------------------------------------------------------------------------
(* The surroundings. *)

\* The store or the model fails, an answer does not parse, or the call is cancelled.
Fail(s) ==
  /\ call[s].at # "done"
  /\ EndsAs(s, "failed")
  /\ UNCHANGED <<foundation, audit, text, writing, calls>>

\* chapter.saveFinal(), which takes no busy flag and may begin the writing phase.
SaveFinal(n) ==
  /\ Cardinality({s \in Callers : call[s].at # "done"}) < Cardinality(Callers)
  /\ text' = [text EXCEPT ![n] = "final"]
  /\ writing' = TRUE
  /\ UNCHANGED <<foundation, audit, call, calls>>

\* The process dies; the files stay.
Crash ==
  /\ call' = [s \in Callers |-> NoCall]
  /\ UNCHANGED <<foundation, audit, text, writing, calls>>

-----------------------------------------------------------------------------
FoundationInit ==
  /\ \E start \in Starts : /\ foundation = start.foundation
                           /\ text = start.text
                           /\ writing = start.writing
  /\ audit = writing
  /\ call = [s \in Callers |-> NoCall]
  /\ calls = 0

CallerStep(s) ==
  \/ Upsert(s) \/ Apply(s) \/ Generate(s) \/ StartAutoWrite(s)
  \/ WriteFile(s) \/ NothingToWrite(s) \/ InvalidateAudit(s)
  \/ ListGaps(s) \/ Select(s) \/ Answer(s) \/ Inspect(s)
  \/ EngineAudits(s) \/ EngineWrites(s) \/ EngineEnds(s)
  \/ Assess(s) \/ Refine(s) \/ Gate(s) \/ RewriteChapter(s)
  \/ Fail(s)

FoundationNext ==
  \/ \E s \in Callers : CallerStep(s)
  \/ \E n \in Chapters : SaveFinal(n)
  \/ Crash

FoundationSpec == FoundationInit /\ [][FoundationNext]_foundationVars

-----------------------------------------------------------------------------
(* Properties. *)

\* A written chapter comes to contradict the foundation through
\* applyFoundationChange only if the host confirmed, or does not want to be
\* asked, and the assessment it was shown names that chapter, whatever the
\* model made of it (impact.ts, and the gate of runApplyFoundationChange).
StaleIsConfirmed ==
  \A s \in Callers :
    LET c == call[s]
    IN  c.kind = "apply" /\ c.hit # {} =>
          /\ c.o.confirmRewrite \/ ~c.o.requireConfirmRewrite
          /\ c.h.severity = RewriteNeeded
          /\ c.hit \subseteq c.h.chapters

\* A change that ends as applied, with the chapters left to the assessment,
\* has sent every chapter it contradicts to the worker (runApplyFoundationChange).
SyncReachesStale ==
  [][\A s \in Callers :
       LET c == call[s]
       IN  /\ c.kind = "apply" /\ call'[s].kind = "applied"
           /\ c.o.rewriteChapters /\ c.o.chapters = None /\ c.o.mode = None
           => c.hit \subseteq c.told]_foundationVars

\* What the model fills in replaces nothing, and gives no second outline to a
\* book that can be written to the one it has (keysToGenerate).
FillsOnlyGaps ==
  [][\A s \in Callers :
       LET c == call[s]
       IN  c.at = "write" /\ call'[s] # c /\ c.base # <<>>
             /\ c.kind \in {"generate", "auto"} /\ c.o.mode = "fill_missing" =>
           \A k \in FoundationKeys : foundation'[k] # foundation[k] =>
             /\ foundation[k] = None
             /\ k = "outline" => c.o.tier = "short" \/ c.base["layered_outline"] = None
             /\ k = "layered_outline" => c.base["outline"] = None]_foundationVars

\* An automatic run whose model answers every key it is asked for finds the
\* foundation whole when it inspects it again: the gaps, the keys made of them
\* and the keys selected agree about the outline of each tier (runAutoWrite).
FillClosesGaps ==
  \A s \in Callers :
    call[s].at = "inspect" /\ call[s].full => Missing(foundation, call[s].o.tier) = {}
=============================================================================

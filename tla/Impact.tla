------------------------------- MODULE Impact -------------------------------
(***************************************************************************)
(* What a change of the foundation means for the chapters that are already *)
(* written, src/src/session/impact.ts: pure functions of the foundation,   *)
(* the patch and the chapters.                                             *)
(*                                                                         *)
(* A foundation gives each key its content or None, a patch gives some of  *)
(* the keys a content.  An outline is a function from chapters to rows     *)
(* [title, plot], layered ones as flattenOutline() returns them; the bible *)
(* of characters and the world rules are functions from names to their     *)
(* content.  The order of the rows of a file, which can only add a finding *)
(* that names no chapter, is left out, and so are reasons and notes.       *)
(***************************************************************************)
EXTENDS Integers, SequencesExt

CONSTANT None    \* the content of an absent file

FoundationKeys ==
  {"book", "premise", "outline", "layered_outline", "characters", "world_rules"}

\* FoundationImpactSeverity and FoundationImpactMode as their ranks.
MetaOnly == 0
ForwardOnly == 1
RewriteNeeded == 2

NoMode == 0
Polish == 1
Rewrite == 2

Severities == {MetaOnly, ForwardOnly, RewriteNeeded}
Modes == {NoMode, Polish, Rewrite}

MaxRank(a, b) == IF a >= b THEN a ELSE b

\* The rows of a file that may be absent.
Rows(content) == IF content = None THEN <<>> ELSE content

-----------------------------------------------------------------------------
(* The chapters. *)

\* Ranges of consecutive chapters, in ascending order.
CompactChapterRanges(chapters) ==
  LET Extend(ranges, n) ==
        IF ranges # <<>> /\ Last(ranges).end + 1 = n
        THEN [ranges EXCEPT ![Len(ranges)].end = n]
        ELSE Append(ranges, [start |-> n, end |-> n])
  IN  FoldLeft(Extend, <<>>, SetToSortSeq(chapters, <))

\* The ranges hold the chapters and no others, and no two of them touch.
RangesAreExact(chapters) ==
  LET ranges == CompactChapterRanges(chapters)
  IN  /\ UNION {r.start..r.end : r \in {ranges[i] : i \in DOMAIN ranges}} = chapters
      /\ \A i \in DOMAIN ranges : ranges[i].start <= ranges[i].end
      /\ \A i \in 1..Len(ranges)-1 : ranges[i].end + 1 < ranges[i + 1].start

\* A chapter has no file, a draft only, a blank final or a final text.
WrittenChapters(text) == {c \in DOMAIN text : text[c] = "final"}

DraftOnlyChapters(text) == {c \in DOMAIN text : text[c] = "draft"}

\* Written chapters whose text, plan or summary names it.
ChaptersMentioning(name, written, mentions) == {c \in written : name \in mentions[c]}

-----------------------------------------------------------------------------
(* One operator for each key: a set of at most two findings. *)

Finding(key, severity, mode, chapters) ==
  [key |-> key, severity |-> severity, mode |-> mode, chapters |-> chapters]

FindingIf(condition, finding) == {x \in {finding} : condition}

FlattenCurrentOutline(f) ==
  IF f["outline"] # None THEN f["outline"] ELSE f["layered_outline"]

AssessBook(f, p) ==
  FindingIf("book" \in DOMAIN p /\ p["book"] # f["book"],
            Finding("book", MetaOnly, NoMode, {}))

AssessPremise(f, p, written) ==
  FindingIf("premise" \in DOMAIN p /\ p["premise"] # f["premise"],
            IF written = {}
            THEN Finding("premise", ForwardOnly, NoMode, {})
            ELSE Finding("premise", RewriteNeeded, Rewrite, written))

\* Written chapters that gain or lose their row, or whose plot differs.
PlotChapters(before, after, written) ==
  {c \in written : \/ c \notin DOMAIN after
                   \/ c \notin DOMAIN before
                   \/ before[c].plot # after[c].plot}

FutureChanged(before, after, written) ==
  \E c \in (DOMAIN before \cup DOMAIN after) \ written :
    \/ c \notin DOMAIN before \cap DOMAIN after
    \/ before[c] # after[c]

AssessOutlineEntries(key, before, after, written) ==
  LET plots  == PlotChapters(before, after, written)
      titles == {c \in written \ plots : before[c].title # after[c].title}
  IN  FindingIf(plots # {}, Finding(key, RewriteNeeded, Rewrite, plots))
      \cup FindingIf(plots = {} /\ titles # {}, Finding(key, RewriteNeeded, Polish, titles))
      \cup FindingIf(FutureChanged(before, after, written),
                     Finding(key, ForwardOnly, NoMode, {}))

AssessOutline(key, f, p, written) ==
  IF key \in DOMAIN p
  THEN AssessOutlineEntries(key, Rows(FlattenCurrentOutline(f)), p[key], written)
  ELSE {}

\* Names whose content a patch of the key changes, takes away, and adds.
Changed(key, f, p) ==
  {n \in DOMAIN Rows(f[key]) \cap DOMAIN p[key] : f[key][n] # p[key][n]}

Removed(key, f, p) == DOMAIN Rows(f[key]) \ DOMAIN p[key]

Added(key, f, p) == DOMAIN p[key] \ DOMAIN Rows(f[key])

Mentioning(names, written, mentions) ==
  UNION {ChaptersMentioning(n, written, mentions) : n \in names}

\* A name that is changed concerns every chapter if none mentions it.
TouchedBy(names, written, mentions) ==
  UNION {IF ChaptersMentioning(n, written, mentions) = {}
         THEN written
         ELSE ChaptersMentioning(n, written, mentions) : n \in names}

\* Slip: a character that is removed concerns nobody.
CharactersTouch_Changed(f, p, written, mentions) ==
  TouchedBy(Changed("characters", f, p), written, mentions)

CharactersTouch(f, p, written, mentions) ==
  TouchedBy(Changed("characters", f, p), written, mentions)
    \cup Mentioning(Removed("characters", f, p), written, mentions)

AssessCharacters(f, p, written, mentions) ==
  IF "characters" \notin DOMAIN p THEN {}
  ELSE LET touched == CharactersTouch(f, p, written, mentions)
           forward == \/ Removed("characters", f, p) # {} /\ written # {}
                      \/ Changed("characters", f, p) # {}
                      \/ Added("characters", f, p) # {}
       IN  FindingIf(touched # {}, Finding("characters", RewriteNeeded, Rewrite, touched))
           \cup FindingIf(touched = {} /\ forward,
                          Finding("characters", ForwardOnly, NoMode, {}))

AssessWorldRules(f, p, written, mentions) ==
  IF "world_rules" \notin DOMAIN p THEN {}
  ELSE LET existing  == Changed("world_rules", f, p) \cup Removed("world_rules", f, p)
           mentioned == Mentioning(existing, written, mentions)
       IN  FindingIf(existing # {} /\ written # {},
                     Finding("world_rules", RewriteNeeded, Rewrite,
                             IF mentioned = {} THEN written ELSE mentioned))
           \cup FindingIf(~(existing # {} /\ written # {})
                            /\ (existing # {} \/ Added("world_rules", f, p) # {}),
                          Finding("world_rules", ForwardOnly, NoMode, {}))

Findings(f, p, written, mentions) ==
  AssessBook(f, p)
    \cup AssessPremise(f, p, written)
    \cup AssessOutline("outline", f, p, written)
    \cup AssessOutline("layered_outline", f, p, written)
    \cup AssessCharacters(f, p, written, mentions)
    \cup AssessWorldRules(f, p, written, mentions)

-----------------------------------------------------------------------------
(* The assessment. *)

Highest(ranks) == CHOOSE r \in ranks : \A other \in ranks : r >= other

\* mergeFindings(); `drafts` are the chapters its note leaves out.
MergeFindings(findings, drafts) ==
  LET severity == Highest({MetaOnly} \cup {x.severity : x \in findings})
      mode     == Highest({NoMode} \cup {x.mode : x \in findings})
      chapters == UNION {x.chapters : x \in findings}
      rewrites == severity = RewriteNeeded
  IN  [ severity |-> severity,
        chapters |-> IF rewrites THEN chapters ELSE {},
        mode     |-> IF ~rewrites THEN NoMode ELSE IF mode = NoMode THEN Rewrite ELSE mode,
        keys     |-> {x.key : x \in findings},
        drafts   |-> IF findings = {} THEN {} ELSE drafts,
        source   |-> "heuristics" ]

AssessProposed(f, p, text, mentions) ==
  MergeFindings(Findings(f, p, WrittenChapters(text), mentions), DraftOnlyChapters(text))

\* Slip: the model's chapters replace those of the heuristics.
RefinedChapters_Replaced(h, raw, written) ==
  IF "chapters" \in DOMAIN raw THEN raw.chapters \cap written ELSE h.chapters

RefinedChapters(h, raw, written) ==
  h.chapters \cup (IF "chapters" \in DOMAIN raw THEN raw.chapters \cap written ELSE {})

\* applyLlmRefinement(); `raw` holds the fields of the answer that are valid.
ApplyLlmRefinement(h, raw, written) ==
  LET severity == IF "severity" \in DOMAIN raw THEN MaxRank(h.severity, raw.severity)
                                               ELSE h.severity
      mode     == IF "mode" \in DOMAIN raw THEN MaxRank(h.mode, raw.mode) ELSE h.mode
      rewrites == severity = RewriteNeeded
  IN  [ h EXCEPT !.severity = severity,
                 !.chapters = IF rewrites THEN RefinedChapters(h, raw, written) ELSE {},
                 !.mode     = IF ~rewrites THEN NoMode
                              ELSE IF mode = NoMode THEN Rewrite ELSE mode,
                 !.source   = "llm" ]

\* The answer of the model, None if it holds no JSON object.
RefineWithLlm(h, answer, written) ==
  IF answer = None THEN h ELSE ApplyLlmRefinement(h, answer, written)

-----------------------------------------------------------------------------
(* The reference: what it means that a written chapter contradicts the       *)
(* foundation.  The outline a writer is shown is outline.json (context.ts),  *)
(* and the layered one stands in for it where there is no other.             *)

GoverningOutline(f) ==
  CASE f["outline"] # None                                   -> f["outline"]
    [] f["outline"] = None /\ f["layered_outline"] # None     -> f["layered_outline"]
    [] f["outline"] = None /\ f["layered_outline"] = None     -> <<>>

\* The plot of a chapter, with an empty set for a chapter that has no row.
PlotOf(f, c) ==
  {row.plot : row \in {GoverningOutline(f)[d] : d \in DOMAIN GoverningOutline(f) \cap {c}}}

\* The content of a name, with an empty set for a name that is not listed.
ContentOf(key, f, n) == {Rows(f[key])[m] : m \in DOMAIN Rows(f[key]) \cap {n}}

\* Chapter c, written to the foundation f, contradicts the foundation g.
Contradicted(c, f, g, mentions) ==
  \/ f["premise"] # g["premise"]
  \/ PlotOf(f, c) # PlotOf(g, c)
  \/ \E key \in {"characters", "world_rules"} : \E n \in mentions[c] :
       /\ ContentOf(key, f, n) # {}
       /\ ContentOf(key, f, n) # ContentOf(key, g, n)
=============================================================================

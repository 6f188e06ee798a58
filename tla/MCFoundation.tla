---------------------------- MODULE MCFoundation ----------------------------
(* Small books, patches and answers for model-checking Foundation. *)
EXTENDS Foundation

\* suggestedRanges of an assessment, for every set of chapters that small.
ASSUME RangesOfChapters == \A chapters \in SUBSET (1..6) : RangesAreExact(chapters)

Row(title, plot) == [title |-> title, plot |-> plot]

Flat == 1 :> Row("a", "meet") @@ 2 :> Row("b", "part") @@ 3 :> Row("c", "end")

Empty == [k \in FoundationKeys |-> None]

Whole ==
  [Empty EXCEPT !["book"] = "title", !["premise"] = "old",
                !["characters"] = [hero |-> "brave", rival |-> "sly"],
                !["world_rules"] = [magic |-> "costs", law |-> "strict"]]

\* Chapter 1 mentions the hero and magic, chapter 2 the rival; none the law.
MCMentions == <<{"hero", "magic"}, {"hero", "rival"}, {}>>

MCStarts ==
  { [ foundation |-> [Whole EXCEPT !["outline"] = Flat],
      text |-> <<"final", "final", "draft">>, writing |-> TRUE ],
    [ foundation |-> [Whole EXCEPT !["layered_outline"] = Flat, !["premise"] = None],
      text |-> <<"final", "blank", "absent">>, writing |-> FALSE ],
    [ foundation |-> Empty, text |-> <<"absent", "absent", "absent">>, writing |-> FALSE ] }

\* Nothing; one key: a new plot, a row that goes, new titles, a future row; names that
\* change, go and come.  Several keys: all at once, and some of them.
Outlines ==
  { [Flat EXCEPT ![2].plot = "fight"], 1 :> Flat[1] @@ 3 :> Flat[3],
    [Flat EXCEPT ![1].title = "z", ![3].plot = "wed"] }

Bibles == {[hero |-> "brave"], [hero |-> "afraid", rival |-> "sly", friend |-> "new"]}

RuleSets == {[magic |-> "costs", law |-> "loose"], [law |-> "strict"]}

MCPatches ==
  { <<>>, "premise" :> "new", "book" :> "other" }
    \cup {"outline" :> o : o \in Outlines}
    \cup {"layered_outline" :> o : o \in Outlines}
    \cup {"characters" :> b @@ "premise" :> "old" : b \in Bibles}
    \cup {"world_rules" :> r : r \in RuleSets}
    \cup {"characters" :> b @@ "outline" :> o : b \in Bibles, o \in Outlines}

ApplyOption(confirm, rewrite, refine) ==
  [ requireConfirmRewrite |-> TRUE, confirmRewrite |-> confirm, rewriteChapters |-> rewrite,
    refineWithLlm |-> refine, chapters |-> None, mode |-> None ]

MCOptions ==
  [ apply    |-> { ApplyOption(FALSE, FALSE, FALSE), ApplyOption(FALSE, TRUE, TRUE),
                   ApplyOption(TRUE, TRUE, TRUE),
                   [ApplyOption(FALSE, TRUE, FALSE) EXCEPT !.requireConfirmRewrite = FALSE],
                   [ApplyOption(TRUE, TRUE, FALSE) EXCEPT !.chapters = {2, 3}, !.mode = Polish] },
    generate |-> [mode : {"fill_missing", "overwrite"}, tier : {"short", "mid"}],
    auto     |-> {[ mode |-> "fill_missing", generateMissing |-> fill, tier |-> tier,
                    requireConfirmGaps |-> TRUE, confirmAuditGap |-> confirm ] :
                    fill \in BOOLEAN, tier \in {"short", "mid"}, confirm \in BOOLEAN} ]

MCRequests == {{"outline", "layered_outline"}, {"premise", "layered_outline"}, FoundationKeys}

MCGenerated ==
  [Whole EXCEPT !["premise"] = "old", !["outline"] = Flat, !["layered_outline"] = Flat]

MCAnswers ==
  {{}, FoundationKeys, {"premise", "layered_outline", "book"}, {"outline", "characters"}}

\* No JSON, nothing valid, a chapter that is not written, a call for more, and for less.
MCRefinements ==
  { None, <<>>, [chapters |-> {3}], [severity |-> RewriteNeeded, mode |-> NoMode],
    [severity |-> MetaOnly, mode |-> Polish, chapters |-> {1}] }
=============================================================================

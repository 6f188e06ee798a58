------------------------------- MODULE MCBook -------------------------------
(* Small inputs for model-checking Book. *)
EXTENDS BookProperties

\* An arc with n detailed chapters; a skeleton that expects n.
Arc(index, n, plan)      == [index |-> index, size |-> n, est |-> 0, plan |-> plan]
Skeleton(index, n, plan) == [index |-> index, size |-> 0, est |-> n, plan |-> plan]
Volume(index, plan, final, arcs) ==
  [index |-> index, title |-> OwnTitle, plan |-> plan, final |-> final, arcs |-> arcs]

MCNone == {}
MCShort == {"short"}
MCLong == {"long"}
MCShortOrLong == {"short", "long"}
MCNoIssues == {<<>>}
MCFlat == {2, 3}
MCThree == {3}
MCScales == {"mid"}
\* Reviews that ask for nothing, or for the first chapter to be changed, or for the
\* third, which may not be written yet.
MCIssues == {<<>>, <<1>>}
MCFarIssues == {<<>>, <<1>>, <<3>>}

\* One volume: a written-out arc and a skeleton.  The second plan has two arcs
\* with the same index, as a careless model may supply them.
MCLayered == {<<Volume(1, "v", FALSE, <<Arc(1, 1, "a"), Skeleton(2, 1, "b")>>)>>,
              <<Volume(1, "v", FALSE, <<Arc(1, 1, "a"), Skeleton(1, 1, "b")>>)>>}
MCLayeredOne == {<<Volume(1, "v", FALSE, <<Arc(1, 1, "a"), Skeleton(2, 1, "b")>>)>>}
MCExpansions == {[size |-> 1, plan |-> "b"], [size |-> 2, plan |-> "c"]}
MCNewVolumes == {Volume(1, "w", TRUE, <<Arc(1, 1, "d")>>)}
\* The same volume with and without a title.
MCEitherTitle == {[volume EXCEPT !.title = title] : volume \in MCNewVolumes, title \in {OwnTitle, NoTitle}}
MCIndexes == {1, 2}
MCIndexes3 == {1, 2, 3}

\* Without is the filter of the code.
ASSUME WithoutFilters ==
  \A chapters \in BoundedSeq(1..3, 4), ch \in 1..3 :
    Without(chapters, ch) = SelectSeq(chapters, LAMBDA c : c # ch)
=============================================================================

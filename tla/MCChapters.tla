---------------------------- MODULE MCChapters ------------------------------
(* Small inputs for model-checking Chapters. *)
EXTENDS Chapters

Book(phase, completed, pending) ==
  [EmptyProgress EXCEPT !.phase = phase, !.total = 2, !.completed = completed,
                        !.pending = pending,
                        !.flow = IF pending = <<>> THEN "writing" ELSE "rewriting"]

\* No record yet; a planned book; one in writing, with and without a queue; a
\* finished one.
MCStarts ==
  {NoProgress, Book("outline", <<>>, <<>>), Book("writing", <<1>>, <<>>),
   Book("writing", <<1>>, <<1>>), Book("complete", <<1, 2>>, <<>>)}

MCOne == {1}
=============================================================================

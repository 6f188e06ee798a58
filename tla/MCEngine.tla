------------------------------ MODULE MCEngine ------------------------------
(* Small books for model-checking Engine. *)
EXTENDS Engine

WritingBook(flow, pending) ==
  [ phase |-> "writing", flow |-> flow, current |-> 1, total |-> 2, completed |-> <<1>>,
    pending |-> pending, layered |-> FALSE ]

\* One of two chapters is written; nothing is queued, the written chapter is
\* queued for polishing, or the missing one for a rewrite.
MCStarts == {WritingBook("writing", <<>>), WritingBook("polishing", <<1>>),
             WritingBook("rewriting", <<2>>)}
MCFresh == {WritingBook("writing", <<>>)}
MCOne == {"s1"}
MCTwo == {"s1", "s2"}
=============================================================================

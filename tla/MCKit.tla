-------------------------------- MODULE MCKit --------------------------------
(* Three books, one call at a time, four sessions to a page.                 *)
EXTENDS Kit
=============================================================================

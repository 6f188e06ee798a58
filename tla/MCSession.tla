----------------------------- MODULE MCSession ------------------------------
(* Small inputs for model-checking Session. *)
EXTENDS Session
=============================================================================

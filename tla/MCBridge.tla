------------------------------ MODULE MCBridge ------------------------------
(* Both bridges; an engine may take its time to be made, a session does not: *)
(* createNovelSession() waits for nothing.                                   *)
EXTENDS Bridge

MCWorlds ==
  { [family |-> "session", slow |-> FALSE], [family |-> "engine", slow |-> FALSE],
    [family |-> "engine", slow |-> TRUE] }
=============================================================================

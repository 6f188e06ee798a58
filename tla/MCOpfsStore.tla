---------------------------- MODULE MCOpfsStore -----------------------------
\* Calls on one path, with two contents to tell apart.
EXTENDS OpfsStore

MCOne == {1}
MCTwo == {1, 2}
=============================================================================

--------------------------- MODULE MCTokenIngest ----------------------------
(* TokenIngest for TLC. *)
EXTENDS TokenIngest

CONSTANT t1

\* One token, whose creation is reported as often as there are creations.
OneToken == [e \in Events |-> t1]
=============================================================================

---------------------------- MODULE MCPoolStart ----------------------------
(***************************************************************************)
(* Two calls of start(), at once or one after the other.                   *)
(***************************************************************************)
EXTENDS PoolStart

MCRequest == Start \X {"ready", "address", "info"}
=============================================================================

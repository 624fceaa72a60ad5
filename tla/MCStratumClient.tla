--------------------------- MODULE MCStratumClient ---------------------------
(***************************************************************************)
(* Two worker names on a connection: a name may be authorized twice, and   *)
(* two requests may be under way.  The embedding program may enqueue what  *)
(* is no difficulty, and one the network caps.                             *)
(***************************************************************************)
EXTENDS StratumClient

MCDifficulty == {-1, 3}
=============================================================================

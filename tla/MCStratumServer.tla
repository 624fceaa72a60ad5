--------------------------- MODULE MCStratumServer ---------------------------
(***************************************************************************)
(* Clients that send small messages, one that is too large for the buffer, *)
(* and messages followed by what is none.                                  *)
(***************************************************************************)
EXTENDS StratumServer

MCStream ==
    {[size |-> 4, ends |-> {1, 2, 4}, bad |-> 0],
     [size |-> 4, ends |-> {}, bad |-> 0],
     [size |-> 3, ends |-> {1, 2}, bad |-> 3]}
=============================================================================

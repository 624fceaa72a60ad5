---------------------------- MODULE MCStratumPool ----------------------------
(***************************************************************************)
(* Templates for the block a, its siblings b and c one higher: enough for  *)
(* a late answer to be stale, and for one to flip the pool to a sibling.   *)
(***************************************************************************)
EXTENDS StratumPool

CONSTANTS a, b, c

MCTemplate ==
    {[prev |-> a, height |-> 1],
     [prev |-> b, height |-> 2],
     [prev |-> c, height |-> 2]}
=============================================================================

-------------------------- MODULE MCShareProcessor --------------------------
(***************************************************************************)
(* One template for the block a and one for the block b above it, whose    *)
(* network difficulty is lower: a client may have a difficulty above it.   *)
(***************************************************************************)
EXTENDS ShareProcessor

CONSTANTS a, b

MCTemplate ==
    {[prev |-> a, height |-> 1, difficulty |-> 3],
     [prev |-> b, height |-> 2, difficulty |-> 2]}
=============================================================================

---------------------------- MODULE MCJobManager ----------------------------
(***************************************************************************)
(* Five templates over a small block tree: two templates for a (the second *)
(* an update of the first), then b and c, siblings built on at the same    *)
(* height, and d above them.                                               *)
(***************************************************************************)
EXTENDS JobManager

CONSTANTS a, b, c, d

MCTemplate ==
    {[prev |-> a, height |-> 1, curtime |-> 0],
     [prev |-> a, height |-> 1, curtime |-> 1],
     [prev |-> b, height |-> 2, curtime |-> 1],
     [prev |-> c, height |-> 2, curtime |-> 1],
     [prev |-> d, height |-> 3, curtime |-> 1]}
=============================================================================

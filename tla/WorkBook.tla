------------------------------ MODULE WorkBook ------------------------------
(***************************************************************************)
(* What the job manager promises the rest of the pool, without ids being   *)
(* counted and without templates: one tip is worked on at a time, jobs are *)
(* opened on that tip, and moving to another tip closes every open job at  *)
(* once.  The tip never moves to a lower height.                           *)
(***************************************************************************)
EXTENDS Naturals

CONSTANTS Tip,       \* the blocks work may build on
          HeightOn,  \* HeightOn[b]: height of a block built on b
          Id,        \* the names jobs are given
          NoTip

VARIABLES tip,   \* the block being built on, NoTip before the first job
          open   \* the open jobs, each a record [id, tip]

bookVars == <<tip, open>>

Init == tip = NoTip /\ open = {}

\* Another job for the same tip; it takes its id over from an older one.
Refresh(i) ==
    /\ tip # NoTip
    /\ open' = {j \in open : j.id # i} \cup {[id |-> i, tip |-> tip]}
    /\ tip' = tip

\* Work moves to another tip: only the new job is open.
Advance(b, i) ==
    /\ tip # b
    /\ tip # NoTip => HeightOn[b] >= HeightOn[tip]
    /\ tip' = b
    /\ open' = {[id |-> i, tip |-> b]}

Next ==
    \/ \E i \in Id : Refresh(i)
    \/ \E b \in Tip, i \in Id : Advance(b, i)

Spec == Init /\ [][Next]_bookVars
=============================================================================

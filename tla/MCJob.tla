-------------------------------- MODULE MCJob --------------------------------
(***************************************************************************)
(* A template and variations of it: heights at the borders of their        *)
(* encodings, transactions in numbers odd and even and past one byte,      *)
(* flags that just fit and that do not, a znode, a commitment, and the     *)
(* same template a second later; versions at both ends of int32.           *)
(***************************************************************************)
EXTENDS Job

MCBase ==
    [version |-> 2, previousblockhash |-> <<0, 1>>, bits |-> <<29, 255>>,
     curtime |-> 0,
     height |-> 33000, flags |-> <<>>, coinbasevalue |-> 2100000000,
     znode |-> <<>>, witness |-> <<>>, transactions |-> <<1>>]

MCTemplate ==
    {MCBase, [MCBase EXCEPT !.curtime = 1], [MCBase EXCEPT !.bits = <<29, 254>>],
     [MCBase EXCEPT !.version = -1],
     [MCBase EXCEPT !.version = MaxInt32]}
    \cup {[MCBase EXCEPT !.height = h] :
             h \in {1, 16, 17, 127, 128, 255, 256, 32767, 32768, 8388608}}
    \cup {[MCBase EXCEPT !.transactions = [i \in 1 .. n |-> i]] :
             n \in {0, 2, 3, 4, 5, 7, 8, 252}}
    \cup {[MCBase EXCEPT !.flags = <<6, 47, 80, 50, 83, 72, 47>>],
          [MCBase EXCEPT !.height = 8388608, !.flags = Zeros(67)],
          [MCBase EXCEPT !.height = 8388608, !.flags = Zeros(68)],
          [MCBase EXCEPT !.znode = <<[amount |-> 1500000000, payee |-> 9]>>,
                         !.witness = <<<<106, 36, 170>>>>],
          [MCBase EXCEPT !.witness = <<<<106>> \o Zeros(252)>>]}

MCPoolAddress == 8
MCFounder     == <<1, 2, 3, 4, 5>>
MCSignature   == <<47, 109, 116, 112, 47>>
MCFirstSecond == {1600000000, 2147483647}

MCShare ==
    {[nonce |-> 0, extraNonce1 |-> Zeros(8), extraNonce2 |-> Zeros(8),
      time |-> 0],
     [nonce |-> 0, extraNonce1 |-> Zeros(8), extraNonce2 |-> PackLE(7, 8),
      time |-> 0]}
=============================================================================

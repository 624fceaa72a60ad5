------------------------------ MODULE MerkleTree ------------------------------
(***************************************************************************)
(* class.MerkleTree.js: the hashes a miner needs, beside the coinbase, to  *)
(* compute the Merkle root of a block.  Hashes are terms: different data   *)
(* have different hashes.                                                  *)
(***************************************************************************)
EXTENDS Naturals, SequencesExt

\* _merkleJoin.
MerkleJoin(h1, h2) == [left |-> h1, right |-> h2]

\* Seeded bug: a hash without a partner is passed over.
JoinPairsOnly(hashes) ==
    [i \in 1 .. Len(hashes) \div 2 |->
        MerkleJoin(hashes[2 * i - 1], hashes[2 * i])]

\* The next level: a last hash without a partner is joined with itself.
JoinPairs(hashes) ==
    [i \in 1 .. (Len(hashes) + 1) \div 2 |->
        MerkleJoin(hashes[2 * i - 1],
                   IF 2 * i <= Len(hashes) THEN hashes[2 * i]
                                           ELSE hashes[2 * i - 1])]

\* The levels of _calculateSteps, without the branch that holds the coinbase,
\* whose place at the head the code keeps with null.
Levels(txs) ==
    LET level[k \in Nat] == IF k = 0 THEN txs ELSE JoinPairs(Tail(level[k - 1]))
    IN  level

\* _calculateSteps.  The hash at the head of a level is the partner of the
\* branch with the coinbase.
Steps(txs) ==
    LET level == Levels(txs)
        depth == CHOOSE k \in 0 .. Len(txs) :
                    /\ level[k] = <<>>
                    /\ \A j \in 0 .. k - 1 : level[j] # <<>>
    IN  [k \in 1 .. depth |-> Head(level[k - 1])]

\* withFirst: the steps are joined to the first one by one.
Joined(steps, first) ==
    LET joined[k \in Nat] ==
            IF k = 0 THEN first ELSE MerkleJoin(joined[k - 1], steps[k])
    IN  joined

WithFirst(steps, first) == Joined(steps, first)[Len(steps)]

-----------------------------------------------------------------------------
\* The Merkle root of a block's transactions, after the daemon's definition.

HashPairs(hashes) ==
    LET even == IF Len(hashes) % 2 = 1 THEN Append(hashes, Last(hashes))
                                       ELSE hashes
    IN  [i \in 1 .. Len(even) \div 2 |->
            MerkleJoin(even[2 * i - 1], even[2 * i])]

HashLevels(txs) ==
    LET level[k \in Nat] == IF k = 0 THEN txs ELSE HashPairs(level[k - 1])
    IN  level

MerkleRoot(txs) ==
    LET level == HashLevels(txs)
        top   == CHOOSE k \in 0 .. Len(txs) :
                    /\ Len(level[k]) = 1
                    /\ \A j \in 0 .. k - 1 : Len(level[j]) # 1
    IN  Head(level[top])
=============================================================================

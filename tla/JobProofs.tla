------------------------------ MODULE JobProofs ------------------------------
(***************************************************************************)
(* What a job is made of, proved for every set of templates and of shares: *)
(* the steps a miner is given lead to the Merkle root the daemon computes, *)
(* for any number of transactions; what is written into a coinbase is what *)
(* is read from it; the work for a share tells the template and the second *)
(* its job was made of; and so all that the runs check of the jobs.        *)
(***************************************************************************)
EXTENDS Job, SequenceTheorems, TLAPS

-----------------------------------------------------------------------------
\* Sequences of whatever.

IsSeq(s) == \E S : s \in Seq(S)

LEMMA SeqFacts ==
    ASSUME NEW s, IsSeq(s)
    PROVE  /\ Len(s) \in Nat
           /\ DOMAIN s = 1 .. Len(s)
           /\ s = [i \in 1 .. Len(s) |-> s[i]]
           /\ s = <<>> <=> Len(s) = 0
<1>1. PICK S : s \in Seq(S)  BY DEF IsSeq
<1>2. s \in [1 .. Len(s) -> S] /\ Len(s) \in Nat /\ DOMAIN s = 1 .. Len(s)
  BY <1>1, LenProperties
<1>3. s = <<>> <=> Len(s) = 0  BY <1>1, EmptySeq
<1>4. QED  BY <1>2, <1>3

LEMMA MakeSeq ==
    ASSUME NEW n \in Nat, NEW s, s = [i \in 1 .. n |-> s[i]]
    PROVE  IsSeq(s) /\ Len(s) = n
<1> DEFINE S == {s[i] : i \in 1 .. n}
<1>1. s \in [1 .. n -> S]  OBVIOUS
<1>2. s \in Seq(S)  BY <1>1, SeqDef
<1>3. Len(s) \in Nat /\ 1 .. Len(s) = 1 .. n  BY <1>1, <1>2, LenProperties
<1>4. Len(s) = n  BY <1>3
<1>5. QED  BY <1>2, <1>4 DEF IsSeq

LEMMA SameSeq ==
    ASSUME NEW s, NEW t, IsSeq(s), IsSeq(t), Len(s) = Len(t),
           \A i \in 1 .. Len(s) : s[i] = t[i]
    PROVE  s = t
<1>1. /\ s = [i \in 1 .. Len(s) |-> s[i]]
      /\ t = [i \in 1 .. Len(s) |-> t[i]]
  BY SeqFacts
<1>2. QED  BY <1>1

LEMMA TailFacts ==
    ASSUME NEW s, IsSeq(s), s # <<>>
    PROVE  /\ IsSeq(Tail(s)) /\ Len(Tail(s)) = Len(s) - 1
           /\ \A i \in 1 .. Len(s) - 1 : Tail(s)[i] = s[i + 1]
           /\ Head(s) = s[1]
<1>1. PICK S : s \in Seq(S)  BY DEF IsSeq
<1>2. QED  BY <1>1, HeadTailProperties DEF IsSeq

LEMMA ConcatFacts ==
    ASSUME NEW s, NEW t, IsSeq(s), IsSeq(t)
    PROVE  /\ IsSeq(s \o t) /\ Len(s \o t) = Len(s) + Len(t)
           /\ \A i \in 1 .. Len(s) : (s \o t)[i] = s[i]
           /\ \A i \in 1 .. Len(t) : (s \o t)[Len(s) + i] = t[i]
<1>1. PICK S, T : s \in Seq(S) /\ t \in Seq(T)  BY DEF IsSeq
<1> DEFINE U == S \cup T
<1>2. s \in Seq(U) /\ t \in Seq(U)  BY <1>1, SeqMonotonic
<1> HIDE DEF U
<1>3. /\ s \o t \in Seq(U)
      /\ Len(s \o t) = Len(s) + Len(t)
      /\ \A i \in 1 .. Len(s) + Len(t) :
            (s \o t)[i] = IF i <= Len(s) THEN s[i] ELSE t[i - Len(s)]
  BY <1>2, ConcatProperties
<1>4. Len(s) \in Nat /\ Len(t) \in Nat  BY SeqFacts
<1>5. ASSUME NEW i \in 1 .. Len(s) PROVE (s \o t)[i] = s[i]
  BY <1>3, <1>4
<1>6. ASSUME NEW i \in 1 .. Len(t) PROVE (s \o t)[Len(s) + i] = t[i]
  <2>1. /\ Len(s) + i \in 1 .. Len(s) + Len(t)
        /\ ~(Len(s) + i <= Len(s)) /\ (Len(s) + i) - Len(s) = i
    BY <1>4
  <2>2. QED  BY <1>3, <2>1
<1>7. QED  BY <1>3, <1>5, <1>6 DEF IsSeq

LEMMA ConsFacts ==
    ASSUME NEW a, NEW s, IsSeq(s)
    PROVE  /\ IsSeq(<<a>> \o s) /\ Len(<<a>> \o s) = Len(s) + 1
           /\ (<<a>> \o s)[1] = a
           /\ \A i \in 1 .. Len(s) : (<<a>> \o s)[i + 1] = s[i]
<1>1. <<a>> \in Seq({a}) /\ Len(<<a>>) = 1 /\ <<a>>[1] = a  OBVIOUS
<1>2. IsSeq(<<a>>)  BY <1>1 DEF IsSeq
<1>3. Len(s) \in Nat  BY SeqFacts
<1>4. /\ IsSeq(<<a>> \o s) /\ Len(<<a>> \o s) = 1 + Len(s)
      /\ (<<a>> \o s)[1] = a
      /\ \A i \in 1 .. Len(s) : (<<a>> \o s)[1 + i] = s[i]
  <2>1. 1 \in 1 .. 1  OBVIOUS
  <2>2. QED  BY <1>1, <1>2, <2>1, ConcatFacts
<1>5. \A i \in 1 .. Len(s) : i + 1 = 1 + i  OBVIOUS
<1>6. QED  BY <1>3, <1>4, <1>5

-----------------------------------------------------------------------------
\* What is used of a template.

LEMMA TemplateFacts ==
    \A t \in Template :
        /\ t.version \in Int
        /\ t.previousblockhash \in Seq(Byte) /\ t.bits \in Seq(Byte)
        /\ t.height \in 0 .. MaxInt32 /\ t.flags \in Seq(Byte)
        /\ t.coinbasevalue \in Int64
        /\ t.znode \in Seq([amount : Int64, payee : Byte]) /\ Len(t.znode) <= 1
        /\ t.witness \in Seq(Seq(Byte)) /\ Len(t.witness) <= 1
        /\ \A i \in DOMAIN t.witness : Len(t.witness[i]) <= MaxInt32
        /\ t.transactions \in Seq(Nat)
        /\ Len(t.transactions) < MaxInt32
BY TemplateAssumption

-----------------------------------------------------------------------------
\* The levels of a Merkle tree.

LEMMA JoinPairsFacts ==
    ASSUME NEW s, IsSeq(s)
    PROVE  /\ IsSeq(JoinPairs(s))
           /\ Len(JoinPairs(s)) = (Len(s) + 1) \div 2
           /\ \A i \in 1 .. (Len(s) + 1) \div 2 :
                 JoinPairs(s)[i] =
                     MerkleJoin(s[2 * i - 1], IF 2 * i <= Len(s)
                                              THEN s[2 * i] ELSE s[2 * i - 1])
<1>1. Len(s) \in Nat  BY SeqFacts
<1>2. (Len(s) + 1) \div 2 \in Nat  BY <1>1
<1>3. \A i \in 1 .. (Len(s) + 1) \div 2 :
         JoinPairs(s)[i] =
             MerkleJoin(s[2 * i - 1], IF 2 * i <= Len(s)
                                      THEN s[2 * i] ELSE s[2 * i - 1])
  BY DEF JoinPairs
<1>4. JoinPairs(s) = [i \in 1 .. (Len(s) + 1) \div 2 |-> JoinPairs(s)[i]]
  BY DEF JoinPairs
<1>5. QED  BY <1>2, <1>3, <1>4, MakeSeq

\* The pool's way to pair the hashes of a level is the daemon's.
LEMMA HashPairsIsJoinPairs ==
    ASSUME NEW s, IsSeq(s)
    PROVE  HashPairs(s) = JoinPairs(s)
<1> DEFINE n    == Len(s)
           even == IF n % 2 = 1 THEN Append(s, Last(s)) ELSE s
           half == Len(even) \div 2
           both == [i \in 1 .. half |-> MerkleJoin(even[2 * i - 1], even[2 * i])]
           size == (n + 1) \div 2
           other(i) == IF 2 * i <= n THEN s[2 * i] ELSE s[2 * i - 1]
<1>1. n \in Nat  BY SeqFacts
<1>2. /\ half = size
      /\ \A i \in 1 .. size : even[2 * i - 1] = s[2 * i - 1]
                                /\ even[2 * i] = other(i)
  <2>1. CASE n % 2 = 1
    <3>1. PICK S : s \in Seq(S)  BY DEF IsSeq
    <3>2. n >= 1 /\ s # <<>>  BY <1>1, <2>1, SeqFacts
    <3>3. Last(s) = s[n]  BY DEF Last
    <3>4. s[n] \in S  BY <1>1, <3>1, <3>2, ElementOfSeq
    <3>5. /\ Len(Append(s, s[n])) = n + 1
          /\ Append(s, s[n])[n + 1] = s[n]
          /\ \A i \in 1 .. n : Append(s, s[n])[i] = s[i]
      BY <3>1, <3>4, <1>1
    <3>6. even = Append(s, s[n])  BY <2>1, <3>3
    <3>7. half = size  BY <3>5, <3>6
    <3>8. ASSUME NEW i \in 1 .. size
          PROVE  even[2 * i - 1] = s[2 * i - 1] /\ even[2 * i] = other(i)
      <4>1. i \in Nat /\ 2 * i - 1 \in 1 .. n  BY <1>1, <2>1
      <4>2. CASE 2 * i <= n
        <5>1. 2 * i \in 1 .. n  BY <1>1, <4>1, <4>2
        <5>2. QED  BY <3>5, <3>6, <4>1, <4>2, <5>1
      <4>3. CASE ~(2 * i <= n)
        <5>1. 2 * i = n + 1 /\ 2 * i - 1 = n  BY <1>1, <4>1, <4>3
        <5>2. QED  BY <3>5, <3>6, <4>1, <4>3, <5>1
      <4>4. QED  BY <4>2, <4>3
    <3>9. QED  BY <3>7, <3>8
  <2>2. CASE n % 2 # 1
    <3>1. even = s /\ half = n \div 2  BY <2>2
    <3>2. n \div 2 = size  BY <1>1, <2>2
    <3>3. \A i \in 1 .. size : 2 * i <= n  BY <1>1, <2>2
    <3>4. QED  BY <3>1, <3>2, <3>3
  <2>3. QED  BY <2>1, <2>2
<1>3. HashPairs(s) = both  BY DEF HashPairs
<1>4. JoinPairs(s) = [i \in 1 .. size |-> MerkleJoin(s[2 * i - 1], other(i))]
  BY DEF JoinPairs
<1> HIDE DEF half, even, size, other
<1>5. QED  BY <1>2, <1>3, <1>4

\* A level with the branch of the coinbase at its head: the branch is joined
\* with the next hash, and the others among themselves.
LEMMA BranchIsJoined ==
    ASSUME NEW b, NEW s, IsSeq(s), s # <<>>
    PROVE  JoinPairs(<<b>> \o s) = <<MerkleJoin(b, Head(s))>> \o JoinPairs(Tail(s))
<1> DEFINE n     == Len(s)
           all   == <<b>> \o s
           rest  == JoinPairs(Tail(s))
           right == <<MerkleJoin(b, Head(s))>> \o rest
<1>1. n \in Nat /\ n >= 1  BY SeqFacts
<1>2. /\ IsSeq(all) /\ Len(all) = n + 1 /\ all[1] = b
      /\ \A i \in 1 .. n : all[i + 1] = s[i]
  BY ConsFacts
<1>3. /\ IsSeq(Tail(s)) /\ Len(Tail(s)) = n - 1
      /\ \A i \in 1 .. n - 1 : Tail(s)[i] = s[i + 1]
      /\ Head(s) = s[1]
  BY TailFacts
<1>4. /\ IsSeq(rest) /\ Len(rest) = n \div 2
      /\ \A i \in 1 .. n \div 2 :
            rest[i] = MerkleJoin(Tail(s)[2 * i - 1],
                                 IF 2 * i <= n - 1 THEN Tail(s)[2 * i]
                                                   ELSE Tail(s)[2 * i - 1])
  <2>1. ((n - 1) + 1) \div 2 = n \div 2  BY <1>1
  <2>2. QED  BY <1>3, <2>1, JoinPairsFacts
<1>5. /\ IsSeq(JoinPairs(all)) /\ Len(JoinPairs(all)) = n \div 2 + 1
      /\ \A i \in 1 .. n \div 2 + 1 :
            JoinPairs(all)[i] =
                MerkleJoin(all[2 * i - 1], IF 2 * i <= n + 1
                                           THEN all[2 * i] ELSE all[2 * i - 1])
  <2>1. ((n + 1) + 1) \div 2 = n \div 2 + 1  BY <1>1
  <2>2. QED  BY <1>2, <2>1, JoinPairsFacts
<1>6. /\ IsSeq(right) /\ Len(right) = n \div 2 + 1
      /\ right[1] = MerkleJoin(b, Head(s))
      /\ \A i \in 1 .. n \div 2 : right[i + 1] = rest[i]
  BY <1>4, ConsFacts
<1> HIDE DEF n, all, rest, right
<1>7. ASSUME NEW i \in 1 .. n \div 2 + 1 PROVE JoinPairs(all)[i] = right[i]
  <2>1. CASE i = 1
    <3>1. 2 * 1 - 1 = 1 /\ 2 * 1 = 1 + 1 /\ 2 * 1 <= n + 1 /\ 1 \in 1 .. n
      BY <1>1
    <3>2. all[1] = b /\ all[2 * 1] = s[1]  BY <1>2, <3>1
    <3>3. JoinPairs(all)[1] = MerkleJoin(b, s[1])  BY <1>5, <2>1, <3>1, <3>2
    <3>4. QED  BY <1>3, <1>6, <2>1, <3>3
  <2>2. CASE i # 1
    <3>1. PICK j \in 1 .. n \div 2 : i = j + 1
      <4>1. i - 1 \in 1 .. n \div 2 /\ i = (i - 1) + 1  BY <1>1, <2>2
      <4>2. QED  BY <4>1
    <3>2. /\ j \in Nat /\ 2 * j <= n /\ 2 * j - 1 \in 1 .. n - 1
          /\ 2 * i - 1 = 2 * j + 1 /\ 2 * i = (2 * j + 1) + 1
          /\ 2 * j \in 1 .. n /\ (2 * j - 1) + 1 = 2 * j
          /\ 2 * i <= n + 1 <=> 2 * j <= n - 1
      BY <1>1, <3>1
    <3>3. all[2 * i - 1] = s[2 * j] /\ Tail(s)[2 * j - 1] = s[2 * j]
      BY <1>2, <1>3, <3>2
    <3>4. 2 * j <= n - 1 => all[2 * i] = Tail(s)[2 * j]
      <4>1. SUFFICES ASSUME 2 * j <= n - 1 PROVE all[2 * i] = Tail(s)[2 * j]
        OBVIOUS
      <4>2. 2 * j + 1 \in 1 .. n /\ 2 * j \in 1 .. n - 1  BY <1>1, <3>2, <4>1
      <4>3. all[(2 * j + 1) + 1] = s[2 * j + 1]  BY <1>2, <4>2
      <4>4. Tail(s)[2 * j] = s[2 * j + 1]  BY <1>3, <4>2
      <4>5. QED  BY <3>2, <4>3, <4>4
    <3>5. JoinPairs(all)[i] = rest[j]  BY <1>4, <1>5, <3>1, <3>2, <3>3, <3>4
    <3>6. QED  BY <1>6, <3>1, <3>5
  <2>3. QED  BY <2>1, <2>2
<1>8. JoinPairs(all) = right  BY <1>5, <1>6, <1>7, SameSeq
<1>9. QED  BY <1>8 DEF all, right, rest

-----------------------------------------------------------------------------
\* The recursive functions of the tree are what they are defined to be.

NextLevel(p, k, level)      == JoinPairs(Tail(level))
NextHashLevel(p, k, level)  == HashPairs(level)
NextJoined(steps, k, hash)  == MerkleJoin(hash, steps[k])

OfLevels     == INSTANCE Recursion WITH Step <- NextLevel
OfHashLevels == INSTANCE Recursion WITH Step <- NextHashLevel
OfJoined     == INSTANCE Recursion WITH Step <- NextJoined

LEMMA LevelsHold ==
    ASSUME NEW txs
    PROVE  /\ Levels(txs)[0] = txs
           /\ \A k \in Nat : Levels(txs)[k + 1] =
                 JoinPairs(Tail(Levels(txs)[k]))
<1>1. \E f : OfLevels!IsDefinedBy(f, 0, txs)  BY OfLevels!RecursionExists
<1>2. OfLevels!IsDefinedBy(Levels(txs), 0, txs)
  BY <1>1, Zenon DEF OfLevels!IsDefinedBy, NextLevel, Levels
<1>3. QED  BY <1>2, OfLevels!ValuesFollow DEF NextLevel

LEMMA HashLevelsHold ==
    ASSUME NEW txs
    PROVE  /\ HashLevels(txs)[0] = txs
           /\ \A k \in Nat : HashLevels(txs)[k + 1] =
                 HashPairs(HashLevels(txs)[k])
<1>1. \E f : OfHashLevels!IsDefinedBy(f, 0, txs)  BY OfHashLevels!RecursionExists
<1>2. OfHashLevels!IsDefinedBy(HashLevels(txs), 0, txs)
  BY <1>1, Zenon DEF OfHashLevels!IsDefinedBy, NextHashLevel, HashLevels
<1>3. QED  BY <1>2, OfHashLevels!ValuesFollow DEF NextHashLevel

LEMMA JoinedHold ==
    ASSUME NEW steps, NEW first
    PROVE  /\ Joined(steps, first)[0] = first
           /\ \A k \in Nat : Joined(steps, first)[k + 1] =
                 MerkleJoin(Joined(steps, first)[k], steps[k + 1])
<1>1. \E f : OfJoined!IsDefinedBy(f, steps, first)  BY OfJoined!RecursionExists
<1>2. OfJoined!IsDefinedBy(Joined(steps, first), steps, first)
  BY <1>1, Zenon DEF OfJoined!IsDefinedBy, NextJoined, Joined
<1>3. QED  BY <1>2, OfJoined!ValuesFollow DEF NextJoined

\* The levels get shorter and end.
LEMMA LevelsEnd ==
    ASSUME NEW txs, IsSeq(txs)
    PROVE  \E d \in 0 .. Len(txs) :
              /\ Levels(txs)[d] = <<>>
              /\ \A k \in 0 .. d - 1 : Levels(txs)[k] # <<>>
              /\ \A k \in 0 .. d : IsSeq(Levels(txs)[k])
<1> DEFINE n == Len(txs)
           level == Levels(txs)
           T == {k \in Nat : /\ IsSeq(level[k]) /\ Len(level[k]) + k <= n
                             /\ \A j \in 0 .. k : IsSeq(level[j])
                             /\ \A j \in 0 .. k - 1 : level[j] # <<>>}
<1>1. level[0] = txs /\ \A k \in Nat : level[k + 1] = JoinPairs(Tail(level[k]))
  BY LevelsHold
<1>2. n \in Nat  BY SeqFacts
<1> HIDE DEF level, n
<1>3. 0 \in T  BY <1>1, <1>2 DEF n
<1>4. SUFFICES ASSUME \A k \in T : level[k] # <<>> PROVE FALSE
  <2>1. SUFFICES ASSUME NEW k \in T, level[k] = <<>>
                 PROVE  \E d \in 0 .. n : /\ level[d] = <<>>
                                          /\ \A j \in 0 .. d - 1 : level[j] # <<>>
                                          /\ \A j \in 0 .. d : IsSeq(level[j])
    BY DEF level, n
  <2>2. Len(level[k]) \in Nat /\ k \in Nat  BY SeqFacts
  <2>3. k \in 0 .. n  BY <1>2, <2>2
  <2>4. QED  BY <2>1, <2>3
<1>5. ASSUME NEW k \in T \cap Nat PROVE k + 1 \in T
  <2>1. IsSeq(level[k]) /\ level[k] # <<>> /\ Len(level[k]) + k <= n  BY <1>4
  <2>2. Len(level[k]) \in Nat /\ Len(level[k]) # 0  BY <2>1, SeqFacts
  <2>3. IsSeq(Tail(level[k])) /\ Len(Tail(level[k])) = Len(level[k]) - 1
    BY <2>1, TailFacts
  <2>4. /\ IsSeq(level[k + 1])
        /\ Len(level[k + 1]) = ((Len(level[k]) - 1) + 1) \div 2
    BY <1>1, <2>3, JoinPairsFacts
  <2>5. Len(level[k + 1]) + (k + 1) <= n
    <3>1. \A l \in Nat \ {0} : ((l - 1) + 1) \div 2 <= l - 1  OBVIOUS
    <3>2. Len(level[k + 1]) <= Len(level[k]) - 1  BY <2>2, <2>4, <3>1
    <3>3. Len(level[k + 1]) \in Nat  BY <2>4, SeqFacts
    <3>4. \A a, b, c \in Nat : a <= b - 1 /\ b + c <= n => a + (c + 1) <= n
      BY <1>2
    <3>5. k \in Nat  OBVIOUS
    <3> HIDE DEF T
    <3>6. QED  BY <2>1, <2>2, <3>2, <3>3, <3>4, <3>5
  <2>6. \A j \in 0 .. k + 1 : IsSeq(level[j])
    <3>1. \A j \in 0 .. k + 1 : j \in 0 .. k \/ j = k + 1  OBVIOUS
    <3>2. QED  BY <2>4, <3>1
  <2>7. \A j \in 0 .. (k + 1) - 1 : level[j] # <<>>
    <3>1. \A j \in 0 .. (k + 1) - 1 : j \in 0 .. k - 1 \/ j = k  OBVIOUS
    <3>2. QED  BY <2>1, <3>1
  <2>8. k + 1 \in Nat  OBVIOUS
  <2>9. QED  BY <2>4, <2>5, <2>6, <2>7, <2>8
<1>6. n + 1 \in T
  <2> HIDE DEF T
  <2>1. Nat \subseteq T  BY <1>3, <1>5, OfLevels!Induction
  <2>2. QED  BY <1>2, <2>1
<1>7. Len(level[n + 1]) \in Nat /\ Len(level[n + 1]) + (n + 1) <= n
  BY <1>6, SeqFacts
<1>8. \A a \in Nat : ~(a + (n + 1) <= n)  BY <1>2
<1>9. QED  BY <1>7, <1>8

\* The steps of a tree and the hash a miner has after each of them: with the
\* level beside it, the hash is a level of the daemon's.
LEMMA StepsFollowLevels ==
    ASSUME NEW txs, NEW first, NEW d \in Nat,
           \A k \in 0 .. d - 1 : Levels(txs)[k] # <<>>,
           \A k \in 0 .. d : IsSeq(Levels(txs)[k]),
           NEW steps, \A k \in 1 .. d : steps[k] = Head(Levels(txs)[k - 1])
    PROVE  \A k \in 0 .. d : HashLevels(<<first>> \o txs)[k] =
                                 <<Joined(steps, first)[k]>> \o Levels(txs)[k]
<1> DEFINE level  == Levels(txs)
           hashes == HashLevels(<<first>> \o txs)
           joined == Joined(steps, first)
           T == {k \in Nat : k <= d => hashes[k] = <<joined[k]>> \o level[k]}
<1>1. level[0] = txs /\ \A k \in Nat : level[k + 1] = JoinPairs(Tail(level[k]))
  BY LevelsHold
<1>2. /\ hashes[0] = <<first>> \o txs
      /\ \A k \in Nat : hashes[k + 1] = HashPairs(hashes[k])
  BY HashLevelsHold
<1>3. /\ joined[0] = first
      /\ \A k \in Nat : joined[k + 1] = MerkleJoin(joined[k], steps[k + 1])
  BY JoinedHold
<1>4. /\ \A k \in 0 .. d - 1 : level[k] # <<>>
      /\ \A k \in 0 .. d : IsSeq(level[k])
      /\ \A k \in 1 .. d : steps[k] = Head(level[k - 1])
  OBVIOUS
<1> HIDE DEF level, hashes, joined
<1>5. 0 \in T  BY <1>1, <1>2, <1>3
<1>6. ASSUME NEW k \in T \cap Nat PROVE k + 1 \in T
  <2>1. SUFFICES ASSUME k + 1 <= d
                 PROVE  hashes[k + 1] = <<joined[k + 1]>> \o level[k + 1]
    OBVIOUS
  <2>2. /\ k \in Nat /\ k <= d /\ k \in 0 .. d - 1 /\ k \in 0 .. d
        /\ k + 1 \in 1 .. d /\ (k + 1) - 1 = k
    BY <2>1
  <2>3. hashes[k] = <<joined[k]>> \o level[k]  BY <2>2
  <2>4. IsSeq(level[k]) /\ level[k] # <<>>  BY <1>4, <2>2
  <2>5. IsSeq(hashes[k])  BY <2>3, <2>4, ConsFacts
  <2>6. hashes[k + 1] = JoinPairs(<<joined[k]>> \o level[k])
    BY <1>2, <2>2, <2>3, <2>5, HashPairsIsJoinPairs
  <2>7. hashes[k + 1] = <<MerkleJoin(joined[k], Head(level[k]))>>
                            \o JoinPairs(Tail(level[k]))
    BY <2>4, <2>6, BranchIsJoined
  <2>8. joined[k + 1] = MerkleJoin(joined[k], Head(level[k]))
    BY <1>3, <1>4, <2>2
  <2>9. QED  BY <1>1, <2>2, <2>7, <2>8
<1> HIDE DEF T
<1>7. Nat \subseteq T  BY <1>5, <1>6, OfLevels!Induction
<1>8. \A k \in 0 .. d : k \in Nat /\ k <= d  OBVIOUS
<1>9. \A k \in T : k <= d => hashes[k] = <<joined[k]>> \o level[k]  BY DEF T
<1>10. \A k \in 0 .. d : hashes[k] = <<joined[k]>> \o level[k]
  BY <1>7, <1>8, <1>9
<1>11. QED  BY <1>10 DEF level, hashes, joined

\* What the steps of a tree are made of: the heads of its levels, the last of
\* which is empty.
LEMMA StepsAreHeads ==
    ASSUME NEW txs, IsSeq(txs)
    PROVE  \E d \in 0 .. Len(txs) :
              /\ Levels(txs)[d] = <<>>
              /\ \A k \in 0 .. d - 1 : Levels(txs)[k] # <<>>
              /\ \A k \in 0 .. d : IsSeq(Levels(txs)[k])
              /\ IsSeq(Steps(txs)) /\ Len(Steps(txs)) = d
              /\ \A k \in 1 .. d : Steps(txs)[k] = Head(Levels(txs)[k - 1])
<1> DEFINE level == Levels(txs)
           steps == Steps(txs)
<1>1. PICK d \in 0 .. Len(txs) :
         /\ level[d] = <<>>
         /\ \A k \in 0 .. d - 1 : level[k] # <<>>
         /\ \A k \in 0 .. d : IsSeq(level[k])
  BY LevelsEnd
<1>2. Len(txs) \in Nat /\ d \in Nat  BY SeqFacts
<1> HIDE DEF level
<1>3. steps = [k \in 1 .. d |-> Head(level[k - 1])]
  <2> DEFINE IsDepth(k) == level[k] = <<>> /\ \A j \in 0 .. k - 1 : level[j] # <<>>
  <2>1. \A k \in 0 .. Len(txs) : IsDepth(k) => k = d
    <3>1. \A k \in 0 .. Len(txs) : k < d => k \in 0 .. d - 1
      BY <1>2
    <3>2. \A k \in 0 .. Len(txs) : d < k => d \in 0 .. k - 1
      BY <1>2
    <3>3. \A k \in 0 .. Len(txs) : k < d \/ d < k \/ k = d  BY <1>2
    <3>4. QED  BY <1>1, <3>1, <3>2, <3>3
  <2>2. IsDepth(d)  BY <1>1
  <2> HIDE DEF IsDepth
  <2>3. (CHOOSE k \in 0 .. Len(txs) : IsDepth(k)) = d  BY <2>1, <2>2
  <2>4. QED  BY <2>3, Zenon DEF IsDepth, Steps, level
<1> HIDE DEF steps
<1>4. \A k \in 1 .. d : steps[k] = Head(level[k - 1])  BY <1>3
<1>5. IsSeq(steps) /\ Len(steps) = d
  BY <1>2, <1>3, MakeSeq
<1>6. QED  BY <1>1, <1>4, <1>5 DEF level, steps

\* A miner that joins the hash of its coinbase to the steps it was given one
\* by one (withFirst) has the Merkle root the daemon computes of the block,
\* however many transactions it has.
THEOREM WithFirstIsMerkleRoot ==
    ASSUME NEW txs, IsSeq(txs), NEW first
    PROVE  WithFirst(Steps(txs), first) = MerkleRoot(<<first>> \o txs)
<1> DEFINE level  == Levels(txs)
           all    == <<first>> \o txs
           hashes == HashLevels(all)
           steps  == Steps(txs)
           joined == Joined(steps, first)
<1>1. PICK d \in 0 .. Len(txs) :
         /\ level[d] = <<>>
         /\ \A k \in 0 .. d - 1 : level[k] # <<>>
         /\ \A k \in 0 .. d : IsSeq(level[k])
         /\ IsSeq(steps) /\ Len(steps) = d
         /\ \A k \in 1 .. d : steps[k] = Head(level[k - 1])
  BY StepsAreHeads
<1>2. Len(txs) \in Nat /\ d \in Nat  BY SeqFacts
<1> HIDE DEF level, steps
<1>3. \A k \in 0 .. d : hashes[k] = <<joined[k]>> \o level[k]
  <2>1. /\ \A k \in 0 .. d - 1 : level[k] # <<>>
        /\ \A k \in 0 .. d : IsSeq(level[k])
        /\ \A k \in 1 .. d : steps[k] = Head(level[k - 1])
    BY <1>1
  <2>2. QED  BY <1>2, <2>1, StepsFollowLevels DEF level
<1>4. Len(all) = Len(txs) + 1  BY ConsFacts
<1> HIDE DEF all, hashes, joined
<1>5. Len(hashes[d]) = 1 /\ hashes[d][1] = joined[d] /\ IsSeq(hashes[d])
  <2>1. hashes[d] = <<joined[d]>> \o level[d]  BY <1>2, <1>3
  <2>2. IsSeq(level[d]) /\ Len(level[d]) = 0  BY <1>1, <1>2, SeqFacts
  <2>3. QED  BY <2>1, <2>2, ConsFacts
<1>6. ASSUME NEW k \in 0 .. d - 1 PROVE Len(hashes[k]) # 1
  <2>1. k \in 0 .. d  BY <1>2
  <2>2. IsSeq(level[k]) /\ level[k] # <<>>  BY <1>1, <2>1
  <2>3. Len(level[k]) \in Nat /\ Len(level[k]) # 0  BY <2>2, SeqFacts
  <2>4. Len(hashes[k]) = Len(level[k]) + 1
    <3>1. hashes[k] = <<joined[k]>> \o level[k]  BY <1>3, <2>1
    <3>2. QED  BY <2>2, <3>1, ConsFacts
  <2>5. QED  BY <2>3, <2>4
<1>7. MerkleRoot(all) = Head(hashes[d])
  <2> DEFINE IsTop(k) == /\ Len(hashes[k]) = 1
                         /\ \A j \in 0 .. k - 1 : Len(hashes[j]) # 1
  <2>1. \A k \in 0 .. Len(all) : IsTop(k) => k = d
    <3>1. \A k \in 0 .. Len(all) : k < d => k \in 0 .. d - 1
      BY <1>2, <1>4
    <3>2. \A k \in 0 .. Len(all) : d < k => d \in 0 .. k - 1
      BY <1>2, <1>4
    <3>3. \A k \in 0 .. Len(all) : k < d \/ d < k \/ k = d  BY <1>2, <1>4
    <3>4. QED  BY <1>5, <1>6, <3>1, <3>2, <3>3
  <2>2. IsTop(d) /\ d \in 0 .. Len(all)  BY <1>2, <1>4, <1>5, <1>6
  <2> HIDE DEF IsTop
  <2>3. (CHOOSE k \in 0 .. Len(all) : IsTop(k)) = d  BY <2>1, <2>2
  <2>4. QED  BY <2>3, Zenon DEF IsTop, MerkleRoot, hashes
<1>8. WithFirst(steps, first) = joined[d]  BY <1>1 DEF WithFirst, joined
<1>9. Head(hashes[d]) = joined[d]
  <2>1. hashes[d] # <<>>  BY <1>5, SeqFacts
  <2>2. QED  BY <1>5, <2>1, TailFacts
<1>10. QED  BY <1>7, <1>8, <1>9 DEF all, steps

\* The next level of hashes that differ has hashes that differ.
LEMMA PairsHold ==
    ASSUME NEW s, IsSeq(s)
    PROVE  /\ Len(JoinPairs(s)) = (Len(s) + 1) \div 2
           /\ \A i \in 1 .. (Len(s) + 1) \div 2 :
                 /\ JoinPairs(s)[i].left = s[2 * i - 1]
                 /\ JoinPairs(s)[i].right = IF 2 * i <= Len(s) THEN s[2 * i]
                                                              ELSE s[2 * i - 1]
<1>1. \A a, b : MerkleJoin(a, b).left = a /\ MerkleJoin(a, b).right = b
  BY DEF MerkleJoin
<1>2. QED  BY <1>1, JoinPairsFacts

LEMMA JoinedDiffer ==
    ASSUME NEW s, IsSeq(s), IsInjective(s)
    PROVE  IsInjective(JoinPairs(s))
<1> DEFINE n == (Len(s) + 1) \div 2
<1>1. Len(s) \in Nat /\ DOMAIN s = 1 .. Len(s) /\ n \in Nat  BY SeqFacts
<1>2. /\ DOMAIN JoinPairs(s) = 1 .. n
      /\ \A i \in 1 .. n : JoinPairs(s)[i].left = s[2 * i - 1]
  BY PairsHold, JoinPairsFacts, SeqFacts
<1>3. \A i \in 1 .. n : 2 * i - 1 \in 1 .. Len(s)  BY <1>1
<1>4. \A i, j \in 1 .. n : 2 * i - 1 = 2 * j - 1 => i = j  BY <1>1
<1> HIDE DEF n
<1>5. ASSUME NEW i \in 1 .. n, NEW j \in 1 .. n,
             JoinPairs(s)[i] = JoinPairs(s)[j]
      PROVE  i = j
  <2>1. s[2 * i - 1] = s[2 * j - 1]  BY <1>2, <1>5
  <2>2. QED  BY <1>1, <1>3, <1>4, <2>1 DEF IsInjective
<1>6. QED  BY <1>2, <1>5 DEF IsInjective

LEMMA TailDiffers ==
    ASSUME NEW s, IsSeq(s), s # <<>>, IsInjective(s)
    PROVE  IsInjective(Tail(s))
<1>1. /\ Len(s) \in Nat /\ DOMAIN s = 1 .. Len(s)
      /\ DOMAIN Tail(s) = 1 .. Len(s) - 1
      /\ \A i \in 1 .. Len(s) - 1 : Tail(s)[i] = s[i + 1]
  BY SeqFacts, TailFacts
<1>2. \A i \in 1 .. Len(s) - 1 : i + 1 \in 1 .. Len(s)  BY <1>1
<1>3. \A i, j \in 1 .. Len(s) - 1 : i + 1 = j + 1 => i = j  BY <1>1
<1>4. QED  BY <1>1, <1>2, <1>3 DEF IsInjective

\* Of hashes that differ, the next level tells which they are.  Of others it
\* does not: the last may stand there once or twice.
LEMMA JoinPairsTells ==
    ASSUME NEW s, NEW t, IsSeq(s), IsSeq(t), IsInjective(s), IsInjective(t),
           JoinPairs(s) = JoinPairs(t)
    PROVE  s = t
<1> DEFINE n == (Len(s) + 1) \div 2
           other(q, i) == IF 2 * i <= Len(q) THEN q[2 * i] ELSE q[2 * i - 1]
<1>1. /\ Len(s) \in Nat /\ Len(t) \in Nat /\ n \in Nat
      /\ DOMAIN s = 1 .. Len(s) /\ DOMAIN t = 1 .. Len(t)
  BY SeqFacts
<1>2. /\ Len(JoinPairs(s)) = n
      /\ \A i \in 1 .. n : /\ JoinPairs(s)[i].left = s[2 * i - 1]
                           /\ JoinPairs(s)[i].right = other(s, i)
  BY PairsHold
<1>3. /\ Len(JoinPairs(t)) = (Len(t) + 1) \div 2
      /\ \A i \in 1 .. (Len(t) + 1) \div 2 :
            /\ JoinPairs(t)[i].left = t[2 * i - 1]
            /\ JoinPairs(t)[i].right = other(t, i)
  BY PairsHold
<1>4. (Len(t) + 1) \div 2 = n
  <2> HIDE DEF n, other
  <2>1. QED  BY <1>2, <1>3
<1>5. \A i \in 1 .. n : s[2 * i - 1] = t[2 * i - 1] /\ other(s, i) = other(t, i)
  BY <1>2, <1>3, <1>4
<1>6. ASSUME NEW p, NEW q, Len(p) \in Nat, Len(q) \in Nat,
             DOMAIN q = 1 .. Len(q), IsInjective(q),
             (Len(p) + 1) \div 2 = n, (Len(q) + 1) \div 2 = n,
             \A i \in 1 .. n : p[2 * i - 1] = q[2 * i - 1]
                               /\ other(p, i) = other(q, i)
      PROVE  ~ (Len(p) < Len(q))
  <2>1. SUFFICES ASSUME Len(p) < Len(q) PROVE FALSE  OBVIOUS
  <2>2. /\ n \in 1 .. n /\ ~(2 * n <= Len(p)) /\ 2 * n <= Len(q)
        /\ 2 * n - 1 \in 1 .. Len(q) /\ 2 * n \in 1 .. Len(q)
        /\ 2 * n # 2 * n - 1
    BY <1>1, <1>6, <2>1
  <2>3. p[2 * n - 1] = q[2 * n]  BY <1>6, <2>2
  <2>4. q[2 * n - 1] = q[2 * n]  BY <1>6, <2>2, <2>3
  <2>5. QED  BY <1>6, <2>2, <2>4 DEF IsInjective
<1>7. Len(s) = Len(t)
  <2>1. ~ (Len(s) < Len(t))  BY <1>1, <1>4, <1>5, <1>6
  <2>2. ~ (Len(t) < Len(s))  BY <1>1, <1>4, <1>5, <1>6
  <2>3. \A i, j \in Nat : ~(i < j) /\ ~(j < i) => i = j  OBVIOUS
  <2>4. QED  BY <1>1, <2>1, <2>2, <2>3
<1>8. ASSUME NEW i \in 1 .. Len(s) PROVE s[i] = t[i]
  <2>1. CASE i % 2 = 1
    <3>1. (i + 1) \div 2 \in 1 .. n /\ 2 * ((i + 1) \div 2) - 1 = i
      BY <1>1, <2>1
    <3>2. QED  BY <1>5, <3>1
  <2>2. CASE i % 2 # 1
    <3>1. /\ i \div 2 \in 1 .. n /\ 2 * (i \div 2) = i
          /\ 2 * (i \div 2) <= Len(s)
      BY <1>1, <2>2
    <3>2. QED  BY <1>5, <1>7, <3>1
  <2>3. QED  BY <2>1, <2>2
<1>9. QED  BY <1>7, <1>8, SameSeq

\* The hashes of each level differ if those of the transactions do.
LEMMA LevelsDiffer ==
    ASSUME NEW txs, IsSeq(txs), IsInjective(txs), NEW d \in Nat,
           \A k \in 0 .. d - 1 : Levels(txs)[k] # <<>>,
           \A k \in 0 .. d : IsSeq(Levels(txs)[k])
    PROVE  \A k \in 0 .. d : IsInjective(Levels(txs)[k])
<1> DEFINE level == Levels(txs)
           T     == {k \in Nat : k <= d => IsInjective(level[k])}
<1>1. level[0] = txs /\ \A k \in Nat : level[k + 1] = JoinPairs(Tail(level[k]))
  BY LevelsHold
<1>2. /\ \A k \in 0 .. d - 1 : level[k] # <<>>
      /\ \A k \in 0 .. d : IsSeq(level[k])
  OBVIOUS
<1> HIDE DEF level
<1>3. 0 \in T  BY <1>1
<1>4. ASSUME NEW k \in T \cap Nat PROVE k + 1 \in T
  <2>1. SUFFICES ASSUME k + 1 <= d PROVE IsInjective(level[k + 1])
    OBVIOUS
  <2>2. k \in Nat /\ k <= d /\ k \in 0 .. d - 1 /\ k \in 0 .. d  BY <2>1
  <2>3. IsInjective(level[k]) /\ IsSeq(level[k]) /\ level[k] # <<>>
    BY <1>2, <2>2
  <2>4. IsSeq(Tail(level[k])) /\ IsInjective(Tail(level[k]))
    BY <2>3, TailFacts, TailDiffers
  <2>5. QED  BY <1>1, <2>2, <2>4, JoinedDiffer
<1> HIDE DEF T
<1>5. Nat \subseteq T  BY <1>3, <1>4, OfLevels!Induction
<1>6. \A k \in 0 .. d : k \in Nat /\ k <= d  OBVIOUS
<1>7. \A k \in T : k <= d => IsInjective(level[k])  BY DEF T
<1>8. QED  BY <1>5, <1>6, <1>7 DEF level

LEMMA HeadAndTail ==
    ASSUME NEW s, NEW t, IsSeq(s), IsSeq(t), s # <<>>, t # <<>>,
           Head(s) = Head(t), Tail(s) = Tail(t)
    PROVE  s = t
<1>1. /\ Len(s) \in Nat /\ Len(Tail(s)) = Len(s) - 1 /\ Head(s) = s[1]
      /\ \A i \in 1 .. Len(s) - 1 : Tail(s)[i] = s[i + 1]
  BY SeqFacts, TailFacts
<1>2. /\ Len(t) \in Nat /\ Len(Tail(t)) = Len(t) - 1 /\ Head(t) = t[1]
      /\ \A i \in 1 .. Len(t) - 1 : Tail(t)[i] = t[i + 1]
  BY SeqFacts, TailFacts
<1>3. Len(s) = Len(t)
  <2>1. \A m, n \in Nat : m - 1 = n - 1 => m = n  OBVIOUS
  <2>2. QED  BY <1>1, <1>2, <2>1
<1>4. ASSUME NEW i \in 1 .. Len(s) PROVE s[i] = t[i]
  <2>1. CASE i = 1  BY <1>1, <1>2, <2>1
  <2>2. CASE i # 1
    <3>1. i - 1 \in 1 .. Len(s) - 1 /\ (i - 1) + 1 = i  BY <1>1, <2>2
    <3>2. QED  BY <1>1, <1>2, <1>3, <3>1
  <2>3. QED  BY <2>1, <2>2
<1>5. QED  BY <1>3, <1>4, SameSeq

\* The steps a miner is given tell what transactions a block has, and in which
\* order.
THEOREM StepsTellTransactions ==
    ASSUME NEW txs, NEW other, IsSeq(txs), IsSeq(other),
           IsInjective(txs), IsInjective(other), Steps(txs) = Steps(other)
    PROVE  txs = other
<1> DEFINE a == Levels(txs)
           b == Levels(other)
<1>1. PICK d \in 0 .. Len(txs) :
         /\ a[d] = <<>>
         /\ \A k \in 0 .. d - 1 : a[k] # <<>>
         /\ \A k \in 0 .. d : IsSeq(a[k])
         /\ IsSeq(Steps(txs)) /\ Len(Steps(txs)) = d
         /\ \A k \in 1 .. d : Steps(txs)[k] = Head(a[k - 1])
  BY StepsAreHeads
<1>2. PICK e \in 0 .. Len(other) :
         /\ b[e] = <<>>
         /\ \A k \in 0 .. e - 1 : b[k] # <<>>
         /\ \A k \in 0 .. e : IsSeq(b[k])
         /\ IsSeq(Steps(other)) /\ Len(Steps(other)) = e
         /\ \A k \in 1 .. e : Steps(other)[k] = Head(b[k - 1])
  BY StepsAreHeads
<1>3. e = d /\ d \in Nat /\ \A k \in 1 .. d : Head(a[k - 1]) = Head(b[k - 1])
  <2>1. Len(txs) \in Nat  BY SeqFacts
  <2>2. d \in Nat /\ e = d  BY <1>1, <1>2, <2>1
  <2>3. \A k \in 1 .. d : Steps(txs)[k] = Head(a[k - 1])  BY <1>1
  <2>4. \A k \in 1 .. d : Steps(txs)[k] = Head(b[k - 1])  BY <1>2, <2>2
  <2> HIDE DEF a, b
  <2>5. QED  BY <2>2, <2>3, <2>4
<1>4. /\ \A k \in 0 .. d : IsInjective(a[k])
      /\ \A k \in 0 .. d : IsInjective(b[k])
  BY <1>1, <1>2, <1>3, LevelsDiffer
<1>5. /\ a[0] = txs /\ \A k \in Nat : a[k + 1] = JoinPairs(Tail(a[k]))
      /\ b[0] = other /\ \A k \in Nat : b[k + 1] = JoinPairs(Tail(b[k]))
  BY LevelsHold
<1> HIDE DEF a, b
<1> DEFINE T == {k \in Nat : k <= d => a[d - k] = b[d - k]}
<1>6. 0 \in T
  <2>1. d - 0 = d  BY <1>3
  <2>2. QED  BY <1>1, <1>2, <1>3, <2>1
<1>7. ASSUME NEW k \in T \cap Nat PROVE k + 1 \in T
  <2> DEFINE l == d - (k + 1)
  <2>1. SUFFICES ASSUME k + 1 <= d PROVE a[l] = b[l]
    OBVIOUS
  <2>2. /\ k <= d /\ d - k = l + 1 /\ l \in Nat /\ l \in 0 .. d - 1
        /\ l \in 0 .. d /\ l + 1 \in 1 .. d /\ (l + 1) - 1 = l
    BY <1>3, <2>1
  <2>3. a[l + 1] = b[l + 1]  BY <2>2
  <2> HIDE DEF l, T
  <2>4. JoinPairs(Tail(a[l])) = JoinPairs(Tail(b[l]))  BY <1>5, <2>2, <2>3
  <2>5. /\ IsSeq(a[l]) /\ a[l] # <<>> /\ IsInjective(a[l])
        /\ IsSeq(b[l]) /\ b[l] # <<>> /\ IsInjective(b[l])
    BY <1>1, <1>2, <1>3, <1>4, <2>2
  <2>6. /\ IsSeq(Tail(a[l])) /\ IsInjective(Tail(a[l]))
        /\ IsSeq(Tail(b[l])) /\ IsInjective(Tail(b[l]))
    BY <2>5, TailFacts, TailDiffers
  <2>7. Tail(a[l]) = Tail(b[l])  BY <2>4, <2>6, JoinPairsTells
  <2>8. Head(a[l]) = Head(b[l])  BY <1>3, <2>2
  <2>9. QED  BY <2>5, <2>7, <2>8, HeadAndTail
<1>8. d \in T
  <2> HIDE DEF T
  <2>1. Nat \subseteq T  BY <1>6, <1>7, OfLevels!Induction
  <2>2. QED  BY <1>3, <2>1
<1>9. d <= d /\ d - d = 0  BY <1>3
<1>10. QED  BY <1>5, <1>8, <1>9

\* What is no joined hash is told by the root, and the steps to it, from
\* anything else of the kind.
LEMMA ShorterIsTold ==
    ASSUME NEW s, NEW t, IsSeq(s), IsSeq(t), Len(s) <= Len(t),
           NEW first, \A x, y : first # MerkleJoin(x, y),
           NEW other, WithFirst(s, first) = WithFirst(t, other)
    PROVE  s = t /\ first = other
<1> DEFINE a == Joined(s, first)
           b == Joined(t, other)
           m == Len(s)
           n == Len(t)
           T == {k \in Nat : k <= m => a[m - k] = b[n - k]}
<1>1. /\ a[0] = first /\ \A k \in Nat : a[k + 1] = MerkleJoin(a[k], s[k + 1])
      /\ b[0] = other /\ \A k \in Nat : b[k + 1] = MerkleJoin(b[k], t[k + 1])
  BY JoinedHold
<1>2. m \in Nat /\ n \in Nat /\ m <= n /\ a[m] = b[n]
  BY SeqFacts DEF WithFirst
<1>3. \A x, y : MerkleJoin(x, y).left = x /\ MerkleJoin(x, y).right = y
  BY DEF MerkleJoin
<1> HIDE DEF a, b, m, n
<1>4. 0 \in T
  <2>1. m - 0 = m /\ n - 0 = n  BY <1>2
  <2>2. QED  BY <1>2, <2>1
<1>5. ASSUME NEW k \in T \cap Nat PROVE k + 1 \in T
  <2> DEFINE i == m - (k + 1)
             j == n - (k + 1)
  <2>1. SUFFICES ASSUME k + 1 <= m PROVE a[i] = b[j]
    OBVIOUS
  <2>2. /\ i \in Nat /\ j \in Nat /\ m - k = i + 1 /\ n - k = j + 1 /\ k <= m
    BY <1>2, <2>1
  <2>3. a[i + 1] = b[j + 1]  BY <2>2
  <2> HIDE DEF i, j, T
  <2>4. a[i + 1].left = a[i] /\ b[j + 1].left = b[j]
    <3>1. /\ a[i + 1] = MerkleJoin(a[i], s[i + 1])
          /\ b[j + 1] = MerkleJoin(b[j], t[j + 1])
      BY <1>1, <2>2
    <3>2. QED  BY <1>3, <3>1
  <2>5. QED  BY <2>3, <2>4
<1>6. Nat \subseteq T
  <2> HIDE DEF T
  <2>1. QED  BY <1>4, <1>5, OfLevels!Induction
<1>7. n = m
  <2>1. SUFFICES ASSUME n # m PROVE FALSE  OBVIOUS
  <2>2. /\ m \in T /\ m <= m /\ m - m = 0
        /\ (n - m) - 1 \in Nat /\ ((n - m) - 1) + 1 = n - m
    BY <1>2, <1>6, <2>1
  <2>3. first = b[n - m]  BY <1>1, <2>2
  <2>4. b[n - m] = MerkleJoin(b[(n - m) - 1], t[n - m])  BY <1>1, <2>2
  <2>5. QED  BY <2>3, <2>4
<1>8. \A k \in 0 .. m : a[k] = b[k]
  <2>1. SUFFICES ASSUME NEW k \in 0 .. m PROVE a[k] = b[k]  OBVIOUS
  <2>2. m - k \in Nat /\ m - k <= m /\ m - (m - k) = k  BY <1>2
  <2>3. m - k \in T  BY <1>6, <2>2
  <2>4. QED  BY <1>7, <2>2, <2>3
<1>9. ASSUME NEW k \in 1 .. m PROVE s[k] = t[k]
  <2>1. k - 1 \in Nat /\ (k - 1) + 1 = k /\ k \in 0 .. m  BY <1>2
  <2>2. a[k] = b[k]  BY <1>8, <2>1
  <2>3. a[k].right = s[k] /\ b[k].right = t[k]
    <3>1. /\ a[k] = MerkleJoin(a[k - 1], s[k])
          /\ b[k] = MerkleJoin(b[k - 1], t[k])
      BY <1>1, <2>1
    <3>2. QED  BY <1>3, <3>1
  <2>4. QED  BY <2>2, <2>3
<1>10. s = t  BY <1>7, <1>9, SameSeq DEF m, n
<1>11. first = other
  <2>1. 0 \in 0 .. m  BY <1>2
  <2>2. QED  BY <1>1, <1>8, <2>1
<1>12. QED  BY <1>10, <1>11

\* Blocks have the same Merkle root only where they have the same coinbase and
\* the same steps.
LEMMA RootTells ==
    ASSUME NEW s, NEW t, IsSeq(s), IsSeq(t), NEW c, NEW e,
           WithFirst(s, CoinbaseHash(c)) = WithFirst(t, CoinbaseHash(e))
    PROVE  s = t /\ c = e
<1>1. \A v, x, y : CoinbaseHash(v) # MerkleJoin(x, y)
  <2>1. SUFFICES ASSUME NEW v, NEW x, NEW y, CoinbaseHash(v) = MerkleJoin(x, y)
                 PROVE  FALSE
    OBVIOUS
  <2>2. /\ DOMAIN CoinbaseHash(v) = {"coinbase"}
        /\ DOMAIN MerkleJoin(x, y) = {"left", "right"}
    BY DEF CoinbaseHash, MerkleJoin
  <2>3. QED  BY <2>1, <2>2
<1>2. CoinbaseHash(c).coinbase = c /\ CoinbaseHash(e).coinbase = e
  BY DEF CoinbaseHash
<1>3. s = t /\ CoinbaseHash(c) = CoinbaseHash(e)
  <2>1. CASE Len(s) <= Len(t)  BY <1>1, <2>1, ShorterIsTold
  <2>2. CASE Len(t) <= Len(s)
    <3>1. t = s /\ CoinbaseHash(e) = CoinbaseHash(c)
      BY <1>1, <2>2, ShorterIsTold
    <3>2. QED  BY <3>1
  <2>3. Len(s) \in Nat /\ Len(t) \in Nat  BY SeqFacts
  <2>4. QED  BY <2>1, <2>2, <2>3
<1>4. QED  BY <1>2, <1>3

-----------------------------------------------------------------------------
\* Bytes.

NextShifted(p, k, n) == n \div 256

OfShifted == INSTANCE Recursion WITH Step <- NextShifted

LEMMA ShiftedHold ==
    ASSUME NEW n
    PROVE  /\ Shifted(n)[0] = n
           /\ \A k \in Nat : Shifted(n)[k + 1] = Shifted(n)[k] \div 256
<1>1. \E f : OfShifted!IsDefinedBy(f, 0, n)  BY OfShifted!RecursionExists
<1>2. OfShifted!IsDefinedBy(Shifted(n), 0, n)
  BY <1>1, Zenon DEF OfShifted!IsDefinedBy, NextShifted, Shifted
<1>3. QED  BY <1>2, OfShifted!ValuesFollow DEF NextShifted

LEMMA ShiftedIsInt ==
    ASSUME NEW n \in Int
    PROVE  \A k \in Nat : Shifted(n)[k] \in Int
<1> DEFINE T == {k \in Nat : Shifted(n)[k] \in Int}
<1>1. 0 \in T  BY ShiftedHold
<1>2. ASSUME NEW k \in T \cap Nat PROVE k + 1 \in T
  <2>1. Shifted(n)[k + 1] = Shifted(n)[k] \div 256  BY ShiftedHold
  <2>2. Shifted(n)[k] \in Int  OBVIOUS
  <2>3. QED  BY <2>1, <2>2
<1> HIDE DEF T
<1>3. Nat \subseteq T  BY <1>1, <1>2, OfShifted!Induction
<1>4. QED  BY <1>3 DEF T

LEMMA PackLEIsBytes ==
    ASSUME NEW n \in Int, NEW size \in Nat
    PROVE  PackLE(n, size) \in Seq(Byte) /\ Len(PackLE(n, size)) = size
<1>1. ASSUME NEW i \in 1 .. size PROVE Shifted(n)[i - 1] % 256 \in Byte
  <2>1. i - 1 \in Nat  OBVIOUS
  <2>2. Shifted(n)[i - 1] \in Int  BY <2>1, ShiftedIsInt
  <2>3. QED  BY <2>2 DEF Byte
<1>2. PackLE(n, size) \in [1 .. size -> Byte]  BY <1>1 DEF PackLE
<1>3. PackLE(n, size) \in Seq(Byte)  BY <1>2, SeqDef
<1>4. /\ Len(PackLE(n, size)) \in Nat
      /\ 1 .. Len(PackLE(n, size)) = 1 .. size
  BY <1>2, <1>3, LenProperties
<1>5. Len(PackLE(n, size)) = size  BY <1>4
<1>6. QED  BY <1>3, <1>5

LEMMA ByteIsBytes ==
    ASSUME NEW b \in Byte
    PROVE  <<b>> \in Seq(Byte) /\ Len(<<b>>) = 1
OBVIOUS

LEMMA TwoParts ==
    ASSUME NEW s \in Seq(Byte), NEW t \in Seq(Byte)
    PROVE  s \o t \in Seq(Byte) /\ Len(s \o t) = Len(s) + Len(t)
BY ConcatProperties

LEMMA PackVarIntIsBytes ==
    ASSUME NEW n \in Nat
    PROVE  PackVarInt(n) \in Seq(Byte)
<1>1. CASE n < 253
  <2>1. n \in Byte  BY <1>1 DEF Byte
  <2>2. QED  BY <1>1, <2>1, ByteIsBytes DEF PackVarInt
<1>2. CASE ~(n < 253)
  <2>1. 253 \in Byte /\ 254 \in Byte  BY DEF Byte
  <2>2. /\ <<253>> \o PackLE(n, 2) \in Seq(Byte)
        /\ <<254>> \o PackLE(n, 4) \in Seq(Byte)
    BY <2>1, ByteIsBytes, PackLEIsBytes, TwoParts
  <2>3. QED  BY <1>2, <2>2 DEF PackVarInt
<1>3. QED  BY <1>1, <1>2

LEMMA MaxInt32Is == MaxInt32 \in Nat /\ MaxInt32 < 128 * 256 * 256 * 256
BY SMT DEF MaxInt32

\* What is said in SizeOf of the size.
IsSizeOf(size, n) ==
    /\ Shifted(n)[size - 1] <= 127
    /\ \A k \in 1 .. size - 1 : Shifted(n)[k - 1] > 127

LEMMA SizeExists ==
    ASSUME NEW n \in 0 .. MaxInt32
    PROVE  \E size \in 1 .. 4 : IsSizeOf(size, n)
<1> DEFINE s == Shifted(n)
<1>1. s[0] = n /\ s[0 + 1] = s[0] \div 256 /\ s[1 + 1] = s[1] \div 256
                /\ s[2 + 1] = s[2] \div 256
  BY ShiftedHold
<1> HIDE DEF s
<1>2. s[0] \in Nat /\ s[1] \in Nat /\ s[2] \in Nat /\ s[3] \in Nat /\ s[3] <= 127
  <2>1. \A m \in Nat : m \div 256 \in Nat /\ 256 * (m \div 256) <= m
    BY SMT
  <2>2. n \in Nat /\ n < 128 * 256 * 256 * 256  BY MaxInt32Is, SMT
  <2>3. s[0] \in Nat /\ s[1] \in Nat /\ s[2] \in Nat /\ s[3] \in Nat
    BY <1>1, <2>1, <2>2, SMT
  <2>4. 256 * s[1] <= s[0] /\ 256 * s[2] <= s[1] /\ 256 * s[3] <= s[2]
    BY <1>1, <2>1, <2>3, SMT
  <2>5. s[3] <= 127  BY <1>1, <2>2, <2>3, <2>4, SMT
  <2>6. QED  BY <2>3, <2>5
<1>3. CASE s[0] <= 127
  <2>1. IsSizeOf(1, n)  BY <1>3 DEF IsSizeOf, s
  <2>2. QED  BY <2>1
<1>4. CASE s[0] > 127 /\ s[1] <= 127
  <2>1. IsSizeOf(2, n)  BY <1>4 DEF IsSizeOf, s
  <2>2. QED  BY <2>1
<1>5. CASE s[0] > 127 /\ s[1] > 127 /\ s[2] <= 127
  <2>1. \A k \in 1 .. 3 - 1 : k = 1 \/ k = 2  OBVIOUS
  <2>2. IsSizeOf(3, n)  BY <1>5, <2>1 DEF IsSizeOf, s
  <2>3. QED  BY <2>2
<1>6. CASE s[0] > 127 /\ s[1] > 127 /\ s[2] > 127
  <2>1. \A k \in 1 .. 4 - 1 : k = 1 \/ k = 2 \/ k = 3  OBVIOUS
  <2>2. IsSizeOf(4, n)  BY <1>2, <1>6, <2>1 DEF IsSizeOf, s
  <2>3. QED  BY <2>2
<1>7. QED  BY <1>2, <1>3, <1>4, <1>5, <1>6

LEMMA SizeOfNumber ==
    ASSUME NEW n \in 0 .. MaxInt32
    PROVE  SizeOf(n) \in 1 .. 4 /\ IsSizeOf(SizeOf(n), n)
<1>1. SizeOf(n) = CHOOSE size \in 1 .. 4 : IsSizeOf(size, n)
  BY DEF SizeOf, IsSizeOf
<1>2. QED  BY <1>1, SizeExists

LEMMA SerializeNumberIsBytes ==
    ASSUME NEW n \in 0 .. MaxInt32
    PROVE  /\ SerializeNumber(n) \in Seq(Byte)
           /\ Len(SerializeNumber(n)) \in 1 .. 5
<1>1. CASE n \in 1 .. 16
  <2>1. 80 + n \in Byte  BY <1>1 DEF Byte
  <2>2. SerializeNumber(n) = <<80 + n>>  BY <1>1 DEF SerializeNumber
  <2>3. QED  BY <2>1, <2>2, ByteIsBytes
<1>2. CASE n \notin 1 .. 16
  <2>1. SizeOf(n) \in 1 .. 4 /\ SizeOf(n) \in Byte /\ SizeOf(n) \in Nat
    BY SizeOfNumber DEF Byte
  <2>2. n \in Int  OBVIOUS
  <2>3. SerializeNumber(n) = <<SizeOf(n)>> \o PackLE(n, SizeOf(n))
    BY <1>2 DEF SerializeNumber
  <2>4. /\ SerializeNumber(n) \in Seq(Byte)
        /\ Len(SerializeNumber(n)) = 1 + SizeOf(n)
    BY <2>1, <2>2, <2>3, ByteIsBytes, PackLEIsBytes, TwoParts
  <2>5. QED  BY <2>1, <2>4
<1>3. QED  BY <1>1, <1>2

LEMMA SerializeStringIsBytes ==
    ASSUME NEW s \in Seq(Byte)
    PROVE  /\ SerializeString(s) \in Seq(Byte)
           /\ Len(s) < 253 => Len(SerializeString(s)) = Len(s) + 1
<1>1. Len(s) \in Nat  BY LenProperties
<1>2. CASE Len(s) < 253
  <2>1. Len(s) \in Byte
    <3>1. \A n \in Nat : n < 253 => n \in Byte  BY DEF Byte
    <3>2. QED  BY <1>1, <1>2, <3>1
  <2>2. SerializeString(s) = <<Len(s)>> \o s  BY <1>2 DEF SerializeString
  <2>3. QED  BY <1>1, <2>1, <2>2, ByteIsBytes, TwoParts
<1>3. CASE ~(Len(s) < 253)
  <2>1. 253 \in Byte  BY DEF Byte
  <2>2. <<253>> \o PackLE(Len(s), 2) \in Seq(Byte)
    BY <1>1, <2>1, ByteIsBytes, PackLEIsBytes, TwoParts
  <2>3. (<<253>> \o PackLE(Len(s), 2)) \o s \in Seq(Byte)  BY <2>2, TwoParts
  <2>4. SerializeString(s) = (<<253>> \o PackLE(Len(s), 2)) \o s
    BY <1>3 DEF SerializeString
  <2>5. QED  BY <1>3, <2>3, <2>4
<1>4. QED  BY <1>2, <1>3

-----------------------------------------------------------------------------
\* What is written is read.

NextLast(bytes, k, sum) == bytes[Len(bytes) + 1 - k] + 256 * sum

OfLast == INSTANCE Recursion WITH Step <- NextLast

LEMMA LastBytesHold ==
    ASSUME NEW bytes
    PROVE  /\ LastBytes(bytes)[0] = 0
           /\ \A k \in Nat : LastBytes(bytes)[k + 1] =
                 bytes[Len(bytes) + 1 - (k + 1)] + 256 * LastBytes(bytes)[k]
<1>1. \E f : OfLast!IsDefinedBy(f, bytes, 0)  BY OfLast!RecursionExists
<1>2. OfLast!IsDefinedBy(LastBytes(bytes), bytes, 0)
  BY <1>1, Zenon DEF OfLast!IsDefinedBy, NextLast, LastBytes
<1>3. QED  BY <1>2, OfLast!ValuesFollow DEF NextLast

\* What packInt... wrote is read.
LEMMA PackedIsRead ==
    ASSUME NEW n \in Nat, NEW size \in Nat, Shifted(n)[size] = 0
    PROVE  FromLE(PackLE(n, size)) = n
<1> DEFINE s     == Shifted(n)
           bytes == PackLE(n, size)
           sum   == LastBytes(bytes)
           T     == {k \in Nat : k <= size => sum[k] = s[size - k]}
<1>1. Len(bytes) = size  BY PackLEIsBytes
<1>2. /\ s[0] = n /\ s[size] = 0
      /\ \A k \in Nat : s[k + 1] = s[k] \div 256 /\ s[k] \in Int
  BY ShiftedHold, ShiftedIsInt
<1>3. \A j \in 1 .. size : bytes[j] = s[j - 1] % 256  BY DEF PackLE
<1> HIDE DEF s, bytes
<1>4. /\ sum[0] = 0
      /\ \A k \in Nat : sum[k + 1] = bytes[size + 1 - (k + 1)] + 256 * sum[k]
  <2>1. /\ sum[0] = 0
        /\ \A k \in Nat :
              sum[k + 1] = bytes[Len(bytes) + 1 - (k + 1)] + 256 * sum[k]
    BY LastBytesHold
  <2>2. QED  BY <1>1, <2>1
<1> HIDE DEF sum
<1>5. 0 \in T
  <2>1. size - 0 = size  OBVIOUS
  <2>2. QED  BY <1>2, <1>4, <2>1
<1>6. ASSUME NEW k \in T \cap Nat PROVE k + 1 \in T
  <2>1. SUFFICES ASSUME k + 1 <= size PROVE sum[k + 1] = s[size - (k + 1)]
    OBVIOUS
  <2> DEFINE m == size - (k + 1)
  <2>2. /\ m \in Nat /\ m + 1 \in 1 .. size /\ (m + 1) - 1 = m
        /\ size - k = m + 1 /\ k <= size /\ size + 1 - (k + 1) = m + 1
    BY <2>1
  <2>3. sum[k] = s[m + 1]  BY <2>2
  <2> HIDE DEF m
  <2>4. bytes[m + 1] = s[m] % 256  BY <1>3, <2>2
  <2>5. sum[k + 1] = (s[m] % 256) + 256 * (s[m] \div 256)
    BY <1>2, <1>4, <2>2, <2>3, <2>4
  <2>6. \A a \in Int : (a % 256) + 256 * (a \div 256) = a  OBVIOUS
  <2>7. sum[k + 1] = s[m]  BY <1>2, <2>2, <2>5, <2>6
  <2>8. QED  BY <2>7 DEF m
<1> HIDE DEF T
<1>7. Nat \subseteq T  BY <1>5, <1>6, OfLast!Induction
<1>8. sum[size] = s[size - size]  BY <1>7 DEF T
<1>9. size - size = 0  OBVIOUS
<1>10. QED  BY <1>1, <1>2, <1>8, <1>9 DEF FromLE, sum, bytes

\* A number takes as many bytes as make it nothing.
LEMMA ShortNumber ==
    ASSUME NEW n \in Nat, NEW k \in Nat, Shifted(n)[k] <= 255
    PROVE  Shifted(n)[k + 1] = 0
<1>1. \A j \in Nat : Shifted(n)[j] \in Nat
  <2> DEFINE T == {j \in Nat : Shifted(n)[j] \in Nat}
  <2>1. 0 \in T  BY ShiftedHold
  <2>2. ASSUME NEW j \in T \cap Nat PROVE j + 1 \in T
    <3>1. Shifted(n)[j + 1] = Shifted(n)[j] \div 256  BY ShiftedHold
    <3>2. Shifted(n)[j] \in Nat  OBVIOUS
    <3>3. QED  BY <3>1, <3>2
  <2> HIDE DEF T
  <2>3. Nat \subseteq T  BY <2>1, <2>2, OfShifted!Induction
  <2>4. QED  BY <2>3 DEF T
<1>2. Shifted(n)[k + 1] = Shifted(n)[k] \div 256  BY ShiftedHold
<1>3. \A m \in Nat : m <= 255 => m \div 256 = 0  OBVIOUS
<1>4. QED  BY <1>1, <1>2, <1>3

LEMMA ShiftedOfInt32 ==
    ASSUME NEW n \in 0 .. MaxInt32
    PROVE  /\ n <= 65535 => Shifted(n)[2] = 0
           /\ Shifted(n)[3] \in 0 .. 127
           /\ Shifted(n)[4] = 0
<1> DEFINE s == Shifted(n)
<1>1. s[0] = n /\ s[0 + 1] = s[0] \div 256 /\ s[1 + 1] = s[1] \div 256
                /\ s[2 + 1] = s[2] \div 256 /\ s[3 + 1] = s[3] \div 256
  BY ShiftedHold
<1> HIDE DEF s
<1>2. \A m \in Nat : m \div 256 \in Nat /\ 256 * (m \div 256) <= m
  BY SMT
<1>3. n \in Nat /\ n < 128 * 256 * 256 * 256  BY MaxInt32Is, SMT
<1>4. s[0] \in Nat /\ s[1] \in Nat /\ s[2] \in Nat /\ s[3] \in Nat
  BY <1>1, <1>2, <1>3, SMT
<1>5. 256 * s[1] <= s[0] /\ 256 * s[2] <= s[1] /\ 256 * s[3] <= s[2]
  BY <1>1, <1>2, <1>4, SMT
<1>6. s[3] <= 127  BY <1>1, <1>3, <1>4, <1>5, SMT
<1>7. n <= 65535 => s[1] <= 255  BY <1>1, <1>4, <1>5, SMT
<1>8. \A m \in Nat : m <= 255 => m \div 256 = 0  BY SMT
<1>9. QED  BY <1>1, <1>4, <1>6, <1>7, <1>8, SMT DEF s

LEMMA Int32IsInt64 ==
    ASSUME NEW n \in 0 .. MaxInt32
    PROVE  n \in Int64
<1> DEFINE s == Shifted(n)
<1>1. s[4] = 0  BY ShiftedOfInt32
<1>2. /\ s[4 + 1] = s[4] \div 256 /\ s[5 + 1] = s[5] \div 256
      /\ s[6 + 1] = s[6] \div 256 /\ s[7 + 1] = s[7] \div 256
  BY ShiftedHold
<1> HIDE DEF s
<1>3. s[5] = 0 /\ s[6] = 0 /\ s[7] = 0 /\ s[8] = 0  BY <1>1, <1>2, SMT
<1>4. n \in Nat  BY SMT
<1>5. QED  BY <1>3, <1>4 DEF Int64, s

\* A sequence stands in a buffer, from i on.
IsAt(s, b, i) == \A j \in 1 .. Len(s) : b[i + j - 1] = s[j]

LEMMA ItselfIsAt ==
    ASSUME NEW b \in Seq(Byte)
    PROVE  IsAt(b, b, 1)
<1>1. \A j \in 1 .. Len(b) : 1 + j - 1 = j  BY LenProperties
<1>2. QED  BY <1>1 DEF IsAt

LEMMA PartsAreAt ==
    ASSUME NEW s \in Seq(Byte), NEW t \in Seq(Byte), NEW b, NEW i \in Int
    PROVE  IsAt(s \o t, b, i) <=> IsAt(s, b, i) /\ IsAt(t, b, i + Len(s))
<1> DEFINE m == Len(s)
           n == Len(t)
           u == s \o t
<1>1. m \in Nat /\ n \in Nat  BY LenProperties
<1>2. /\ Len(u) = m + n
      /\ \A j \in 1 .. m + n : u[j] = IF j <= m THEN s[j] ELSE t[j - m]
  BY ConcatProperties
<1>3. /\ IsAt(u, b, i) <=> \A j \in 1 .. m + n : b[i + j - 1] = u[j]
      /\ IsAt(s, b, i) <=> \A j \in 1 .. m : b[i + j - 1] = s[j]
      /\ IsAt(t, b, i + m) <=> \A j \in 1 .. n : b[i + m + j - 1] = t[j]
  BY <1>2 DEF IsAt
<1> HIDE DEF m, n, u
<1>4. ASSUME IsAt(u, b, i) PROVE IsAt(s, b, i) /\ IsAt(t, b, i + m)
  <2>1. ASSUME NEW j \in 1 .. m PROVE b[i + j - 1] = s[j]
    <3>1. j \in 1 .. m + n /\ j <= m  BY <1>1
    <3>2. QED  BY <1>2, <1>3, <1>4, <3>1
  <2>2. ASSUME NEW j \in 1 .. n PROVE b[i + m + j - 1] = t[j]
    <3>1. /\ m + j \in 1 .. m + n /\ ~(m + j <= m) /\ (m + j) - m = j
          /\ i + (m + j) - 1 = i + m + j - 1
      BY <1>1
    <3>2. b[i + (m + j) - 1] = u[m + j]  BY <1>3, <1>4, <3>1
    <3>3. u[m + j] = t[j]  BY <1>2, <3>1
    <3>4. QED  BY <3>1, <3>2, <3>3
  <2>3. QED  BY <1>3, <2>1, <2>2
<1>5. ASSUME IsAt(s, b, i), IsAt(t, b, i + m) PROVE IsAt(u, b, i)
  <2>1. ASSUME NEW j \in 1 .. m + n PROVE b[i + j - 1] = u[j]
    <3>1. CASE j <= m
      <4>1. j \in 1 .. m  BY <1>1, <3>1
      <4>2. QED  BY <1>2, <1>3, <1>5, <3>1, <4>1
    <3>2. CASE ~(j <= m)
      <4>1. j - m \in 1 .. n /\ i + m + (j - m) - 1 = i + j - 1
        BY <1>1, <3>2
      <4>2. b[i + m + (j - m) - 1] = t[j - m]  BY <1>3, <1>5, <4>1
      <4>3. QED  BY <1>2, <3>2, <4>1, <4>2
    <3>3. QED  BY <3>1, <3>2
  <2>2. QED  BY <1>3, <2>1
<1>6. QED  BY <1>4, <1>5 DEF m, u

LEMMA IsRead ==
    ASSUME NEW s \in Seq(Byte), NEW b, NEW i \in Int, NEW k \in Int,
           IsAt(s, b, i), k = i + Len(s) - 1
    PROVE  SubSeq(b, i, k) = s
<1> DEFINE n == Len(s)
           r == SubSeq(b, i, k)
<1>1. n \in Nat /\ \A j \in 1 .. n : s[j] \in Byte
  BY LenProperties, ElementOfSeq
<1>2. \A j \in 1 .. n : b[i + j - 1] = s[j]  BY DEF IsAt
<1>3. k = i + n - 1  OBVIOUS
<1> HIDE DEF n
<1>4. ASSUME NEW l \in i .. k PROVE b[l] \in Byte
  <2>1. l - i + 1 \in 1 .. n /\ i + (l - i + 1) - 1 = l  BY <1>1, <1>3
  <2>2. b[i + (l - i + 1) - 1] \in Byte  BY <1>1, <1>2, <2>1
  <2>3. QED  BY <2>1, <2>2
<1>5. /\ r \in Seq(Byte) /\ Len(r) = IF i <= k THEN k - i + 1 ELSE 0
      /\ \A j \in 1 .. k - i + 1 : r[j] = b[i + j - 1]
  BY <1>4, SubSeqProperties
<1> HIDE DEF r
<1>6. k - i + 1 = n /\ Len(r) = n  BY <1>1, <1>3, <1>5
<1>7. \A j \in 1 .. n : r[j] = s[j]  BY <1>2, <1>5, <1>6
<1>8. QED  BY <1>5, <1>6, <1>7, SeqEqual DEF n, r

\* What packVarInt wrote is read.
LEMMA VarIntIsRead ==
    ASSUME NEW n \in 0 .. MaxInt32, NEW b, NEW i \in Int,
           IsAt(PackVarInt(n), b, i)
    PROVE  ReadVarInt(b, i) = [value |-> n, next |-> i + Len(PackVarInt(n))]
<1>1. n \in Nat /\ n \in Int  BY SMT
<1>2. ASSUME NEW head \in Byte, NEW size \in {2, 4},
             head = IF size = 2 THEN 253 ELSE 254,
             PackVarInt(n) = <<head>> \o PackLE(n, size),
             Shifted(n)[size] = 0
      PROVE  ReadVarInt(b, i) = [value |-> n, next |-> i + Len(PackVarInt(n))]
  <2> DEFINE bytes == PackLE(n, size)
  <2>1. size \in Nat  BY SMT
  <2>2. bytes \in Seq(Byte) /\ Len(bytes) = size /\ FromLE(bytes) = n
    BY <1>1, <1>2, <2>1, PackLEIsBytes, PackedIsRead
  <2>3. <<head>> \in Seq(Byte) /\ Len(<<head>>) = 1  BY ByteIsBytes
  <2> HIDE DEF bytes
  <2>4. /\ IsAt(<<head>>, b, i) /\ IsAt(bytes, b, i + 1)
        /\ Len(PackVarInt(n)) = 1 + size
    <3>1. PackVarInt(n) = <<head>> \o bytes  BY <1>2 DEF bytes
    <3>2. IsAt(<<head>>, b, i) /\ IsAt(bytes, b, i + Len(<<head>>))
      BY <2>2, <2>3, <3>1, PartsAreAt
    <3>3. Len(PackVarInt(n)) = Len(<<head>>) + Len(bytes)
      BY <2>2, <2>3, <3>1, TwoParts
    <3>4. QED  BY <2>2, <2>3, <3>2, <3>3
  <2>5. b[i] = head
    <3>1. 1 \in 1 .. Len(<<head>>) /\ i + 1 - 1 = i /\ <<head>>[1] = head
      BY <2>3
    <3>2. QED  BY <2>4, <3>1 DEF IsAt
  <2>6. i + 1 \in Int /\ (i + 1) + size - 1 \in Int  BY <2>1
  <2>7. SubSeq(b, i + 1, (i + 1) + size - 1) = bytes  BY <2>2, <2>4, <2>6, IsRead
  <2>8. ReadLE(b, i + 1, size) = n  BY <2>2, <2>7 DEF ReadLE
  <2>9. ReadVarInt(b, i) = [value |-> n, next |-> i + 1 + size]
    BY <1>2, <2>5, <2>8 DEF ReadVarInt
  <2>10. i + 1 + size = i + (1 + size)  BY <2>1
  <2>11. QED  BY <2>4, <2>9, <2>10
<1>3. CASE n < 253
  <2>1. PackVarInt(n) = <<n>> /\ Len(<<n>>) = 1 /\ <<n>>[1] = n
    BY <1>3 DEF PackVarInt
  <2>2. 1 \in 1 .. 1 /\ i + 1 - 1 = i  OBVIOUS
  <2>3. b[i] = n  BY <2>1, <2>2 DEF IsAt
  <2>4. QED  BY <1>3, <2>1, <2>3 DEF ReadVarInt
<1>4. CASE ~(n < 253) /\ n <= 65535
  <2>1. PackVarInt(n) = <<253>> \o PackLE(n, 2)  BY <1>4 DEF PackVarInt
  <2>2. Shifted(n)[2] = 0  BY <1>4, ShiftedOfInt32
  <2>3. 253 \in Byte  BY DEF Byte
  <2>4. QED  BY <1>2, <2>1, <2>2, <2>3
<1>5. CASE ~(n < 253) /\ ~(n <= 65535)
  <2>1. PackVarInt(n) = <<254>> \o PackLE(n, 4)  BY <1>5 DEF PackVarInt
  <2>2. Shifted(n)[4] = 0  BY ShiftedOfInt32
  <2>3. 254 \in Byte  BY DEF Byte
  <2>4. QED  BY <1>2, <2>1, <2>2, <2>3
<1>6. QED  BY <1>3, <1>4, <1>5

\* What serializeNumber wrote is read, and not as a negative number.
LEMMA NumberIsRead ==
    ASSUME NEW n \in 0 .. MaxInt32, NEW b, NEW i \in Int,
           IsAt(SerializeNumber(n), b, i)
    PROVE  ReadNumber(b, i) = [value |-> n,
                               next |-> i + Len(SerializeNumber(n))]
<1>1. n \in Nat /\ n \in Int  BY SMT
<1>2. CASE n \in 1 .. 16
  <2>1. /\ SerializeNumber(n) = <<80 + n>> /\ Len(<<80 + n>>) = 1
        /\ <<80 + n>>[1] = 80 + n
    BY <1>2 DEF SerializeNumber
  <2>2. 1 \in 1 .. 1 /\ i + 1 - 1 = i  OBVIOUS
  <2>3. b[i] = 80 + n  BY <2>1, <2>2 DEF IsAt
  <2>4. 80 + n \in 81 .. 96 /\ (80 + n) - 80 = n  BY <1>2
  <2>5. QED  BY <2>1, <2>3, <2>4 DEF ReadNumber
<1>3. CASE n \notin 1 .. 16
  <2> DEFINE size  == SizeOf(n)
             bytes == PackLE(n, size)
             s     == Shifted(n)
  <2>1. SerializeNumber(n) = <<size>> \o bytes  BY <1>3 DEF SerializeNumber
  <2>2. size \in 1 .. 4 /\ s[size - 1] <= 127
    BY SizeOfNumber DEF IsSizeOf
  <2> HIDE DEF size
  <2>3. /\ size \in Nat /\ size - 1 \in Nat /\ (size - 1) + 1 = size
        /\ size \in Byte /\ size \notin 81 .. 96 /\ size \in 1 .. size
    BY <2>2 DEF Byte
  <2>4. s[size - 1] \in Nat /\ s[size] = 0
    <3>1. s[size - 1] <= 255
      <4>1. s[size - 1] \in Int  BY <1>1, <2>3, ShiftedIsInt
      <4> HIDE DEF s
      <4>2. QED  BY <2>2, <4>1
    <3>2. s[(size - 1) + 1] = 0  BY <1>1, <2>3, <3>1, ShortNumber
    <3>3. s[(size - 1) + 1] = s[size - 1] \div 256  BY <2>3, ShiftedHold
    <3>4. s[size - 1] \in Int  BY <1>1, <2>3, ShiftedIsInt
    <3>5. \A m \in Int : m \div 256 = 0 => m \in Nat  OBVIOUS
    <3> HIDE DEF s
    <3>6. QED  BY <2>3, <3>2, <3>3, <3>4, <3>5
  <2>5. bytes \in Seq(Byte) /\ Len(bytes) = size /\ FromLE(bytes) = n
    BY <1>1, <2>3, <2>4, PackLEIsBytes, PackedIsRead
  <2>6. bytes[size] = s[size - 1]
    <3>1. bytes[size] = s[size - 1] % 256  BY <2>3 DEF PackLE
    <3>2. \A m \in Nat : m <= 127 => m % 256 = m  OBVIOUS
    <3> HIDE DEF s, bytes
    <3>3. QED  BY <2>2, <2>4, <3>1, <3>2
  <2> HIDE DEF bytes, s
  <2>7. bytes[size] < 128 /\ bytes[size] % 128 = bytes[size]
    BY <2>2, <2>4, <2>6
  <2>8. [bytes EXCEPT ![size] = @ % 128] = bytes
    <3>1. [bytes EXCEPT ![size] = bytes[size]] = bytes  BY <2>5
    <3>2. QED  BY <2>7, <3>1
  <2>9. <<size>> \in Seq(Byte) /\ Len(<<size>>) = 1  BY <2>3, ByteIsBytes
  <2>10. /\ IsAt(<<size>>, b, i) /\ IsAt(bytes, b, i + 1)
         /\ Len(SerializeNumber(n)) = 1 + size
    <3>1. IsAt(<<size>>, b, i) /\ IsAt(bytes, b, i + Len(<<size>>))
      BY <2>1, <2>5, <2>9, PartsAreAt
    <3>2. Len(SerializeNumber(n)) = Len(<<size>>) + Len(bytes)
      BY <2>1, <2>5, <2>9, TwoParts
    <3>3. QED  BY <2>5, <2>9, <3>1, <3>2
  <2>11. b[i] = size
    <3>1. 1 \in 1 .. Len(<<size>>) /\ i + 1 - 1 = i /\ <<size>>[1] = size
      BY <2>9
    <3>2. QED  BY <2>10, <3>1 DEF IsAt
  <2>12. i + 1 \in Int /\ i + size \in Int /\ i + size = (i + 1) + Len(bytes) - 1
    BY <2>3, <2>5
  <2>13. SubSeq(b, i + 1, i + size) = bytes
    <3> DEFINE j == i + 1
               k == i + size
    <3>1. j \in Int /\ k \in Int /\ k = j + Len(bytes) - 1  BY <2>12
    <3>2. bytes \in Seq(Byte) /\ IsAt(bytes, b, j)  BY <2>5, <2>10
    <3> HIDE DEF j, k
    <3>3. SubSeq(b, j, k) = bytes  BY <3>1, <3>2, IsRead
    <3>4. QED  BY <3>3 DEF j, k
  <2>14. ReadNumber(b, i) = [value |-> n, next |-> i + size + 1]
    <3>1. ~(bytes[size] >= 128)  BY <2>2, <2>4, <2>6
    <3>2. QED  BY <2>3, <2>5, <2>8, <2>11, <2>13, <3>1 DEF ReadNumber
  <2>15. i + size + 1 = i + (1 + size)  BY <2>3
  <2>16. QED  BY <2>10, <2>14, <2>15
<1>4. QED  BY <1>2, <1>3

-----------------------------------------------------------------------------
\* FlattenSeq.

FlatStep(seqs, k, before) == IF k = 1 THEN seqs[1] ELSE before \o seqs[k]

OfFlatten == INSTANCE Recursion WITH Step <- FlatStep

\* The function in FlattenSeq: the first sequences as one.
FirstSeqs(seqs) ==
    CHOOSE f : f = [i \in 1 .. Len(seqs) |->
                       IF i = 1 THEN seqs[i] ELSE f[i - 1] \o seqs[i]]

LEMMA FlattenHolds ==
    ASSUME NEW seqs, IsSeq(seqs), seqs # <<>>
    PROVE  /\ FirstSeqs(seqs)[1] = seqs[1]
           /\ \A i \in 1 .. Len(seqs) - 1 :
                 FirstSeqs(seqs)[i + 1] = FirstSeqs(seqs)[i] \o seqs[i + 1]
           /\ FlattenSeq(seqs) = FirstSeqs(seqs)[Len(seqs)]
<1> DEFINE n == Len(seqs)
<1>1. n \in Nat /\ n # 0  BY SeqFacts
<1>2. PICK f : OfFlatten!IsDefinedBy(f, seqs, <<>>)
  BY OfFlatten!RecursionExists
<1>3. \A k \in Nat : f[k + 1] = FlatStep(seqs, k + 1, f[k])
  BY <1>2, OfFlatten!ValuesFollow
<1> DEFINE g == [i \in 1 .. n |-> f[i]]
           next(i) == IF i = 1 THEN seqs[i] ELSE g[i - 1] \o seqs[i]
<1> HIDE DEF n
<1>4. ASSUME NEW i \in 1 .. n PROVE g[i] = next(i)
  <2>1. i - 1 \in Nat /\ (i - 1) + 1 = i  OBVIOUS
  <2>2. f[i] = FlatStep(seqs, i, f[i - 1])  BY <1>3, <2>1
  <2>3. i # 1 => i - 1 \in 1 .. n  BY <1>1
  <2>4. QED  BY <2>2, <2>3 DEF FlatStep
<1>5. g = [i \in 1 .. n |-> next(i)]
  <2>1. g = [i \in 1 .. n |-> g[i]]  OBVIOUS
  <2> HIDE DEF g
  <2>2. QED  BY <1>4, <2>1
<1> HIDE DEF g
<1> DEFINE h == FirstSeqs(seqs)
<1>6. h = [i \in 1 .. n |-> IF i = 1 THEN seqs[i] ELSE h[i - 1] \o seqs[i]]
  BY <1>5, Zenon DEF FirstSeqs, n
<1>7. FlattenSeq(seqs) = h[n]  BY <1>1 DEF FlattenSeq, FirstSeqs, n
<1> HIDE DEF h
<1>8. h[1] = seqs[1]
  <2>1. 1 \in 1 .. n  BY <1>1
  <2>2. QED  BY <1>6, <2>1
<1>9. ASSUME NEW i \in 1 .. n - 1 PROVE h[i + 1] = h[i] \o seqs[i + 1]
  <2>1. i + 1 \in 1 .. n /\ i + 1 # 1 /\ (i + 1) - 1 = i  BY <1>1
  <2>2. QED  BY <1>6, <2>1
<1>10. QED  BY <1>7, <1>8, <1>9 DEF h, n

LEMMA FirstSeqsAreBytes ==
    ASSUME NEW seqs, IsSeq(seqs), seqs # <<>>,
           \A i \in 1 .. Len(seqs) : seqs[i] \in Seq(Byte)
    PROVE  \A k \in 1 .. Len(seqs) : FirstSeqs(seqs)[k] \in Seq(Byte)
<1> DEFINE n == Len(seqs)
           T == {k \in Nat : k + 1 <= n => FirstSeqs(seqs)[k + 1] \in Seq(Byte)}
<1>1. n \in Nat /\ n # 0  BY SeqFacts
<1>2. /\ FirstSeqs(seqs)[1] = seqs[1]
      /\ \A i \in 1 .. n - 1 :
            FirstSeqs(seqs)[i + 1] = FirstSeqs(seqs)[i] \o seqs[i + 1]
  BY FlattenHolds
<1>3. \A i \in 1 .. n : seqs[i] \in Seq(Byte)  OBVIOUS
<1> HIDE DEF n
<1>4. 0 \in T
  <2>1. 0 + 1 = 1 /\ 1 \in 1 .. n  BY <1>1
  <2>2. QED  BY <1>2, <1>3, <2>1
<1>5. ASSUME NEW k \in T \cap Nat PROVE k + 1 \in T
  <2>1. SUFFICES ASSUME (k + 1) + 1 <= n
                 PROVE  FirstSeqs(seqs)[(k + 1) + 1] \in Seq(Byte)
    OBVIOUS
  <2>2. k + 1 \in 1 .. n - 1 /\ (k + 1) + 1 \in 1 .. n /\ k + 1 <= n
    BY <1>1, <2>1
  <2>3. FirstSeqs(seqs)[k + 1] \in Seq(Byte)  BY <2>2
  <2>4. QED  BY <1>2, <1>3, <2>2, <2>3, TwoParts
<1> HIDE DEF T
<1>6. Nat \subseteq T  BY <1>4, <1>5, OfFlatten!Induction
<1>7. ASSUME NEW k \in 1 .. n PROVE FirstSeqs(seqs)[k] \in Seq(Byte)
  <2>1. k - 1 \in Nat /\ (k - 1) + 1 = k /\ k <= n  BY <1>1
  <2>2. FirstSeqs(seqs)[(k - 1) + 1] \in Seq(Byte)  BY <1>6, <2>1 DEF T
  <2>3. QED  BY <2>1, <2>2
<1>8. QED  BY <1>7 DEF n

LEMMA FlattenIsBytes ==
    ASSUME NEW seqs, IsSeq(seqs), \A i \in 1 .. Len(seqs) : seqs[i] \in Seq(Byte)
    PROVE  FlattenSeq(seqs) \in Seq(Byte)
<1>1. Len(seqs) \in Nat /\ (seqs = <<>> <=> Len(seqs) = 0)  BY SeqFacts
<1>2. CASE seqs = <<>>
  <2>1. FlattenSeq(seqs) = <<>>  BY <1>1, <1>2 DEF FlattenSeq
  <2>2. QED  BY <2>1
<1>3. CASE seqs # <<>>
  <2>1. Len(seqs) \in 1 .. Len(seqs)  BY <1>1, <1>3
  <2>2. QED  BY <1>3, <2>1, FlattenHolds, FirstSeqsAreBytes
<1>4. QED  BY <1>2, <1>3

-----------------------------------------------------------------------------
\* The coinbase is made of bytes.

LEMMA ConstantBytes ==
    /\ Zeros(32) \in Seq(Byte) /\ Len(Zeros(32)) = 32
    /\ Max32 \in Seq(Byte) /\ Len(Max32) = 4
<1>1. 0 \in Byte /\ 255 \in Byte /\ 32 \in Nat  BY DEF Byte
<1>2. Zeros(32) \in [1 .. 32 -> Byte]  BY <1>1 DEF Zeros
<1>3. Zeros(32) \in Seq(Byte)  BY <1>1, <1>2, SeqDef
<1>4. Max32 \in Seq(Byte)  BY <1>1 DEF Max32
<1>5. Zeros(32) = [i \in 1 .. 32 |-> Zeros(32)[i]]  BY DEF Zeros
<1>6. Len(Zeros(32)) = 32  BY <1>1, <1>5, MakeSeq
<1>7. Len(Max32) = 4  BY DEF Max32
<1>8. QED  BY <1>3, <1>4, <1>6, <1>7

LEMMA InputScriptIsBytes ==
    ASSUME NEW t \in Template, NEW now \in 0 .. MaxInt32
    PROVE  /\ InputScript(t, now) \in Seq(Byte)
           /\ Len(InputScript(t, now)) = Len(SerializeNumber(t.height))
                  + Len(t.flags) + Len(SerializeNumber(now)) + 1
           /\ InputScriptLen(t, now) \in Nat
<1> DEFINE h == SerializeNumber(t.height)
           s == SerializeNumber(now)
           e == <<ExtraNonceSize>>
<1>1. t.height \in 0 .. MaxInt32 /\ t.flags \in Seq(Byte)
  BY TemplateFacts
<1>2. h \in Seq(Byte) /\ s \in Seq(Byte)  BY <1>1, SerializeNumberIsBytes
<1>3. e \in Seq(Byte) /\ Len(e) = 1  BY ByteIsBytes DEF ExtraNonceSize, Byte
<1> HIDE DEF h, s, e
<1>4. h \o t.flags \in Seq(Byte) /\ Len(h \o t.flags) = Len(h) + Len(t.flags)
  BY <1>1, <1>2, TwoParts
<1>5. /\ h \o t.flags \o s \in Seq(Byte)
      /\ Len(h \o t.flags \o s) = Len(h) + Len(t.flags) + Len(s)
  BY <1>2, <1>4, TwoParts
<1>6. /\ h \o t.flags \o s \o e \in Seq(Byte)
      /\ Len(h \o t.flags \o s \o e) = Len(h) + Len(t.flags) + Len(s) + 1
  BY <1>3, <1>5, TwoParts
<1>7. InputScript(t, now) = h \o t.flags \o s \o e
  BY DEF InputScript, h, s, e
<1>8. InputScriptLen(t, now) \in Nat
  <2>1. SerializeString(Signature) \in Seq(Byte)
    BY CoinbaseAssumption, SerializeStringIsBytes
  <2>2. Len(SerializeString(Signature)) \in Nat /\ Len(InputScript(t, now)) \in Nat
    BY <1>6, <1>7, <2>1, LenProperties
  <2>3. QED  BY <2>2 DEF InputScriptLen, ExtraNonceSize
<1>9. QED  BY <1>6, <1>7, <1>8 DEF h, s

LEMMA Coinbase1IsBytes ==
    ASSUME NEW t \in Template, NEW now \in 0 .. MaxInt32
    PROVE  CreateCoinbase1(t, now) \in Seq(Byte)
<1> DEFINE a == PackLE(1, 4)
           b == PackVarInt(1)
           c == PackVarInt(InputScriptLen(t, now))
           d == InputScript(t, now)
<1>1. a \in Seq(Byte) /\ b \in Seq(Byte)
  BY PackLEIsBytes, PackVarIntIsBytes
<1>2. c \in Seq(Byte) /\ d \in Seq(Byte)
  BY InputScriptIsBytes, PackVarIntIsBytes
<1>3. CreateCoinbase1(t, now) = a \o b \o Zeros(32) \o Max32 \o c \o d
  BY DEF CreateCoinbase1
<1> HIDE DEF a, b, c, d
<1>4. a \o b \o Zeros(32) \o Max32 \in Seq(Byte)
  BY <1>1, ConstantBytes, TwoParts
<1>5. a \o b \o Zeros(32) \o Max32 \o c \o d \in Seq(Byte)
  BY <1>2, <1>4, TwoParts
<1>6. QED  BY <1>3, <1>5

\* A script the daemon can be told the length of.
Script == {s \in Seq(Byte) : Len(s) <= MaxInt32}

Output == [amount : Int64, script : Script]

LEMMA PayIsOutput ==
    ASSUME NEW amount \in Int64, NEW address \in Byte
    PROVE  Pay(amount, address) \in Output
<1> DEFINE key == [i \in 1 .. 20 |-> address]
           before == <<118, 169, 20>>
           behind == <<136, 172>>
<1>1. key \in [1 .. 20 -> Byte]  OBVIOUS
<1>2. key \in Seq(Byte) /\ Len(key) = 20
  <2>1. key \in Seq(Byte)  BY <1>1, SeqDef
  <2>2. 20 \in Nat /\ key = [i \in 1 .. 20 |-> key[i]]  OBVIOUS
  <2> HIDE DEF key
  <2>3. QED  BY <2>1, <2>2, MakeSeq
<1>3. /\ before \in Seq(Byte) /\ Len(before) = 3
      /\ behind \in Seq(Byte) /\ Len(behind) = 2
  <2>1. 118 \in Byte /\ 169 \in Byte /\ 20 \in Byte /\ 136 \in Byte /\ 172 \in Byte
    BY DEF Byte
  <2>2. before \in Seq(Byte) /\ behind \in Seq(Byte)  BY <2>1
  <2>3. Len(before) = 3 /\ Len(behind) = 2  OBVIOUS
  <2>4. QED  BY <2>2, <2>3
<1>4. AddressToScript(address) = before \o key \o behind
  BY DEF AddressToScript
<1> HIDE DEF key, before, behind
<1>5. before \o key \in Seq(Byte) /\ Len(before \o key) = 3 + 20
  BY <1>2, <1>3, TwoParts
<1>6. /\ before \o key \o behind \in Seq(Byte)
      /\ Len(before \o key \o behind) = 3 + 20 + 2
  BY <1>3, <1>5, TwoParts
<1>7. 3 + 20 + 2 <= MaxInt32  BY SMT DEF MaxInt32
<1>8. AddressToScript(address) \in Script  BY <1>4, <1>6, <1>7 DEF Script
<1>9. QED  BY <1>8 DEF Pay, Output

LEMMA OutputsAreOutputs ==
    ASSUME NEW t \in Template
    PROVE  TxOutputs(t) \in Seq(Output)
<1>1. /\ t.znode \in Seq([amount : Int64, payee : Byte])
      /\ t.witness \in Seq(Seq(Byte))
      /\ \A i \in DOMAIN t.witness : Len(t.witness[i]) <= MaxInt32
      /\ t.coinbasevalue \in Int64
  BY TemplateFacts
<1>2. ZnodeOutputs(t) \in Seq(Output)
  <2>1. Len(t.znode) \in Nat  BY <1>1, LenProperties
  <2>2. ASSUME NEW i \in 1 .. Len(t.znode)
        PROVE  Pay(t.znode[i].amount, t.znode[i].payee) \in Output
    <3>1. t.znode[i] \in [amount : Int64, payee : Byte]
      BY <1>1, ElementOfSeq
    <3>2. QED  BY <3>1, PayIsOutput
  <2>3. ZnodeOutputs(t) \in [1 .. Len(t.znode) -> Output]
    BY <2>2 DEF ZnodeOutputs
  <2>4. QED  BY <2>1, <2>3, SeqDef
<1>3. FounderOutputs \in Seq(Output)
  <2>1. ASSUME NEW i \in 1 .. 5
        PROVE  Pay(IF i = 4 THEN 150000000 ELSE 50000000, Founder[i]) \in Output
    <3>1. Founder[i] \in Byte  BY CoinbaseAssumption, ElementOfSeq
    <3>2. (IF i = 4 THEN 150000000 ELSE 50000000) \in Int64
      <4>1. 150000000 <= MaxInt32 /\ 50000000 <= MaxInt32  BY SMT DEF MaxInt32
      <4>2. 150000000 \in 0 .. MaxInt32 /\ 50000000 \in 0 .. MaxInt32
        BY <4>1, MaxInt32Is, SMT
      <4>3. QED  BY <4>2, Int32IsInt64
    <3>3. QED  BY <3>1, <3>2, PayIsOutput
  <2>2. FounderOutputs \in [1 .. 5 -> Output]  BY <2>1 DEF FounderOutputs
  <2>3. QED  BY <2>2, SeqDef
<1>4. WitnessOutputs(t) \in Seq(Output)
  <2>1. Len(t.witness) \in Nat  BY <1>1, LenProperties
  <2>2. ASSUME NEW i \in 1 .. Len(t.witness)
        PROVE  [amount |-> 0, script |-> t.witness[i]] \in Output
    <3>1. t.witness[i] \in Seq(Byte)  BY <1>1, ElementOfSeq
    <3>2. Len(t.witness[i]) <= MaxInt32  BY <1>1, LenProperties
    <3>3. 0 \in Int64
      <4>1. 0 \in 0 .. MaxInt32  BY MaxInt32Is
      <4>2. QED  BY <4>1, Int32IsInt64
    <3>4. QED  BY <3>1, <3>2, <3>3 DEF Output, Script
  <2>3. WitnessOutputs(t) \in [1 .. Len(t.witness) -> Output]
    BY <2>2 DEF WitnessOutputs
  <2>4. QED  BY <2>1, <2>3, SeqDef
<1>5. <<Pay(t.coinbasevalue, PoolAddress)>> \in Seq(Output)
  BY <1>1, CoinbaseAssumption, PayIsOutput
<1>6. QED  BY <1>2, <1>3, <1>4, <1>5, ConcatProperties DEF TxOutputs

LEMMA OutputIsBytes ==
    ASSUME NEW o \in Output
    PROVE  OutputBytes(o) \in Seq(Byte)
<1>1. o.amount \in Int /\ o.script \in Seq(Byte)
  BY DEF Output, Int64, Script
<1>2. Len(o.script) \in Nat  BY <1>1, LenProperties
<1>3. PackLE(o.amount, 8) \in Seq(Byte)  BY <1>1, PackLEIsBytes
<1>4. PackVarInt(Len(o.script)) \in Seq(Byte)  BY <1>2, PackVarIntIsBytes
<1>5. QED  BY <1>1, <1>3, <1>4, TwoParts DEF OutputBytes

LEMMA Coinbase2IsBytes ==
    ASSUME NEW t \in Template
    PROVE  CreateCoinbase2(t) \in Seq(Byte)
<1> DEFINE outputs == TxOutputs(t)
           n       == Len(outputs)
           each    == [i \in 1 .. n |-> OutputBytes(outputs[i])]
           a       == SerializeString(Signature)
           b       == PackVarInt(n)
           c       == FlattenSeq(each)
           d       == PackLE(0, 4)
<1>1. outputs \in Seq(Output)  BY OutputsAreOutputs
<1>2. n \in Nat  BY <1>1, LenProperties
<1>3. IsSeq(each) /\ Len(each) = n  BY <1>2, MakeSeq
<1>4. \A i \in 1 .. Len(each) : each[i] \in Seq(Byte)
  <2>1. \A i \in 1 .. n : outputs[i] \in Output  BY <1>1, ElementOfSeq
  <2>2. \A i \in 1 .. n : each[i] \in Seq(Byte)  BY <2>1, OutputIsBytes
  <2> HIDE DEF each
  <2>3. QED  BY <1>3, <2>2
<1>5. c \in Seq(Byte)
  <2> HIDE DEF each
  <2>1. QED  BY <1>3, <1>4, FlattenIsBytes
<1>6. a \in Seq(Byte) /\ b \in Seq(Byte) /\ d \in Seq(Byte)
  BY <1>2, CoinbaseAssumption, SerializeStringIsBytes, PackVarIntIsBytes,
     PackLEIsBytes
<1>7. CreateCoinbase2(t) = a \o Max32 \o b \o c \o d  BY DEF CreateCoinbase2
<1> HIDE DEF a, b, c, d
<1>8. a \o Max32 \o b \in Seq(Byte)  BY <1>6, ConstantBytes, TwoParts
<1>9. a \o Max32 \o b \o c \o d \in Seq(Byte)  BY <1>5, <1>6, <1>8, TwoParts
<1>10. QED  BY <1>7, <1>9

-----------------------------------------------------------------------------
\* The outputs are read.

NextStart(b, k, i) == NextOutput(b, i)

OfStarts == INSTANCE Recursion WITH Step <- NextStart

LEMMA OutputStartsHold ==
    ASSUME NEW b, NEW i
    PROVE  /\ OutputStarts(b, i)[0] = i
           /\ \A k \in Nat : OutputStarts(b, i)[k + 1] =
                 NextOutput(b, OutputStarts(b, i)[k])
<1>1. \E f : OfStarts!IsDefinedBy(f, b, i)  BY OfStarts!RecursionExists
<1>2. OfStarts!IsDefinedBy(OutputStarts(b, i), b, i)
  BY <1>1, Zenon DEF OfStarts!IsDefinedBy, NextStart, OutputStarts
<1>3. QED  BY <1>2, OfStarts!ValuesFollow DEF NextStart

LEMMA OutputIsRead ==
    ASSUME NEW o \in Output, NEW b, NEW i \in Int, IsAt(OutputBytes(o), b, i)
    PROVE  /\ ReadOutput(b, i) = o
           /\ NextOutput(b, i) = i + Len(OutputBytes(o))
<1> DEFINE s      == o.script
           n      == Len(s)
           amount == PackLE(o.amount, 8)
           count  == PackVarInt(n)
<1>1. s \in Seq(Byte) /\ n \in 0 .. MaxInt32 /\ n \in Nat
  <2>1. s \in Seq(Byte) /\ n <= MaxInt32  BY DEF Output, Script
  <2>2. n \in Nat  BY <2>1, LenProperties
  <2>3. QED  BY <2>1, <2>2, MaxInt32Is
<1>2. o.amount \in Nat /\ Shifted(o.amount)[8] = 0  BY DEF Output, Int64
<1>3. amount \in Seq(Byte) /\ Len(amount) = 8 /\ FromLE(amount) = o.amount
  <2> DEFINE size == 8
  <2>1. size \in Nat /\ Shifted(o.amount)[size] = 0  BY <1>2
  <2>2. o.amount \in Nat /\ o.amount \in Int  BY <1>2
  <2> HIDE DEF size
  <2>3. /\ PackLE(o.amount, size) \in Seq(Byte)
        /\ Len(PackLE(o.amount, size)) = size
        /\ FromLE(PackLE(o.amount, size)) = o.amount
    BY <2>1, <2>2, PackLEIsBytes, PackedIsRead
  <2>4. QED  BY <2>3 DEF size
<1>4. count \in Seq(Byte) /\ Len(count) \in Nat
  BY <1>1, PackVarIntIsBytes, LenProperties
<1>5. OutputBytes(o) = (amount \o count) \o s  BY DEF OutputBytes
<1> HIDE DEF amount, count
<1>6. amount \o count \in Seq(Byte) /\ Len(amount \o count) = 8 + Len(count)
  BY <1>3, <1>4, TwoParts
<1> DEFINE j == i + 8
           l == j + Len(count)
<1>7. j \in Int /\ l \in Int /\ l = i + (8 + Len(count))  BY <1>4
<1>8. IsAt(amount \o count, b, i) /\ IsAt(s, b, l)
  <2>1. IsAt(amount \o count, b, i) /\ IsAt(s, b, i + Len(amount \o count))
    BY <1>1, <1>5, <1>6, PartsAreAt
  <2>2. QED  BY <1>6, <1>7, <2>1
<1>9. IsAt(amount, b, i) /\ IsAt(count, b, j)
  <2>1. IsAt(amount, b, i) /\ IsAt(count, b, i + Len(amount))
    BY <1>3, <1>4, <1>8, PartsAreAt
  <2>2. QED  BY <1>3, <2>1
<1>10. Len(OutputBytes(o)) = 8 + Len(count) + n
  BY <1>1, <1>5, <1>6, TwoParts
<1>11. ReadVarInt(b, j) = [value |-> n, next |-> l]
  <2> HIDE DEF j, n
  <2>1. QED  BY <1>1, <1>7, <1>9, VarIntIsRead DEF count
<1> HIDE DEF l, n
<1>12. /\ ReadVarInt(b, i + 8).next = l
       /\ ReadVarInt(b, i + 8).value = n
  BY <1>11
<1>13. NextOutput(b, i) = l + n  BY <1>12 DEF NextOutput
<1>14. ReadLE(b, i, 8) = o.amount
  <2> DEFINE k == i + 8 - 1
  <2>1. k \in Int /\ k = i + Len(amount) - 1  BY <1>3
  <2> HIDE DEF k
  <2>2. SubSeq(b, i, k) = amount  BY <1>3, <1>9, <2>1, IsRead
  <2>3. QED  BY <1>3, <2>2 DEF ReadLE, k
<1> DEFINE k == l + n - 1
<1>15. SubSeq(b, l, k) = s
  <2>1. k \in Int /\ k = l + Len(s) - 1
    <3>1. k \in Int  BY <1>1, <1>7
    <3>2. QED  BY <3>1 DEF n
  <2>2. s \in Seq(Byte) /\ l \in Int /\ IsAt(s, b, l)  BY <1>1, <1>7, <1>8
  <2> HIDE DEF k, s
  <2>3. QED  BY <2>1, <2>2, IsRead
<1>16. ReadOutput(b, i) = [amount |-> o.amount, script |-> s]
  <2>1. NextOutput(b, i) - 1 = k  BY <1>1, <1>7, <1>13
  <2> HIDE DEF k, s
  <2>2. SubSeq(b, ReadVarInt(b, i + 8).next, NextOutput(b, i) - 1) = s
    BY <1>12, <1>15, <2>1, Zenon
  <2>3. QED  BY <1>14, <2>2 DEF ReadOutput
<1>17. o = [amount |-> o.amount, script |-> o.script]  BY DEF Output
<1>18. l + n = i + (8 + Len(count) + n)  BY <1>1, <1>4, <1>7
<1>19. QED  BY <1>10, <1>13, <1>16, <1>17, <1>18

LEMMA OutputsAreRead ==
    ASSUME NEW outs \in Seq(Output), outs # <<>>, NEW b, NEW i \in Int,
           NEW each, each = [k \in 1 .. Len(outs) |-> OutputBytes(outs[k])],
           IsAt(FlattenSeq(each), b, i)
    PROVE  /\ \A k \in 1 .. Len(outs) :
                 ReadOutput(b, OutputStarts(b, i)[k - 1]) = outs[k]
           /\ OutputStarts(b, i)[Len(outs)] = i + Len(FlattenSeq(each))
<1> DEFINE n         == Len(outs)
           first     == FirstSeqs(each)
           start     == OutputStarts(b, i)
           before(k) == IF k = 1 THEN 0 ELSE Len(first[k - 1])
<1>1. n \in Nat /\ n # 0  BY LenProperties, EmptySeq
<1>2. \A k \in 1 .. n : outs[k] \in Output  BY ElementOfSeq
<1>3. \A k \in 1 .. n : each[k] = OutputBytes(outs[k])  OBVIOUS
<1>4. \A k \in 1 .. n : each[k] \in Seq(Byte)  BY <1>2, <1>3, OutputIsBytes
<1>5. IsSeq(each) /\ Len(each) = n /\ each # <<>>
  <2>1. each = [k \in 1 .. n |-> each[k]]  OBVIOUS
  <2> HIDE DEF n
  <2>2. IsSeq(each) /\ Len(each) = n  BY <1>1, <2>1, MakeSeq
  <2>3. QED  BY <1>1, <2>2, SeqFacts
<1> HIDE DEF n
<1>6. /\ first[1] = each[1]
      /\ \A k \in 1 .. n - 1 : first[k + 1] = first[k] \o each[k + 1]
      /\ FlattenSeq(each) = first[n]
  <2>1. /\ first[1] = each[1]
        /\ \A k \in 1 .. Len(each) - 1 : first[k + 1] = first[k] \o each[k + 1]
        /\ FlattenSeq(each) = first[Len(each)]
    BY <1>5, FlattenHolds
  <2>2. QED  BY <1>5, <2>1
<1>7. \A k \in 1 .. n : first[k] \in Seq(Byte)
  <2>1. \A k \in 1 .. Len(each) : each[k] \in Seq(Byte)  BY <1>4, <1>5
  <2>2. \A k \in 1 .. Len(each) : first[k] \in Seq(Byte)
    BY <1>5, <2>1, FirstSeqsAreBytes
  <2>3. QED  BY <1>5, <2>2
<1>8. start[0] = i /\ \A k \in Nat : start[k + 1] = NextOutput(b, start[k])
  BY OutputStartsHold
<1> HIDE DEF first, start
\* Backwards from the last, what is flattened so far stands at i.
<1>9. \A k \in 1 .. n : IsAt(first[k], b, i)
  <2> DEFINE T == {m \in Nat : m < n => IsAt(first[n - m], b, i)}
  <2>1. 0 \in T
    <3>1. n - 0 = n  BY <1>1
    <3>2. QED  BY <1>6, <3>1
  <2>2. ASSUME NEW m \in T \cap Nat PROVE m + 1 \in T
    <3>1. SUFFICES ASSUME m + 1 < n PROVE IsAt(first[n - (m + 1)], b, i)
      OBVIOUS
    <3> DEFINE k == n - (m + 1)
    <3>2. k \in 1 .. n - 1 /\ k \in 1 .. n /\ k + 1 \in 1 .. n
            /\ n - m = k + 1 /\ m < n
      BY <1>1, <3>1
    <3> HIDE DEF k
    <3>3. IsAt(first[k + 1], b, i)  BY <3>2
    <3>4. IsAt(first[k] \o each[k + 1], b, i)  BY <1>6, <3>2, <3>3
    <3>5. IsAt(first[k], b, i)  BY <1>4, <1>7, <3>2, <3>4, PartsAreAt
    <3>6. QED  BY <3>5 DEF k
  <2> HIDE DEF T
  <2>3. Nat \subseteq T  BY <2>1, <2>2, OfStarts!Induction
  <2>4. ASSUME NEW k \in 1 .. n PROVE IsAt(first[k], b, i)
    <3>1. n - k \in Nat /\ n - k < n /\ n - (n - k) = k  BY <1>1
    <3>2. IsAt(first[n - (n - k)], b, i)  BY <2>3, <3>1 DEF T
    <3>3. QED  BY <3>1, <3>2
  <2>5. QED  BY <2>4
<1>10. ASSUME NEW k \in 1 .. n
       PROVE  /\ before(k) \in Nat
              /\ IsAt(each[k], b, i + before(k))
              /\ Len(first[k]) = before(k) + Len(each[k])
  <2>1. CASE k = 1
    <3>1. i + 0 = i /\ Len(each[1]) \in Nat /\ 1 \in 1 .. n
      BY <1>1, <1>4, LenProperties
    <3>2. QED  BY <1>6, <1>9, <2>1, <3>1
  <2>2. CASE k # 1
    <3> DEFINE l == k - 1
    <3>1. l \in 1 .. n - 1 /\ l \in 1 .. n /\ l + 1 = k  BY <1>1, <2>2
    <3> HIDE DEF l
    <3>2. first[k] = first[l] \o each[k]  BY <1>6, <3>1
    <3>3. first[l] \in Seq(Byte) /\ each[k] \in Seq(Byte) /\ Len(first[l]) \in Nat
      BY <1>4, <1>7, <3>1, LenProperties
    <3>4. IsAt(each[k], b, i + Len(first[l]))
      <4>1. IsAt(first[l] \o each[k], b, i)  BY <1>9, <3>2
      <4>2. QED  BY <3>3, <4>1, PartsAreAt
    <3>5. Len(first[k]) = Len(first[l]) + Len(each[k])
      BY <3>2, <3>3, TwoParts
    <3>6. before(k) = Len(first[l])  BY <2>2 DEF l
    <3>7. QED  BY <3>3, <3>4, <3>5, <3>6
  <2>3. QED  BY <2>1, <2>2
<1>11. \A k \in 1 .. n - 1 : before(k + 1) = Len(first[k])
  <2>1. \A k \in 1 .. n - 1 : k + 1 # 1 /\ (k + 1) - 1 = k  BY <1>1
  <2>2. QED  BY <2>1
<1>12. before(1) = 0  OBVIOUS
<1> HIDE DEF before
<1>13. ASSUME NEW k \in 1 .. n
       PROVE  /\ ReadOutput(b, i + before(k)) = outs[k]
              /\ NextOutput(b, i + before(k)) = i + Len(first[k])
  <2> DEFINE j == i + before(k)
  <2>1. /\ before(k) \in Nat
        /\ IsAt(each[k], b, j)
        /\ Len(first[k]) = before(k) + Len(each[k])
    BY <1>10
  <2>2. j \in Int /\ IsAt(OutputBytes(outs[k]), b, j)  BY <1>3, <2>1
  <2> HIDE DEF j
  <2>3. /\ ReadOutput(b, j) = outs[k]
        /\ NextOutput(b, j) = j + Len(each[k])
    BY <1>2, <1>3, <2>2, OutputIsRead
  <2>4. Len(each[k]) \in Nat  BY <1>4, LenProperties
  <2>5. j + Len(each[k]) = i + Len(first[k])
    <3>1. j + Len(each[k]) = i + (before(k) + Len(each[k]))
      BY <2>1, <2>4 DEF j
    <3>2. QED  BY <2>1, <3>1
  <2>6. QED  BY <2>3, <2>5 DEF j
\* Forwards from the first, an output begins where the one before it ends.
<1>14. \A k \in 1 .. n : start[k - 1] = i + before(k)
  <2> DEFINE T == {m \in Nat : m + 1 <= n => start[m] = i + before(m + 1)}
  <2>1. 0 \in T  BY <1>8, <1>12
  <2>2. ASSUME NEW m \in T \cap Nat PROVE m + 1 \in T
    <3>1. SUFFICES ASSUME (m + 1) + 1 <= n
                   PROVE  start[m + 1] = i + before((m + 1) + 1)
      OBVIOUS
    <3>2. m + 1 \in 1 .. n - 1 /\ m + 1 \in 1 .. n /\ m + 1 <= n
      BY <1>1, <3>1
    <3>3. start[m] = i + before(m + 1)  BY <3>2
    <3>4. start[m + 1] = i + Len(first[m + 1])
      BY <1>8, <1>13, <3>2, <3>3
    <3>5. QED  BY <1>11, <3>2, <3>4
  <2> HIDE DEF T
  <2>3. Nat \subseteq T  BY <2>1, <2>2, OfStarts!Induction
  <2>4. ASSUME NEW k \in 1 .. n PROVE start[k - 1] = i + before(k)
    <3>1. k - 1 \in Nat /\ (k - 1) + 1 = k /\ k <= n  BY <1>1
    <3>2. start[k - 1] = i + before((k - 1) + 1)  BY <2>3, <3>1 DEF T
    <3>3. QED  BY <3>1, <3>2
  <2>5. QED  BY <2>4
<1>15. \A k \in 1 .. n : ReadOutput(b, start[k - 1]) = outs[k]
  BY <1>13, <1>14
<1>16. start[n] = i + Len(first[n])
  <2>1. n \in 1 .. n /\ n - 1 \in Nat /\ (n - 1) + 1 = n  BY <1>1
  <2>2. start[(n - 1) + 1] = NextOutput(b, start[n - 1])  BY <1>8, <2>1
  <2>3. QED  BY <1>13, <1>14, <2>1, <2>2
<1>17. QED  BY <1>6, <1>15, <1>16 DEF n, start

-----------------------------------------------------------------------------
\* The coinbase is read.

LEMMA LockTime == PackLE(0, 4) = Zeros(4)
<1>1. \A k \in 0 .. 3 : Shifted(0)[k] = 0
  <2> DEFINE s == Shifted(0)
  <2>1. s[0] = 0 /\ s[0 + 1] = s[0] \div 256 /\ s[1 + 1] = s[1] \div 256
                 /\ s[2 + 1] = s[2] \div 256
    BY ShiftedHold
  <2> HIDE DEF s
  <2>2. s[1] = 0 /\ s[2] = 0 /\ s[3] = 0  BY <2>1, SMT
  <2>3. \A k \in 0 .. 3 : k = 0 \/ k = 1 \/ k = 2 \/ k = 3  OBVIOUS
  <2>4. QED  BY <2>1, <2>2, <2>3 DEF s
<1>2. ASSUME NEW i \in 1 .. 4 PROVE Shifted(0)[i - 1] % 256 = 0
  <2>1. i - 1 \in 0 .. 3  OBVIOUS
  <2>2. Shifted(0)[i - 1] = 0  BY <1>1, <2>1
  <2>3. QED  BY <2>2
<1>3. QED  BY <1>2 DEF PackLE, Zeros

\* The coinbase is written in these parts, each behind the other.
LEMMA CoinbaseParts ==
    ASSUME NEW t \in Template, NEW now \in 0 .. MaxInt32
    PROVE  LET outputs == TxOutputs(t)
           IN  /\ CreateCoinbase1(t, now) =
                     (PackLE(1, 4) \o << 1 >> \o Zeros(32) \o Max32)
                         \o PackVarInt(InputScriptLen(t, now))
                         \o InputScript(t, now)
               /\ CreateCoinbase2(t) =
                     SerializeString(Signature) \o Max32
                         \o PackVarInt(Len(outputs))
                         \o FlattenSeq([k \in 1 .. Len(outputs) |->
                                           OutputBytes(outputs[k])])
                         \o PackLE(0, 4)
<1>1. PackVarInt(1) = <<1>>  BY DEF PackVarInt
<1>2. QED  BY <1>1 DEF CreateCoinbase1, CreateCoinbase2

\* A sequence behind another, and where it stands.
LEMMA BehindIsAt ==
    ASSUME NEW s \in Seq(Byte), NEW t \in Seq(Byte), NEW b, NEW i \in Int,
           IsAt(s \o t, b, i), NEW j, j = i + Len(s)
    PROVE  IsAt(s, b, i) /\ IsAt(t, b, j) /\ j \in Int
<1>1. Len(s) \in Nat  BY LenProperties
<1>2. QED  BY <1>1, PartsAreAt

\* A transaction of a coinbase's parts, with the extra nonces of a share
\* between them, is read to the last byte.
\* b is the coinbase that is made of these parts.
IsCoinbase(in, e1, e2, sig, outs, size, head, each, flat, b) ==
    /\ in \in Seq(Byte) /\ e1 \in Seq(Byte) /\ e2 \in Seq(Byte)
    /\ sig \in Seq(Byte) /\ outs \in Seq(Output)
    /\ outs # <<>> /\ Len(outs) <= MaxInt32
    /\ size \in 0 .. MaxInt32
    /\ size = Len(in) + Len(e1) + Len(e2) + Len(sig)
    /\ head = PackLE(1, 4) \o <<1>> \o Zeros(32) \o Max32
    /\ each = [k \in 1 .. Len(outs) |-> OutputBytes(outs[k])]
    /\ flat = FlattenSeq(each)
    /\ b = (head \o PackVarInt(size) \o in) \o e1 \o e2
               \o (sig \o Max32 \o PackVarInt(Len(outs)) \o flat
                       \o PackLE(0, 4))

LEMMA PartsAreRead ==
    ASSUME NEW in, NEW e1, NEW e2, NEW sig, NEW outs, NEW size, NEW head,
           NEW each, NEW flat, NEW b,
           IsCoinbase(in, e1, e2, sig, outs, size, head, each, flat, b)
    PROVE  /\ ReadCoinbase(b).script = in \o e1 \o e2 \o sig
           /\ ReadCoinbase(b).outputs = outs
           /\ ReadCoinbase(b).complete
<1>0. SUFFICES ASSUME
               in \in Seq(Byte), e1 \in Seq(Byte), e2 \in Seq(Byte),
               sig \in Seq(Byte), outs \in Seq(Output),
               /\ outs # <<>> /\ Len(outs) <= MaxInt32
               /\ size \in 0 .. MaxInt32
               /\ size = Len(in) + Len(e1) + Len(e2) + Len(sig),
               head = PackLE(1, 4) \o << 1 >> \o Zeros(32) \o Max32,
               /\ each = [k \in 1 .. Len(outs) |-> OutputBytes(outs[k])]
               /\ flat = FlattenSeq(each),
               b = (head \o PackVarInt(size) \o in) \o e1 \o e2
                       \o (sig \o Max32 \o PackVarInt(Len(outs)) \o flat
                               \o PackLE(0, 4))
        PROVE  /\ ReadCoinbase(b).script = in \o e1 \o e2 \o sig
               /\ ReadCoinbase(b).outputs = outs
               /\ ReadCoinbase(b).complete
  BY Zenon DEF IsCoinbase
<1>types. /\ in \in Seq(Byte) /\ e1 \in Seq(Byte) /\ e2 \in Seq(Byte)
          /\ sig \in Seq(Byte) /\ outs \in Seq(Output)
  BY <1>0
<1> USE <1>types
<1> DEFINE n     == Len(outs)
           len   == PackVarInt(size)
           count == PackVarInt(n)
           lock  == PackLE(0, 4)
           max   == Max32
           A == Len(len)
           B == Len(in)
           C == Len(e1)
           D == Len(e2)
           E == Len(sig)
           F == Len(count)
           G == Len(flat)
<1>1. n \in Nat /\ n \in 0 .. MaxInt32
  <2>1. n \in Nat  BY LenProperties
  <2>2. QED  BY <1>0, <2>1, MaxInt32Is
<1>2. size \in Nat /\ size \in 0 .. MaxInt32  BY <1>0, MaxInt32Is
<1>3. len \in Seq(Byte) /\ count \in Seq(Byte)
  BY <1>1, <1>2, PackVarIntIsBytes
<1>4. lock \in Seq(Byte) /\ Len(lock) = 4 /\ lock = Zeros(4)
  <2>1. 0 \in Int /\ 4 \in Nat  OBVIOUS
  <2>2. QED  BY <2>1, PackLEIsBytes, LockTime
<1>5. max \in Seq(Byte) /\ Len(max) = 4  BY ConstantBytes
<1>6. head \in Seq(Byte) /\ Len(head) = 41
  <2>1. PackLE(1, 4) \in Seq(Byte) /\ Len(PackLE(1, 4)) = 4
    <3>1. 1 \in Int /\ 4 \in Nat  OBVIOUS
    <3>2. QED  BY <3>1, PackLEIsBytes
  <2>2. <<1>> \in Seq(Byte) /\ Len(<<1>>) = 1
    <3>1. 1 \in Byte  BY DEF Byte
    <3>2. QED  BY <3>1, ByteIsBytes
  <2>3. /\ PackLE(1, 4) \o <<1>> \in Seq(Byte)
        /\ Len(PackLE(1, 4) \o <<1>>) = 4 + 1
    BY <2>1, <2>2, TwoParts
  <2>4. /\ PackLE(1, 4) \o <<1>> \o Zeros(32) \in Seq(Byte)
        /\ Len(PackLE(1, 4) \o <<1>> \o Zeros(32)) = 4 + 1 + 32
    BY <2>3, ConstantBytes, TwoParts
  <2>5. head \in Seq(Byte) /\ Len(head) = 4 + 1 + 32 + 4
    BY <1>0, <2>4, ConstantBytes, TwoParts
  <2>6. 4 + 1 + 32 + 4 = 41  OBVIOUS
  <2>7. QED  BY <2>5, <2>6
<1>7. flat \in Seq(Byte)
  <2>1. IsSeq(each) /\ Len(each) = n  BY <1>0, <1>1, MakeSeq
  <2>2. \A k \in 1 .. n : each[k] \in Seq(Byte)
    <3>1. \A k \in 1 .. n : outs[k] \in Output  BY ElementOfSeq
    <3>2. QED  BY <1>0, <3>1, OutputIsBytes
  <2>3. QED  BY <1>0, <2>1, <2>2, FlattenIsBytes
<1>8. /\ A \in Nat /\ B \in Nat /\ C \in Nat /\ D \in Nat /\ E \in Nat
      /\ F \in Nat /\ G \in Nat /\ size = B + C + D + E
      /\ Len(len) = A /\ Len(in) = B /\ Len(e1) = C /\ Len(e2) = D
      /\ Len(sig) = E /\ Len(count) = F /\ Len(flat) = G
  BY <1>0, <1>3, <1>7, LenProperties
\* The sequences the parts make.
<1> DEFINE f1    == head \o len
           f2    == f1 \o in
           f3    == f2 \o e1
           front == f3 \o e2
           g1    == sig \o max
           g2    == g1 \o count
           g3    == g2 \o flat
           back  == g3 \o lock
<1>9. b = front \o back  BY <1>0
<1> HIDE DEF len, count, lock, max, A, B, C, D, E, F, G
<1> HIDE DEF f1, f2, f3, front, g1, g2, g3, back
<1>10. /\ f1 \in Seq(Byte) /\ Len(f1) = 41 + A
       /\ g1 \in Seq(Byte) /\ Len(g1) = E + 4
  <2>1. f1 \in Seq(Byte) /\ Len(f1) = 41 + A
    BY <1>3, <1>6, <1>8, TwoParts DEF f1
  <2>2. g1 \in Seq(Byte) /\ Len(g1) = E + 4
    BY <1>5, <1>8, TwoParts DEF g1
  <2>3. QED  BY <2>1, <2>2
<1>11. /\ f2 \in Seq(Byte) /\ Len(f2) = 41 + A + B
       /\ g2 \in Seq(Byte) /\ Len(g2) = E + 4 + F
  <2>1. f2 \in Seq(Byte) /\ Len(f2) = 41 + A + B
    <3>1. f2 \in Seq(Byte) /\ Len(f2) = Len(f1) + Len(in)
      BY <1>10, TwoParts DEF f2
    <3>2. QED  BY <1>8, <1>10, <3>1
  <2>2. g2 \in Seq(Byte) /\ Len(g2) = E + 4 + F
    <3>1. g2 \in Seq(Byte) /\ Len(g2) = Len(g1) + Len(count)
      BY <1>3, <1>10, TwoParts DEF g2
    <3>2. QED  BY <1>8, <1>10, <3>1
  <2>3. QED  BY <2>1, <2>2
<1>12. /\ f3 \in Seq(Byte) /\ Len(f3) = 41 + A + B + C
       /\ g3 \in Seq(Byte) /\ Len(g3) = E + 4 + F + G
  <2>1. f3 \in Seq(Byte) /\ Len(f3) = 41 + A + B + C
    <3>1. f3 \in Seq(Byte) /\ Len(f3) = Len(f2) + Len(e1)
      BY <1>11, TwoParts DEF f3
    <3>2. QED  BY <1>8, <1>11, <3>1
  <2>2. g3 \in Seq(Byte) /\ Len(g3) = E + 4 + F + G
    <3>1. g3 \in Seq(Byte) /\ Len(g3) = Len(g2) + Len(flat)
      BY <1>7, <1>11, TwoParts DEF g3
    <3>2. QED  BY <1>8, <1>11, <3>1
  <2>3. QED  BY <2>1, <2>2
<1>13. /\ front \in Seq(Byte) /\ Len(front) = 41 + A + B + C + D
       /\ back \in Seq(Byte) /\ Len(back) = E + 4 + F + G + 4
  <2>1. front \in Seq(Byte) /\ Len(front) = 41 + A + B + C + D
    <3>1. front \in Seq(Byte) /\ Len(front) = Len(f3) + Len(e2)
      BY <1>12, TwoParts DEF front
    <3>2. QED  BY <1>8, <1>12, <3>1
  <2>2. back \in Seq(Byte) /\ Len(back) = E + 4 + F + G + 4
    <3>1. back \in Seq(Byte) /\ Len(back) = Len(g3) + Len(lock)
      BY <1>4, <1>12, TwoParts DEF back
    <3>2. QED  BY <1>4, <1>8, <1>12, <3>1
  <2>3. QED  BY <2>1, <2>2
<1>14. b \in Seq(Byte) /\ Len(b) = Len(front) + Len(back)
  BY <1>9, <1>13, TwoParts
\* Where the parts stand.
<1> DEFINE one  == 1
           p    == 42 + A
           h    == p + B + C + D
           last == p + size
           l    == last + 4
           o    == l + F
           r    == o + G
<1>15. /\ one \in Int /\ p \in Int /\ h \in Int /\ last \in Int /\ l \in Int /\ o \in Int
       /\ r \in Int /\ p + B \in Int /\ p + B + C \in Int
  BY <1>2, <1>8
<1>16. /\ 42 = one + Len(head) /\ p = one + Len(f1)
       /\ p + B = one + Len(f2) /\ p + B + C = one + Len(f3)
       /\ h = one + Len(front)
  BY <1>6, <1>8, <1>10, <1>11, <1>12, <1>13
<1>17. /\ last = h + Len(sig) /\ l = h + Len(g1) /\ o = h + Len(g2)
       /\ r = h + Len(g3)
  BY <1>8, <1>10, <1>11, <1>12
<1>18. Len(b) = r + 4 - 1
  BY <1>8, <1>13, <1>14
<1> HIDE DEF one, p, h, last, l, o, r
<1>19. IsAt(front, b, one) /\ IsAt(back, b, h)
  <2>1. IsAt(front \o back, b, one)  BY <1>9, <1>14, ItselfIsAt DEF one
  <2>2. QED  BY <1>15, <1>13, <1>16, <2>1, BehindIsAt
<1>20. IsAt(f3, b, one) /\ IsAt(e2, b, p + B + C)
  BY <1>15, <1>12, <1>16, <1>19, BehindIsAt DEF front
<1>21. IsAt(f2, b, one) /\ IsAt(e1, b, p + B)
  BY <1>15, <1>11, <1>16, <1>20, BehindIsAt DEF f3
<1>22. IsAt(f1, b, one) /\ IsAt(in, b, p)
  BY <1>15, <1>10, <1>16, <1>21, BehindIsAt DEF f2
<1>23. IsAt(head, b, one) /\ IsAt(len, b, 42)
  <2>1. IsAt(head \o len, b, one) /\ one \in Int  BY <1>15, <1>22 DEF f1
  <2>2. head \in Seq(Byte) /\ len \in Seq(Byte)  BY <1>3, <1>6
  <2>3. 42 = one + Len(head)  BY <1>16
  <2>4. QED  BY <2>1, <2>2, <2>3, BehindIsAt
<1>24. /\ IsAt(sig, b, h) /\ IsAt(max, b, last) /\ IsAt(count, b, l)
       /\ IsAt(flat, b, o) /\ IsAt(lock, b, r)
  <2>1. IsAt(g3, b, h) /\ IsAt(lock, b, r)
    BY <1>4, <1>12, <1>15, <1>17, <1>19, BehindIsAt DEF back
  <2>2. IsAt(g2, b, h) /\ IsAt(flat, b, o)
    BY <1>7, <1>11, <1>15, <1>17, <2>1, BehindIsAt DEF g3
  <2>3. IsAt(g1, b, h) /\ IsAt(count, b, l)
    BY <1>3, <1>10, <1>15, <1>17, <2>2, BehindIsAt DEF g2
  <2>4. IsAt(sig, b, h) /\ IsAt(max, b, last)
    BY <1>5, <1>15, <1>17, <2>3, BehindIsAt DEF g1
  <2>5. QED  BY <2>1, <2>2, <2>3, <2>4
\* What is read.
<1>25. ReadVarInt(b, 42) = [value |-> size, next |-> p]
  <2>1. 42 \in Int  OBVIOUS
  <2>2. ReadVarInt(b, 42) = [value |-> size, next |-> 42 + Len(len)]
    BY <1>2, <1>23, <2>1, VarIntIsRead DEF len
  <2>3. QED  BY <1>8, <2>2 DEF p
<1>26. ReadVarInt(b, l) = [value |-> n, next |-> o]
  <2>1. IsAt(PackVarInt(n), b, l)  BY <1>24 DEF count
  <2> HIDE DEF n
  <2>2. ReadVarInt(b, l) = [value |-> n, next |-> l + Len(count)]
    BY <1>1, <1>15, <2>1, VarIntIsRead DEF count
  <2>3. QED  BY <1>8, <2>2 DEF o
<1> DEFINE start == OutputStarts(b, o)
<1>27. /\ \A k \in 1 .. n : ReadOutput(b, start[k - 1]) = outs[k]
       /\ start[n] = r
  <2>1. IsAt(FlattenSeq(each), b, o)  BY <1>0, <1>24
  <2>2. each = [k \in 1 .. Len(outs) |-> OutputBytes(outs[k])] /\ outs # <<>>
    BY <1>0
  <2>3. /\ \A k \in 1 .. n : ReadOutput(b, start[k - 1]) = outs[k]
        /\ start[n] = o + Len(FlattenSeq(each))
    BY <1>15, <2>1, <2>2, OutputsAreRead
  <2>4. Len(FlattenSeq(each)) = G  BY <1>0, <1>8
  <2>5. QED  BY <2>3, <2>4 DEF r
<1> DEFINE tx == ReadCoinbase(b)
<1>28. tx = [script   |-> SubSeq(b, p, last - 1),
             outputs  |-> [k \in 1 .. n |-> ReadOutput(b, start[k - 1])],
             complete |-> /\ SubSeq(b, 1, 41) = head
                          /\ SubSeq(b, last, last + 3) = max
                          /\ SubSeq(b, start[n], Len(b)) = lock]
  <2> DEFINE len1   == ReadVarInt(b, 42)
             last1  == len1.next + len1.value
             count1 == ReadVarInt(b, last1 + 4)
             start1 == OutputStarts(b, count1.next)
  <2>1. tx = [script   |-> SubSeq(b, len1.next, last1 - 1),
              outputs  |-> [k \in 1 .. count1.value |->
                               ReadOutput(b, start1[k - 1])],
              complete |-> /\ SubSeq(b, 1, 41) = head
                           /\ SubSeq(b, last1, last1 + 3) = max
                           /\ SubSeq(b, start1[count1.value], Len(b)) = lock]
    <3>1. lock = Zeros(4)
            /\ head = PackLE(1, 4) \o <<1>> \o Zeros(32) \o Max32
      BY <1>0, <1>4
    <3>2. QED  BY <3>1 DEF ReadCoinbase, max
  <2>2. len1.next = p /\ last1 = last
    <3>1. len1.next = p /\ len1.value = size  BY <1>25
    <3>2. QED  BY <3>1 DEF last
  <2>3. count1.value = n /\ count1.next = o
    <3>1. count1 = ReadVarInt(b, l)  BY <2>2 DEF l
    <3> HIDE DEF count1, n
    <3>2. QED  BY <1>26, <3>1
  <2>4. start1 = start  BY <2>3
  <2> HIDE DEF tx, len1, last1, count1, start1, start, n
  <2>5. QED  BY <2>1, <2>2, <2>3, <2>4, Zenon
<1>29. tx.outputs = outs
  <2> HIDE DEF tx
  <2>1. outs = [k \in 1 .. n |-> outs[k]]  BY LenProperties
  <2> HIDE DEF n, start
  <2>2. QED  BY <1>27, <1>28, <2>1
<1>30. tx.script = in \o e1 \o e2 \o sig
  <2> DEFINE w1 == in \o e1
             w2 == w1 \o e2
             w  == w2 \o sig
             k  == last - 1
  <2> HIDE DEF w1, w2, w
  <2>1. w1 \in Seq(Byte) /\ Len(w1) = B + C  BY <1>8, TwoParts DEF w1
  <2>2. w2 \in Seq(Byte) /\ Len(w2) = B + C + D
    BY <1>8, <2>1, TwoParts DEF w2
  <2>3. w \in Seq(Byte) /\ Len(w) = size  BY <1>8, <2>2, TwoParts DEF w
  <2>4. IsAt(w1, b, p)  BY <1>8, <1>15, <1>21, <1>22, PartsAreAt DEF w1
  <2>5. IsAt(w2, b, p)
    <3>1. p + B + C = p + Len(w1)  BY <1>8, <1>15, <2>1
    <3>2. QED  BY <1>15, <1>20, <2>1, <2>4, <3>1, PartsAreAt DEF w2
  <2>6. IsAt(w, b, p)
    <3>1. h = p + Len(w2)  BY <1>8, <1>15, <2>2 DEF h
    <3>2. QED  BY <1>15, <1>24, <2>2, <2>5, <3>1, PartsAreAt DEF w
  <2>7. k \in Int /\ k = p + Len(w) - 1  BY <1>2, <1>15, <2>3 DEF last
  <2> HIDE DEF k, tx, start, n
  <2>8. SubSeq(b, p, k) = w  BY <1>15, <2>3, <2>6, <2>7, IsRead
  <2>9. tx.script = SubSeq(b, p, k)  BY <1>28 DEF k
  <2>10. QED  BY <2>8, <2>9 DEF w, w1, w2
<1>31. tx.complete
  <2>1. SubSeq(b, 1, 41) = head
    <3> DEFINE k == 41
    <3>1. k \in Int /\ k = one + Len(head) - 1  BY <1>6 DEF one
    <3> HIDE DEF k
    <3>2. head \in Seq(Byte) /\ one \in Int /\ IsAt(head, b, one)
      BY <1>6, <1>15, <1>23
    <3>3. SubSeq(b, one, k) = head  BY <3>1, <3>2, IsRead
    <3>4. QED  BY <3>3 DEF one, k
  <2>2. SubSeq(b, last, last + 3) = max
    <3> DEFINE k == last + 3
    <3>1. k \in Int /\ k = last + Len(max) - 1  BY <1>5, <1>15
    <3> HIDE DEF k
    <3>2. max \in Seq(Byte) /\ last \in Int /\ IsAt(max, b, last)
      BY <1>5, <1>15, <1>24
    <3>3. SubSeq(b, last, k) = max  BY <3>1, <3>2, IsRead
    <3>4. QED  BY <3>3 DEF k
  <2>3. SubSeq(b, start[n], Len(b)) = lock
    <3> DEFINE k == Len(b)
    <3>1. k \in Int /\ k = r + Len(lock) - 1  BY <1>4, <1>15, <1>18
    <3> HIDE DEF k, start, n
    <3>2. lock \in Seq(Byte) /\ r \in Int /\ IsAt(lock, b, r)
      BY <1>4, <1>15, <1>24
    <3>3. SubSeq(b, r, k) = lock  BY <3>1, <3>2, IsRead
    <3>4. QED  BY <1>27, <3>3 DEF k
  <2> HIDE DEF tx, start, n
  <2>4. QED  BY <1>28, <2>1, <2>2, <2>3, Zenon
<1>32. QED  BY <1>29, <1>30, <1>31

-----------------------------------------------------------------------------
\* The jobs.

LEMMA AppendFacts ==
    ASSUME NEW s, IsSeq(s), NEW e
    PROVE  /\ IsSeq(Append(s, e)) /\ Len(Append(s, e)) = Len(s) + 1
           /\ DOMAIN Append(s, e) = 1 .. Len(s) + 1
           /\ Append(s, e)[Len(s) + 1] = e
           /\ \A i \in 1 .. Len(s) : Append(s, e)[i] = s[i]
<1>1. PICK S : s \in Seq(S)  BY DEF IsSeq
<1> DEFINE U == S \cup {e}
<1>2. s \in Seq(U) /\ e \in U  BY <1>1, SeqMonotonic
<1> HIDE DEF U
<1>3. Append(s, e) \in Seq(U) /\ Len(Append(s, e)) = Len(s) + 1
  BY <1>2
<1>4. IsSeq(Append(s, e))  BY <1>3 DEF IsSeq
<1>5. /\ Append(s, e)[Len(s) + 1] = e
      /\ \A i \in 1 .. Len(s) : Append(s, e)[i] = s[i]
  BY <1>2
<1>6. QED  BY <1>3, <1>4, <1>5, SeqFacts

\* A job is what the constructor made of its template, at a time at which it
\* could.
IsJob(job) ==
    /\ job.blockTemplate \in Template
    /\ job.made \in 0 .. MaxInt32
    /\ ~JobThrows(job.blockTemplate, job.made)
    /\ job = MakeJob(job.blockTemplate, job.made)

\* A template in thrown is one the constructor throws on, at this second: the
\* process has ended.
ThrownThrows == \A t \in thrown : t \in Template /\ JobThrows(t, second)

\* The inductive invariant.
JobInv ==
    /\ AssemblyTypeOK
    /\ IsSeq(jobs) /\ IsSeq(registered)
    /\ \A i \in DOMAIN jobs : IsJob(jobs[i])
    /\ ThrownThrows

LEMMA JobInitInv == AssemblyInit => JobInv
<1> SUFFICES ASSUME AssemblyInit PROVE JobInv
  OBVIOUS
<1>1. second \in Int32 /\ MaxTick \in Nat /\ MaxJob \in Nat
  BY JobBounds DEF AssemblyInit
<1>2. <<>> \in Seq({}) /\ Len(<<>>) = 0 /\ DOMAIN <<>> = {}  OBVIOUS
<1>3. IsSeq(<<>>)  BY <1>2 DEF IsSeq
<1>4. AssemblyTypeOK
  BY <1>1, <1>2 DEF AssemblyInit, AssemblyTypeOK
<1>5. QED  BY <1>2, <1>3, <1>4 DEF AssemblyInit, JobInv, ThrownThrows

LEMMA TickKeepsInv == JobInv /\ Tick => JobInv'
<1> SUFFICES ASSUME JobInv, Tick PROVE JobInv'
  OBVIOUS
<1>1. second' \in Int32
  BY MaxInt32Is DEF JobInv, AssemblyTypeOK, Tick, Int32
<1>2. ticks' \in 0 .. MaxTick
  BY JobBounds DEF JobInv, AssemblyTypeOK, Tick
<1>3. UNCHANGED <<jobs, registered, thrown>> /\ thrown = {}  BY DEF Tick
<1>4. QED  BY <1>1, <1>2, <1>3 DEF JobInv, AssemblyTypeOK, ThrownThrows

LEMMA NewJobKeepsInv ==
    ASSUME JobInv, NEW t \in Template, NewJob(t)
    PROVE  JobInv'
<1> DEFINE n   == Len(jobs)
           job == MakeJob(t, second)
<1>1. CASE JobThrows(t, second)
  <2>1. thrown' = {t} /\ UNCHANGED <<jobs, registered, second, ticks>>
    BY <1>1 DEF NewJob
  <2>2. AssemblyTypeOK'  BY <2>1 DEF JobInv, AssemblyTypeOK
  <2>3. ThrownThrows'  BY <1>1, <2>1 DEF ThrownThrows
  <2>4. QED  BY <2>1, <2>2, <2>3 DEF JobInv
<1>2. CASE ~JobThrows(t, second)
  <2>1. /\ jobs' = Append(jobs, job) /\ registered' = Append(registered, {})
        /\ UNCHANGED <<thrown, second, ticks>> /\ thrown = {} /\ n < MaxJob
    BY <1>2 DEF NewJob
  <2>2. second \in 0 .. MaxInt32
    BY <1>2, MaxInt32Is DEF JobInv, AssemblyTypeOK, JobThrows, CoinbaseThrows,
       Serializable, Int32
  <2>3. job.blockTemplate = t /\ job.made = second
        /\ job.coinbase1 = CreateCoinbase1(t, second)
        /\ job.coinbase2 = CreateCoinbase2(t)
    BY DEF MakeJob
  <2>4. IsJob(job)  BY <1>2, <2>2, <2>3 DEF IsJob
  <2>5. job.coinbase1 \in Seq(Byte) /\ job.coinbase2 \in Seq(Byte)
    BY <2>2, <2>3, Coinbase1IsBytes, Coinbase2IsBytes
  <2> HIDE DEF job
  <2>6. /\ n \in Nat /\ DOMAIN jobs = 1 .. n /\ Len(registered) = n
    <3>1. /\ n \in Nat /\ DOMAIN jobs = 1 .. n
          /\ Len(registered) \in Nat /\ DOMAIN registered = 1 .. Len(registered)
      BY SeqFacts DEF JobInv
    <3>2. 1 .. n = 1 .. Len(registered)
      BY <3>1 DEF JobInv, AssemblyTypeOK
    <3>3. \A a, b \in Nat : 1 .. a = 1 .. b => a = b  OBVIOUS
    <3> HIDE DEF n
    <3>4. Len(registered) = n  BY <3>1, <3>2, <3>3
    <3>5. QED  BY <3>1, <3>4
  <2>7. /\ IsSeq(jobs') /\ Len(jobs') = n + 1 /\ DOMAIN jobs' = 1 .. n + 1
        /\ jobs'[n + 1] = job
        /\ \A i \in 1 .. n : jobs'[i] = jobs[i]
    BY <2>1, AppendFacts DEF JobInv
  <2>8. /\ IsSeq(registered') /\ DOMAIN registered' = 1 .. n + 1
        /\ registered'[n + 1] = {}
        /\ \A i \in 1 .. n : registered'[i] = registered[i]
    BY <2>1, <2>6, AppendFacts DEF JobInv
  <2> HIDE DEF n
  <2>9. ASSUME NEW i \in DOMAIN jobs'
        PROVE  /\ IsJob(jobs'[i])
               /\ jobs'[i].blockTemplate \in Template
               /\ jobs'[i].coinbase1 \in Seq(Byte)
               /\ jobs'[i].coinbase2 \in Seq(Byte)
               /\ registered'[i] \in SUBSET Share
    <3>1. CASE i = n + 1
      BY <2>3, <2>4, <2>5, <2>7, <2>8, <3>1 DEF IsJob
    <3>2. CASE i \in 1 .. n
      BY <2>6, <2>7, <2>8, <3>2 DEF JobInv, AssemblyTypeOK
    <3>3. i = n + 1 \/ i \in 1 .. n  BY <2>6, <2>7
    <3>4. QED  BY <3>1, <3>2, <3>3
  <2>10. AssemblyTypeOK'
    <3>1. n + 1 <= MaxJob  BY <2>1, <2>6, JobBounds
    <3>2. QED  BY <2>1, <2>7, <2>8, <2>9, <3>1 DEF JobInv, AssemblyTypeOK
  <2>11. ThrownThrows'  BY <2>1 DEF ThrownThrows
  <2>12. QED  BY <2>7, <2>8, <2>9, <2>10, <2>11 DEF JobInv
<1>3. QED  BY <1>1, <1>2

LEMMA RegisterSubmitKeepsInv ==
    ASSUME JobInv, NEW i, NEW share \in Share, RegisterSubmit(i, share)
    PROVE  JobInv'
<1>1. /\ i \in DOMAIN registered
      /\ registered' = [registered EXCEPT ![i] = @ \cup {share}]
      /\ UNCHANGED <<second, ticks, jobs, thrown>>
  BY DEF RegisterSubmit, JobInv, AssemblyTypeOK
<1>2. /\ DOMAIN registered' = DOMAIN registered
      /\ \A j \in DOMAIN registered : registered'[j] \in SUBSET Share
  BY <1>1 DEF JobInv, AssemblyTypeOK
<1>3. IsSeq(registered')
  <2> DEFINE n == Len(registered)
  <2>1. n \in Nat /\ registered = [j \in 1 .. n |-> registered[j]]
    BY SeqFacts DEF JobInv
  <2> HIDE DEF n
  <2>2. registered' = [j \in 1 .. n |-> registered'[j]]  BY <1>1, <2>1
  <2>3. QED  BY <2>1, <2>2, MakeSeq
<1>4. AssemblyTypeOK'  BY <1>1, <1>2 DEF JobInv, AssemblyTypeOK
<1>5. QED  BY <1>1, <1>3, <1>4 DEF JobInv, ThrownThrows

LEMMA JobInvAlways == AssemblySpec => []JobInv
<1>1. ASSUME JobInv, [AssemblyNext]_jobVars PROVE JobInv'
  <2>1. CASE Tick  BY <1>1, <2>1, TickKeepsInv
  <2>2. ASSUME NEW t \in Template, NewJob(t) PROVE JobInv'
    BY <1>1, <2>2, NewJobKeepsInv
  <2>3. ASSUME NEW i \in 1 .. MaxJob, NEW share \in Share,
               RegisterSubmit(i, share)
        PROVE  JobInv'
    BY <1>1, <2>3, RegisterSubmitKeepsInv
  <2>4. CASE UNCHANGED jobVars
    BY <1>1, <2>4 DEF jobVars, JobInv, AssemblyTypeOK, ThrownThrows
  <2>5. QED  BY <1>1, <2>1, <2>2, <2>3, <2>4 DEF AssemblyNext
<1>2. JobInv /\ [AssemblyNext]_jobVars => JobInv'  BY <1>1
<1>3. QED  BY <1>2, JobInitInv, PTL DEF AssemblySpec

\* How many outputs there are.
LEMMA OutputCount ==
    ASSUME NEW t \in Template
    PROVE  /\ Len(TxOutputs(t)) = 6 + Len(t.znode) + Len(t.witness)
           /\ TxOutputs(t) # <<>>
           /\ Len(TxOutputs(t)) <= MaxInt32
<1> DEFINE w == WitnessOutputs(t)
           p == <<Pay(t.coinbasevalue, PoolAddress)>>
           z == ZnodeOutputs(t)
           f == FounderOutputs
           y == Len(t.witness)
           x == Len(t.znode)
<1>1. x \in Nat /\ x <= 1 /\ y \in Nat /\ y <= 1
  BY TemplateFacts, LenProperties
<1>2. IsSeq(w) /\ Len(w) = y
  <2>1. w = [i \in 1 .. y |-> w[i]]  BY DEF WitnessOutputs
  <2> HIDE DEF w, y
  <2>2. QED  BY <1>1, <2>1, MakeSeq
<1>3. IsSeq(z) /\ Len(z) = x
  <2>1. z = [i \in 1 .. x |-> z[i]]  BY DEF ZnodeOutputs
  <2> HIDE DEF z, x
  <2>2. QED  BY <1>1, <2>1, MakeSeq
<1>4. IsSeq(f) /\ Len(f) = 5
  <2>1. f = [i \in 1 .. 5 |-> f[i]]  BY DEF FounderOutputs
  <2>2. 5 \in Nat  OBVIOUS
  <2>3. QED  BY <2>1, <2>2, MakeSeq
<1>5. IsSeq(p) /\ Len(p) = 1
  <2>1. p \in Seq({Pay(t.coinbasevalue, PoolAddress)})  OBVIOUS
  <2>2. QED  BY <2>1 DEF IsSeq
<1>6. TxOutputs(t) = w \o p \o z \o f  BY DEF TxOutputs
<1> HIDE DEF w, p, z, f, x, y
<1>7. IsSeq(w \o p) /\ Len(w \o p) = y + 1
  <2>1. IsSeq(w \o p) /\ Len(w \o p) = Len(w) + Len(p)
    BY <1>2, <1>5, ConcatFacts
  <2>2. QED  BY <1>1, <1>2, <1>5, <2>1
<1>8. IsSeq(w \o p \o z) /\ Len(w \o p \o z) = y + 1 + x
  <2>1. /\ IsSeq(w \o p \o z)
        /\ Len(w \o p \o z) = Len(w \o p) + Len(z)
    BY <1>3, <1>7, ConcatFacts
  <2>2. QED  BY <1>1, <1>3, <1>7, <2>1
<1>9. IsSeq(w \o p \o z \o f) /\ Len(w \o p \o z \o f) = y + 1 + x + 5
  <2>1. /\ IsSeq(w \o p \o z \o f)
        /\ Len(w \o p \o z \o f) = Len(w \o p \o z) + Len(f)
    BY <1>4, <1>8, ConcatFacts
  <2>2. QED  BY <1>1, <1>4, <1>8, <2>1
<1>10. Len(TxOutputs(t)) = 6 + x + y  BY <1>1, <1>6, <1>9
<1>11. TxOutputs(t) # <<>>  BY <1>1, <1>6, <1>9, <1>10, SeqFacts
<1>12. Len(TxOutputs(t)) <= MaxInt32
  <2>1. 8 <= MaxInt32  BY SMT DEF MaxInt32
  <2>2. QED  BY <1>1, <1>10, <2>1, MaxInt32Is
<1>13. QED  BY <1>10, <1>11, <1>12 DEF x, y

\* The coinbase of a share, as the daemon reads it.
LEMMA CoinbaseIsRead ==
    ASSUME JobInv, NEW i \in DOMAIN jobs, NEW share \in registered[i]
    PROVE  LET t  == jobs[i].blockTemplate
               tx == ReadCoinbase(SerializeCoinbase(jobs[i], share))
           IN  /\ tx.script = InputScript(t, jobs[i].made)
                     \o share.extraNonce1 \o share.extraNonce2
                     \o SerializeString(Signature)
               /\ tx.outputs = TxOutputs(t)
               /\ tx.complete
<1> DEFINE job  == jobs[i]
           t    == job.blockTemplate
           now  == job.made
           e1   == share.extraNonce1
           e2   == share.extraNonce2
           in   == InputScript(t, now)
           sig  == SerializeString(Signature)
           outs == TxOutputs(t)
           size == InputScriptLen(t, now)
           head == PackLE(1, 4) \o <<1>> \o Zeros(32) \o Max32
           each == [k \in 1 .. Len(outs) |-> OutputBytes(outs[k])]
           flat == FlattenSeq(each)
           b    == SerializeCoinbase(job, share)
<1>1. /\ t \in Template /\ now \in 0 .. MaxInt32
      /\ ~CoinbaseThrows(t, now) /\ job = MakeJob(t, now)
  BY DEF JobInv, IsJob, JobThrows
<1>2. /\ e1 \in Seq(Byte) /\ e2 \in Seq(Byte)
      /\ Len(e1) + Len(e2) = ExtraNonceSize
  <2>1. share \in Share  BY DEF JobInv, AssemblyTypeOK
  <2>2. QED  BY <2>1, ShareAssumption
<1>3. in \in Seq(Byte) /\ sig \in Seq(Byte) /\ outs \in Seq(Output)
  BY <1>1, CoinbaseAssumption, InputScriptIsBytes, SerializeStringIsBytes,
     OutputsAreOutputs
<1>4. outs # <<>> /\ Len(outs) <= MaxInt32  BY <1>1, OutputCount
<1>5. /\ job.coinbase1 = head \o PackVarInt(size) \o in
      /\ job.coinbase2 = sig \o Max32 \o PackVarInt(Len(outs)) \o flat
                             \o PackLE(0, 4)
  <2>1. /\ MakeJob(t, now).coinbase1 = CreateCoinbase1(t, now)
        /\ MakeJob(t, now).coinbase2 = CreateCoinbase2(t)
    BY DEF MakeJob
  <2>2. /\ CreateCoinbase1(t, now) = head \o PackVarInt(size) \o in
        /\ CreateCoinbase2(t) = sig \o Max32 \o PackVarInt(Len(outs)) \o flat
                                    \o PackLE(0, 4)
    BY <1>1, CoinbaseParts
  <2> HIDE DEF job, t, now, head, size, in, sig, outs, flat
  <2>3. QED  BY <1>1, <2>1, <2>2
<1>6. b = (head \o PackVarInt(size) \o in) \o e1 \o e2
              \o (sig \o Max32 \o PackVarInt(Len(outs)) \o flat
                      \o PackLE(0, 4))
  <2> HIDE DEF job, head, size, in, sig, outs, flat
  <2>1. QED  BY <1>5, Zenon DEF SerializeCoinbase
<1>7. size = Len(in) + Len(e1) + Len(e2) + Len(sig) /\ size \in 0 .. MaxInt32
  <2>1. Len(in) \in Nat /\ Len(e1) \in Nat /\ Len(e2) \in Nat /\ Len(sig) \in Nat
    BY <1>2, <1>3, LenProperties
  <2>2. size = Len(in) + ExtraNonceSize + Len(sig)  BY DEF InputScriptLen
  <2>3. size <= 100
    <3>1. Serializable(now)  BY <1>1, MaxInt32Is DEF Serializable
    <3>2. ~(size > 100)  BY <1>1 DEF CoinbaseThrows, InputMax
    <3>3. size \in Nat  BY <1>1, InputScriptIsBytes
    <3>4. QED  BY <3>2, <3>3
  <2>4. 100 <= MaxInt32  BY SMT DEF MaxInt32
  <2> HIDE DEF in, e1, e2, sig, size
  <2>5. size = Len(in) + Len(e1) + Len(e2) + Len(sig)
    BY <1>2, <2>1, <2>2
  <2>6. QED  BY <2>1, <2>3, <2>4, <2>5, MaxInt32Is
<1> HIDE DEF in, e1, e2, sig, outs, size, head, flat, b
<1>8. /\ ReadCoinbase(b).script = in \o e1 \o e2 \o sig
      /\ ReadCoinbase(b).outputs = outs
      /\ ReadCoinbase(b).complete
  <2>1. head = PackLE(1, 4) \o <<1>> \o Zeros(32) \o Max32  BY DEF head
  <2>2. flat = FlattenSeq(each)  BY DEF flat
  <2>3. each = [k \in 1 .. Len(outs) |-> OutputBytes(outs[k])]  OBVIOUS
  <2>4. Len(outs) <= MaxInt32 /\ outs # <<>>  BY <1>4
  <2>5. /\ size \in 0 .. MaxInt32
        /\ size = Len(in) + Len(e1) + Len(e2) + Len(sig)
    BY <1>7
  <2> HIDE DEF each
  <2>6. /\ in \in Seq(Byte) /\ e1 \in Seq(Byte) /\ e2 \in Seq(Byte)
        /\ sig \in Seq(Byte) /\ outs \in Seq(Output)
    BY <1>2, <1>3
  <2>7. IsCoinbase(in, e1, e2, sig, outs, size, head, each, flat, b)
    BY <1>6, <2>1, <2>2, <2>3, <2>4, <2>5, <2>6, Zenon DEF IsCoinbase
  <2>8. QED  BY <2>7, PartsAreRead, Zenon
<1>9. QED  BY <1>8 DEF in, e1, e2, sig, outs, b

\* b is the script of a coinbase's input that is made of these parts.
IsScript(height, flags, time, e1, e2, s, b) ==
    /\ height \in 0 .. MaxInt32 /\ time \in 0 .. MaxInt32
    /\ flags \in Seq(Byte) /\ e1 \in Seq(Byte) /\ e2 \in Seq(Byte)
    /\ s \in Seq(Byte) /\ Len(s) < 253
    /\ b = (SerializeNumber(height) \o flags \o SerializeNumber(time) \o <<16>>)
               \o e1 \o e2 \o SerializeString(s)

\* The height is read at its beginning, the time behind the flags, and the rest
\* is as it must be.
LEMMA ScriptIsRead ==
    ASSUME NEW height, NEW flags, NEW time, NEW e1, NEW e2, NEW s, NEW b,
           IsScript(height, flags, time, e1, e2, s, b)
    PROVE  LET j == 1 + Len(SerializeNumber(height)) + Len(flags)
               k == j + Len(SerializeNumber(time))
           IN  /\ ReadNumber(b, 1) =
                     [value |-> height, next |-> 1 + Len(SerializeNumber(height))]
               /\ ReadNumber(b, j) = [value |-> time, next |-> k]
               /\ SubSeq(b, k, Len(b)) =
                     << 16 >> \o e1 \o e2 \o <<Len(s)>> \o s
               /\ 2 <= Len(b)
<1>0. SUFFICES ASSUME
               /\ height \in 0 .. MaxInt32 /\ time \in 0 .. MaxInt32
               /\ flags \in Seq(Byte) /\ e1 \in Seq(Byte) /\ e2 \in Seq(Byte)
               /\ s \in Seq(Byte) /\ Len(s) < 253,
               b = (SerializeNumber(height) \o flags \o SerializeNumber(time)
                        \o << 16 >>)
                       \o e1 \o e2 \o SerializeString(s)
        PROVE  LET j == 1 + Len(SerializeNumber(height)) + Len(flags)
                   k == j + Len(SerializeNumber(time))
               IN  /\ ReadNumber(b, 1) =
                         [value |-> height,
                          next |-> 1 + Len(SerializeNumber(height))]
                   /\ ReadNumber(b, j) = [value |-> time, next |-> k]
                   /\ SubSeq(b, k, Len(b)) =
                         << 16 >> \o e1 \o e2 \o <<Len(s)>> \o s
                   /\ 2 <= Len(b)
  BY Zenon DEF IsScript
<1> DEFINE x == SerializeNumber(height)
           y == SerializeNumber(time)
           z == SerializeString(s)
           o == <<16>>
           l == <<Len(s)>>
           A == Len(x)
           B == Len(flags)
           C == Len(y)
           D == Len(e1)
           E == Len(e2)
           F == Len(s)
<1>1. /\ x \in Seq(Byte) /\ A \in 1 .. 5 /\ y \in Seq(Byte) /\ C \in 1 .. 5
  BY <1>0, SerializeNumberIsBytes
<1>2. /\ flags \in Seq(Byte) /\ e1 \in Seq(Byte) /\ e2 \in Seq(Byte)
      /\ s \in Seq(Byte)
      /\ B \in Nat /\ D \in Nat /\ E \in Nat /\ F \in Nat /\ F < 253
  BY <1>0, LenProperties
<1>3. /\ o \in Seq(Byte) /\ Len(o) = 1 /\ l \in Seq(Byte) /\ Len(l) = 1
  <2>1. 16 \in Byte /\ \A n \in Nat : n < 253 => n \in Byte  BY DEF Byte
  <2>2. Len(s) \in Byte  BY <1>2, <2>1
  <2>3. QED  BY <2>1, <2>2, ByteIsBytes
<1>4. z = l \o s /\ z \in Seq(Byte) /\ Len(z) = 1 + F
  <2>1. z = l \o s  BY <1>2 DEF SerializeString
  <2> HIDE DEF z, l
  <2>2. z \in Seq(Byte) /\ Len(z) = Len(l) + Len(s)  BY <1>2, <1>3, <2>1, TwoParts
  <2>3. QED  BY <1>3, <2>1, <2>2
<1> DEFINE f1 == x \o flags
           f2 == f1 \o y
           f3 == f2 \o o
           f4 == f3 \o e1
           f5 == f4 \o e2
<1>5. b = f5 \o z  BY <1>0, Zenon
<1>6. /\ Len(x) = A /\ Len(flags) = B /\ Len(y) = C /\ Len(e1) = D
      /\ Len(e2) = E /\ Len(s) = F
  OBVIOUS
<1> HIDE DEF x, y, z, o, l, A, B, C, D, E, F, f1, f2, f3, f4, f5
<1>7. f1 \in Seq(Byte) /\ Len(f1) = A + B
  BY <1>1, <1>2, <1>6, TwoParts DEF f1
<1>8. f2 \in Seq(Byte) /\ Len(f2) = A + B + C
  <2>1. f2 \in Seq(Byte) /\ Len(f2) = Len(f1) + Len(y)
    BY <1>1, <1>7, TwoParts DEF f2
  <2>2. QED  BY <1>1, <1>2, <1>6, <1>7, <2>1
<1>9. f3 \in Seq(Byte) /\ Len(f3) = A + B + C + 1
  <2>1. f3 \in Seq(Byte) /\ Len(f3) = Len(f2) + Len(o)
    BY <1>3, <1>8, TwoParts DEF f3
  <2>2. QED  BY <1>1, <1>2, <1>3, <1>8, <2>1
<1>10. f4 \in Seq(Byte) /\ Len(f4) = A + B + C + 1 + D
  <2>1. f4 \in Seq(Byte) /\ Len(f4) = Len(f3) + Len(e1)
    BY <1>2, <1>9, TwoParts DEF f4
  <2>2. QED  BY <1>1, <1>2, <1>6, <1>9, <2>1
<1>11. f5 \in Seq(Byte) /\ Len(f5) = A + B + C + 1 + D + E
  <2>1. f5 \in Seq(Byte) /\ Len(f5) = Len(f4) + Len(e2)
    BY <1>2, <1>10, TwoParts DEF f5
  <2>2. QED  BY <1>1, <1>2, <1>6, <1>10, <2>1
<1>12. b \in Seq(Byte) /\ Len(b) = A + B + C + 1 + D + E + 1 + F
  <2>1. b \in Seq(Byte) /\ Len(b) = Len(f5) + Len(z)
    BY <1>4, <1>5, <1>11, TwoParts
  <2>2. QED  BY <1>1, <1>2, <1>4, <1>11, <2>1
\* Where the parts stand.
<1> DEFINE one == 1
           i == one + A
           j == i + B
           k == j + C
           m == k + 1
           n == m + D
           p == n + E
           q == p + 1
<1>13. /\ one \in Int /\ i \in Int /\ j \in Int /\ k \in Int /\ m \in Int
       /\ n \in Int /\ p \in Int /\ q \in Int
  BY <1>1, <1>2
<1>14. /\ i = one + Len(x) /\ j = one + Len(f1) /\ k = one + Len(f2)
       /\ m = one + Len(f3) /\ n = one + Len(f4) /\ p = one + Len(f5)
  BY <1>1, <1>2, <1>6, <1>7, <1>8, <1>9, <1>10, <1>11
<1>15. /\ q = p + Len(l) /\ m = k + Len(o) /\ n = m + Len(e1)
       /\ p = n + Len(e2) /\ Len(b) = q + F - 1
  BY <1>1, <1>2, <1>3, <1>6, <1>12
<1>16. IsAt(b, b, one)  BY <1>12, ItselfIsAt
<1> HIDE DEF one, i, j, k, m, n, p, q
<1>17. IsAt(f5, b, one) /\ IsAt(z, b, p)
  BY <1>4, <1>5, <1>11, <1>13, <1>14, <1>16, BehindIsAt
<1>18. IsAt(f4, b, one) /\ IsAt(e2, b, n)
  BY <1>2, <1>10, <1>13, <1>14, <1>17, BehindIsAt DEF f5
<1>19. IsAt(f3, b, one) /\ IsAt(e1, b, m)
  BY <1>2, <1>9, <1>13, <1>14, <1>18, BehindIsAt DEF f4
<1>20. IsAt(f2, b, one) /\ IsAt(o, b, k)
  BY <1>3, <1>8, <1>13, <1>14, <1>19, BehindIsAt DEF f3
<1>21. IsAt(f1, b, one) /\ IsAt(y, b, j)
  BY <1>1, <1>7, <1>13, <1>14, <1>20, BehindIsAt DEF f2
<1>22. IsAt(x, b, one)
  BY <1>1, <1>2, <1>13, <1>14, <1>21, BehindIsAt DEF f1
<1>23. IsAt(l, b, p) /\ IsAt(s, b, q)
  BY <1>2, <1>3, <1>4, <1>13, <1>15, <1>17, BehindIsAt
\* The parts from the extra nonces' length on, once more in one piece.
<1> DEFINE w1 == o \o e1
           w2 == w1 \o e2
           w3 == w2 \o l
           w  == w3 \o s
<1> HIDE DEF w1, w2, w3, w
<1>24. /\ w1 \in Seq(Byte) /\ n = k + Len(w1) /\ IsAt(w1, b, k)
  <2>1. w1 \in Seq(Byte) /\ Len(w1) = Len(o) + Len(e1)
    BY <1>2, <1>3, TwoParts DEF w1
  <2>2. n = k + Len(w1)  BY <1>2, <1>3, <1>6, <1>13, <1>15, <2>1
  <2>3. m = k + Len(o)  BY <1>15
  <2>4. IsAt(w1, b, k)
    BY <1>2, <1>3, <1>13, <1>19, <1>20, <2>3, PartsAreAt DEF w1
  <2>5. QED  BY <2>1, <2>2, <2>4
<1>25. /\ w2 \in Seq(Byte) /\ p = k + Len(w2) /\ IsAt(w2, b, k)
  <2>1. w2 \in Seq(Byte) /\ Len(w2) = Len(w1) + Len(e2)
    BY <1>2, <1>24, TwoParts DEF w2
  <2>2. Len(w1) \in Nat  BY <1>24, LenProperties
  <2>3. p = k + Len(w2)
    <3>1. /\ n = k + Len(w1) /\ p = n + Len(e2) /\ Len(w2) = Len(w1) + Len(e2)
          /\ k \in Int /\ Len(w1) \in Nat /\ Len(e2) \in Nat
      BY <1>2, <1>6, <1>13, <1>15, <1>24, <2>1, <2>2
    <3>2. QED  BY <3>1
  <2>4. IsAt(w2, b, k)
    BY <1>2, <1>13, <1>18, <1>24, PartsAreAt DEF w2
  <2>5. QED  BY <2>1, <2>3, <2>4
<1>26. /\ w3 \in Seq(Byte) /\ q = k + Len(w3) /\ IsAt(w3, b, k)
  <2>1. w3 \in Seq(Byte) /\ Len(w3) = Len(w2) + Len(l)
    BY <1>3, <1>25, TwoParts DEF w3
  <2>2. Len(w2) \in Nat  BY <1>25, LenProperties
  <2>3. q = k + Len(w3)
    BY <1>3, <1>13, <1>15, <1>25, <2>1, <2>2
  <2>4. IsAt(w3, b, k)
    BY <1>3, <1>13, <1>23, <1>25, PartsAreAt DEF w3
  <2>5. QED  BY <2>1, <2>3, <2>4
<1>27. w \in Seq(Byte) /\ Len(b) = k + Len(w) - 1 /\ IsAt(w, b, k)
  <2>1. w \in Seq(Byte) /\ Len(w) = Len(w3) + Len(s)
    BY <1>2, <1>26, TwoParts DEF w
  <2>2. Len(w3) \in Nat  BY <1>26, LenProperties
  <2>3. Len(b) = k + Len(w) - 1
    <3>1. /\ q = k + Len(w3) /\ Len(b) = q + Len(s) - 1
          /\ Len(w) = Len(w3) + Len(s)
          /\ k \in Int /\ Len(w3) \in Nat /\ Len(s) \in Nat
      BY <1>2, <1>6, <1>13, <1>15, <1>26, <2>1, <2>2
    <3>2. QED  BY <3>1
  <2>4. IsAt(w, b, k)
    BY <1>2, <1>13, <1>23, <1>26, PartsAreAt DEF w
  <2>5. QED  BY <2>1, <2>3, <2>4
<1>28. SubSeq(b, k, Len(b)) = w
  <2>1. Len(b) \in Int  BY <1>12, LenProperties
  <2>2. QED  BY <1>13, <1>27, <2>1, IsRead
<1>29. w = o \o e1 \o e2 \o l \o s  BY DEF w, w1, w2, w3
<1>30. ReadNumber(b, one) = [value |-> height, next |-> one + Len(x)]
  BY <1>0, <1>13, <1>22, NumberIsRead DEF x
<1>31. ReadNumber(b, j) = [value |-> time, next |-> j + Len(y)]
  BY <1>0, <1>13, <1>21, NumberIsRead DEF y
<1>32. 2 <= Len(b)  BY <1>1, <1>2, <1>12
<1>33. /\ j = one + Len(x) + Len(flags) /\ k = j + Len(y)
  BY <1>6 DEF i, j, k
<1>34. QED
  BY <1>28, <1>29, <1>30, <1>31, <1>32, <1>33 DEF one, x, y, o, l

\* What is in two sequences, one behind the other.
LEMMA RangeOfBoth ==
    ASSUME NEW s, NEW t, IsSeq(s), IsSeq(t)
    PROVE  Range(s \o t) = Range(s) \cup Range(t)
<1> DEFINE b == s \o t
           m == Len(s)
           n == Len(t)
<1>1. /\ IsSeq(b) /\ Len(b) = m + n
      /\ \A i \in 1 .. m : b[i] = s[i]
      /\ \A i \in 1 .. n : b[m + i] = t[i]
  BY ConcatFacts
<1>2. m \in Nat /\ n \in Nat /\ DOMAIN s = 1 .. m /\ DOMAIN t = 1 .. n
  BY SeqFacts
<1>3. DOMAIN b = 1 .. m + n  BY <1>1, SeqFacts
<1> HIDE DEF b, m, n
<1>4. /\ \A i \in 1 .. m : i \in 1 .. m + n
      /\ \A i \in 1 .. n : m + i \in 1 .. m + n
      /\ \A i \in 1 .. m + n : i \in 1 .. m
                                 \/ (i - m \in 1 .. n /\ i = m + (i - m))
  BY <1>2
<1>5. Range(b) \subseteq Range(s) \cup Range(t)
  <2> SUFFICES ASSUME NEW i \in 1 .. m + n
               PROVE  b[i] \in Range(s) \cup Range(t)
    BY <1>3 DEF Range
  <2>1. CASE i \in 1 .. m
    <3>1. b[i] = s[i] /\ i \in DOMAIN s  BY <1>1, <1>2, <2>1
    <3>2. QED  BY <3>1 DEF Range
  <2>2. CASE i - m \in 1 .. n /\ i = m + (i - m)
    <3>1. b[m + (i - m)] = t[i - m]  BY <1>1, <2>2
    <3>2. b[i] = t[i - m] /\ i - m \in DOMAIN t  BY <1>2, <2>2, <3>1
    <3>3. QED  BY <3>2 DEF Range
  <2>3. QED  BY <1>4, <2>1, <2>2
<1>6. Range(s) \subseteq Range(b)
  <2> SUFFICES ASSUME NEW i \in 1 .. m PROVE s[i] \in Range(b)
    BY <1>2 DEF Range
  <2>1. i \in DOMAIN b /\ s[i] = b[i]  BY <1>1, <1>3, <1>4
  <2>2. QED  BY <2>1 DEF Range
<1>7. Range(t) \subseteq Range(b)
  <2> SUFFICES ASSUME NEW i \in 1 .. n PROVE t[i] \in Range(b)
    BY <1>2 DEF Range
  <2>1. m + i \in DOMAIN b /\ t[i] = b[m + i]  BY <1>1, <1>3, <1>4
  <2>2. QED  BY <2>1 DEF Range
<1>8. QED  BY <1>5, <1>6, <1>7 DEF b

\* Who is paid by the outputs of a template.
LEMMA PaidOutputs ==
    ASSUME NEW t \in Template
    PROVE  Range(TxOutputs(t)) = PaidBy(t)
<1> DEFINE w == WitnessOutputs(t)
           p == <<Pay(t.coinbasevalue, PoolAddress)>>
           z == ZnodeOutputs(t)
           f == FounderOutputs
           ws == {[amount |-> 0, script |-> v] : v \in Range(t.witness)}
           ps == {Pay(t.coinbasevalue, PoolAddress)}
           zs == {Pay(v.amount, v.payee) : v \in Range(t.znode)}
           small == 50000000
           large == 150000000
           fs == {Pay(small, Founder[k]) : k \in {1, 2, 3, 5}}
                   \cup {Pay(large, Founder[4])}
<1> HIDE DEF small, large
<1> SUFFICES Range(TxOutputs(t)) = ps \cup zs \cup fs \cup ws
  BY SMT DEF small, large, PaidBy
<1>1. /\ Len(t.znode) \in Nat /\ DOMAIN t.znode = 1 .. Len(t.znode)
      /\ Len(t.witness) \in Nat /\ DOMAIN t.witness = 1 .. Len(t.witness)
  BY TemplateFacts, LenProperties
<1>2. IsSeq(w) /\ Range(w) = ws
  <2>1. /\ DOMAIN w = 1 .. Len(t.witness)
        /\ \A i \in 1 .. Len(t.witness) :
              w[i] = [amount |-> 0, script |-> t.witness[i]]
    BY DEF WitnessOutputs
  <2>2. w = [i \in 1 .. Len(t.witness) |-> w[i]]  BY DEF WitnessOutputs
  <2> HIDE DEF w
  <2>3. IsSeq(w)  BY <1>1, <2>2, MakeSeq
  <2>4. QED  BY <1>1, <2>1, <2>3 DEF Range
<1>3. IsSeq(z) /\ Range(z) = zs
  <2>1. /\ DOMAIN z = 1 .. Len(t.znode)
        /\ \A i \in 1 .. Len(t.znode) :
              z[i] = Pay(t.znode[i].amount, t.znode[i].payee)
    BY DEF ZnodeOutputs
  <2>2. z = [i \in 1 .. Len(t.znode) |-> z[i]]  BY DEF ZnodeOutputs
  <2> HIDE DEF z
  <2>3. IsSeq(z)  BY <1>1, <2>2, MakeSeq
  <2>4. QED  BY <1>1, <2>1, <2>3 DEF Range
<1> DEFINE paid(i) == Pay(IF i = 4 THEN large ELSE small, Founder[i])
<1>4. IsSeq(f) /\ Range(f) = fs
  <2>1. f = [i \in 1 .. 5 |-> paid(i)]  BY SMT DEF FounderOutputs, small, large
  <2> HIDE DEF f
  <2>2. /\ DOMAIN f = {1, 2, 3, 4, 5} /\ 5 \in Nat
        /\ f = [i \in 1 .. 5 |-> f[i]]
    BY <2>1
  <2>3. IsSeq(f)  BY <2>2, MakeSeq
  <2>4. /\ f[4] = Pay(large, Founder[4])
        /\ \A i \in {1, 2, 3, 5} : f[i] = Pay(small, Founder[i])
    BY <2>1
  <2>5. QED  BY <2>2, <2>3, <2>4 DEF Range
<1>5. IsSeq(p) /\ Range(p) = ps
  <2>1. p \in Seq(ps)  OBVIOUS
  <2>2. DOMAIN p = {1} /\ p[1] = Pay(t.coinbasevalue, PoolAddress)  OBVIOUS
  <2> HIDE DEF p
  <2>3. QED  BY <2>1, <2>2 DEF IsSeq, Range
<1>6. TxOutputs(t) = w \o p \o z \o f  BY DEF TxOutputs
<1> HIDE DEF w, p, z, f
<1>7. IsSeq(w \o p) /\ Range(w \o p) = Range(w) \cup Range(p)
  BY <1>2, <1>5, ConcatFacts, RangeOfBoth
<1>8. /\ IsSeq(w \o p \o z)
      /\ Range(w \o p \o z) = Range(w \o p) \cup Range(z)
  BY <1>3, <1>7, ConcatFacts, RangeOfBoth
<1>9. Range(w \o p \o z \o f) = Range(w \o p \o z) \cup Range(f)
  BY <1>4, <1>8, RangeOfBoth
<1> HIDE DEF ws, ps, zs, fs
<1>10. QED  BY <1>2, <1>3, <1>4, <1>5, <1>6, <1>7, <1>8, <1>9

\* The types of the assembly of jobs, for any templates: what a coinbase is
\* made of are bytes.
THEOREM AssemblyTypesCorrect == AssemblySpec => []AssemblyTypeOK
<1>1. JobInv => AssemblyTypeOK  BY DEF JobInv
<1>2. QED  BY <1>1, JobInvAlways, PTL

\* A miner that puts its extra nonces into what it was told works on what its
\* share is verified for: the previous hash, turned round twice more on its
\* way, the version, bits and steps of the job, and the same coinbase.
THEOREM MinersWorkOnTheJobAlways == AssemblySpec => []MinersWorkOnTheJob
<1>1. ASSUME NEW s, IsSeq(s)
      PROVE  ReverseBytes(ReverseBytes(ReverseBytes(s))) = ReverseBytes(s)
  <2> DEFINE n == Len(s)
             b == ReverseBytes(s)
             c == ReverseBytes(b)
             d == ReverseBytes(c)
  <2>1. n \in Nat  BY SeqFacts
  <2>2. /\ Len(b) = n /\ IsSeq(b)
        /\ \A i \in 1 .. n : b[i] = s[n - i + 1]
    BY <2>1, MakeSeq DEF ReverseBytes
  <2> HIDE DEF n, b
  <2>3. /\ Len(c) = n /\ \A i \in 1 .. n : c[i] = b[n - i + 1]
    BY <2>1, <2>2, MakeSeq DEF ReverseBytes
  <2> HIDE DEF c
  <2>4. /\ Len(d) = n /\ IsSeq(d) /\ \A i \in 1 .. n : d[i] = c[n - i + 1]
    BY <2>1, <2>3, MakeSeq DEF ReverseBytes
  <2> HIDE DEF d
  <2>5. ASSUME NEW i \in 1 .. n PROVE d[i] = b[i]
    <3>1. n - i + 1 \in 1 .. n /\ n - (n - i + 1) + 1 = i  BY <2>1
    <3>2. QED  BY <2>3, <2>4, <3>1
  <2>6. d = b  BY <2>2, <2>4, <2>5, SameSeq
  <2>7. QED  BY <2>6 DEF b, c, d
<1>2. JobInv => MinersWorkOnTheJob
  <2> SUFFICES ASSUME JobInv, NEW i \in DOMAIN jobs, NEW share
               PROVE
        LET told     == MiningNotify(jobs[i])
            coinbase == told.coinb1 \o share.extraNonce1 \o share.extraNonce2
                                    \o told.coinb2
        IN  SerializeMtpInput(jobs[i], share) =
              [version |-> told.version, prev |-> told.prevhash,
               bits |-> told.nbits, time |-> share.time,
               root |-> WithFirst(told.merkleBranch, CoinbaseHash(coinbase))]
    BY DEF MinersWorkOnTheJob
  <2> DEFINE job == jobs[i]
             t   == job.blockTemplate
  <2>1. IsJob(job)  BY DEF JobInv
  <2>2. t.previousblockhash \in Seq(Byte)  BY <2>1, TemplateFacts DEF IsJob
  <2>3. /\ job.prevHash = ReverseBytes(t.previousblockhash)
        /\ job.version = PackLE(t.version, 4)
        /\ job.bits = ReverseBytes(t.bits)
    <3> DEFINE made == MakeJob(t, job.made)
    <3>1. /\ made.prevHash = ReverseBytes(t.previousblockhash)
          /\ made.version = PackLE(t.version, 4)
          /\ made.bits = ReverseBytes(t.bits)
      BY DEF MakeJob
    <3>2. job = made  BY <2>1 DEF IsJob
    <3> HIDE DEF made
    <3>3. QED  BY <3>1, <3>2
  <2>4. ReverseBytes(ReverseBytes(job.prevHash)) = job.prevHash
    <3>1. IsSeq(t.previousblockhash)  BY <2>2 DEF IsSeq
    <3>2. QED  BY <1>1, <2>3, <3>1
  <2>5. QED
    BY <2>3, <2>4 DEF MiningNotify, SerializeMtpInput, SerializeCoinbase
<1>3. QED  BY <1>2, JobInvAlways, PTL

\* A template no job could be made of has a negative version or long flags, or
\* the seconds have left 31 bits: nothing else ends the process, whatever the
\* height.
THEOREM ThrownForAReasonAlways == AssemblySpec => []ThrownForAReason
<1>1. JobInv => ThrownForAReason
  <2> SUFFICES ASSUME JobInv, NEW t \in thrown, ~(t.version < 0), ~(second < 0)
               PROVE  Len(t.flags) + Len(Signature) > 72
    BY DEF ThrownForAReason
  <2> DEFINE h == Len(SerializeNumber(t.height))
             f == Len(t.flags)
             s == Len(SerializeNumber(second))
             p == Len(Signature)
             q == Len(SerializeString(Signature))
  <2>1. t \in Template /\ CoinbaseThrows(t, second)
    <3>1. t \in Template /\ JobThrows(t, second)  BY DEF JobInv, ThrownThrows
    <3>2. t.version \in 0 .. MaxInt32
      BY <3>1, BlockAssumption, MaxInt32Is DEF Int32
    <3>3. t.version \in UInt32  BY <3>2, ShiftedOfInt32 DEF UInt32
    <3>4. QED  BY <3>1, <3>3 DEF JobThrows
  <2>2. second \in 0 .. MaxInt32
    BY MaxInt32Is DEF JobInv, AssemblyTypeOK, Int32
  <2>3. t.height \in 0 .. MaxInt32 /\ t.flags \in Seq(Byte)
    BY <2>1, TemplateFacts
  <2>4. h \in 1 .. 5 /\ s \in 1 .. 5  BY <2>2, <2>3, SerializeNumberIsBytes
  <2>5. f \in Nat /\ p \in Nat /\ (p < 253 => q = p + 1)
    BY <2>3, CoinbaseAssumption, SerializeStringIsBytes, LenProperties
  <2>6. InputScriptLen(t, second) = (h + f + s + 1) + 16 + q
    BY <2>1, <2>2, InputScriptIsBytes DEF InputScriptLen, ExtraNonceSize
  <2>7. (h + f + s + 1) + 16 + q > 100
    <3>1. Serializable(second)  BY <2>2, MaxInt32Is DEF Serializable
    <3>2. InputScriptLen(t, second) > 100
      BY <2>1, <3>1 DEF CoinbaseThrows, InputMax
    <3>3. QED  BY <2>6, <3>2
  <2> HIDE DEF h, f, s, p, q
  <2>8. CASE p < 253
    <3>1. q = p + 1  BY <2>5, <2>8
    <3>2. f + p > 72  BY <2>4, <2>5, <2>7, <3>1
    <3>3. QED  BY <3>2 DEF f, p
  <2>9. CASE ~(p < 253)
    <3>1. f + p > 72  BY <2>5, <2>9
    <3>2. QED  BY <3>1 DEF f, p
  <2>10. QED  BY <2>8, <2>9
<1>2. QED  BY <1>1, JobInvAlways, PTL

\* A block that is submitted has in its header the Merkle root the daemon
\* computes of its transactions, however many they are, counts them as the
\* daemon reads it, and is the one the proof of work was made for.
THEOREM BlockHasItsRootAlways == AssemblySpec => []BlockHasItsRoot
<1>1. JobInv => BlockHasItsRoot
  <2> SUFFICES ASSUME JobInv, NEW i \in DOMAIN jobs,
                      NEW share \in registered[i]
               PROVE
        LET block == SerializeBlock(jobs[i], share)
            input == SerializeMtpInput(jobs[i], share)
            txids == [k \in 1 .. Len(block.transactions) |->
                         [txid |-> block.transactions[k]]]
        IN  /\ block.header.root =
                  MerkleRoot(<<CoinbaseHash(block.coinbase)>> \o txids)
            /\ ReadVarInt(block.count, 1) =
                  [value |-> Len(txids) + 1, next |-> Len(block.count) + 1]
            /\ block.header = [f \in DOMAIN input \cup {"nonce"} |->
                  IF f = "nonce" THEN share.nonce ELSE input[f]]
    BY DEF BlockHasItsRoot
  <2> DEFINE job   == jobs[i]
             t     == job.blockTemplate
             txs   == t.transactions
             n     == Len(txs)
             txids == [k \in 1 .. n |-> [txid |-> txs[k]]]
             block == SerializeBlock(job, share)
             hash  == CoinbaseHash(SerializeCoinbase(job, share))
             input == SerializeMtpInput(job, share)
  <2>1. IsJob(job)  BY DEF JobInv
  <2>2. txs \in Seq(Nat) /\ n < MaxInt32  BY <2>1, TemplateFacts DEF IsJob
  <2>3. n \in Nat  BY <2>2, LenProperties
  <2>4. IsSeq(txids) /\ Len(txids) = n  BY <2>3, MakeSeq
  <2>5. job.steps = Steps(txids)
    <3> DEFINE made == MakeJob(t, job.made)
    <3>1. made.steps = Steps(txids)  BY DEF MakeJob
    <3>2. job = made  BY <2>1 DEF IsJob
    <3> HIDE DEF made, txids
    <3>3. QED  BY <3>1, <3>2
  <2>6. /\ block.header = SerializeHashHeader(job, share)
        /\ block.count = PackVarInt(n + 1)
        /\ block.coinbase = SerializeCoinbase(job, share)
        /\ block.transactions = txs
    BY DEF SerializeBlock
  <2> HIDE DEF job, block
  <2>7. block.header.root = WithFirst(job.steps, hash)
    BY <2>6 DEF SerializeHashHeader
  <2>8. WithFirst(Steps(txids), hash) = MerkleRoot(<<hash>> \o txids)
    <3> HIDE DEF txids, hash
    <3>1. QED  BY <2>4, WithFirstIsMerkleRoot
  <2>9. block.header.root = MerkleRoot(<<CoinbaseHash(block.coinbase)>> \o txids)
    BY <2>5, <2>6, <2>7, <2>8
  <2>10. ReadVarInt(block.count, 1) =
            [value |-> n + 1, next |-> Len(block.count) + 1]
    <3>1. n + 1 \in 0 .. MaxInt32  BY <2>2, <2>3, MaxInt32Is
    <3>2. block.count \in Seq(Byte)
      <4>1. n + 1 \in Nat  BY <2>3
      <4>2. QED  BY <2>6, <4>1, PackVarIntIsBytes
    <3>3. IsAt(PackVarInt(n + 1), block.count, 1)  BY <2>6, <3>2, ItselfIsAt
    <3> HIDE DEF n
    <3>4. ReadVarInt(block.count, 1) =
             [value |-> n + 1, next |-> 1 + Len(PackVarInt(n + 1))]
      BY <3>1, <3>3, VarIntIsRead
    <3>5. 1 + Len(block.count) = Len(block.count) + 1  BY <3>2, LenProperties
    <3>6. QED  BY <2>6, <3>4, <3>5
  <2>11. block.header = [f \in DOMAIN input \cup {"nonce"} |->
            IF f = "nonce" THEN share.nonce ELSE input[f]]
    <3> DEFINE root  == WithFirst(job.steps, hash)
               names == {"version", "prev", "bits", "time", "nonce", "root"}
    <3>1. input = [version |-> job.version, prev |-> job.prevHash,
                   bits |-> job.bits, time |-> share.time, root |-> root]
      BY DEF SerializeMtpInput
    <3>2. block.header = [version |-> job.version, prev |-> job.prevHash,
                          bits |-> job.bits, time |-> share.time,
                          nonce |-> share.nonce, root |-> root]
      BY <2>6 DEF SerializeHashHeader
    <3> HIDE DEF root, input
    <3>3. /\ DOMAIN input \cup {"nonce"} = names
          /\ block.header = [f \in names |-> block.header[f]]
      BY <3>1, <3>2
    <3>4. \A f \in names :
             block.header[f] = IF f = "nonce" THEN share.nonce ELSE input[f]
      BY <3>1, <3>2
    <3> HIDE DEF names
    <3>5. QED  BY <3>3, <3>4
  <2>12. QED
    BY <2>4, <2>6, <2>9, <2>10, <2>11 DEF job, block
<1>2. QED  BY <1>1, JobInvAlways, PTL

\* The script of a share's coinbase, as the daemon reads it.
LEMMA ShareScript ==
    ASSUME JobInv, NEW i \in DOMAIN jobs, NEW share \in registered[i]
    PROVE  LET t == jobs[i].blockTemplate
               b == ReadCoinbase(SerializeCoinbase(jobs[i], share)).script
           IN  /\ IsScript(t.height, t.flags, jobs[i].made, share.extraNonce1,
                           share.extraNonce2, Signature, b)
               /\ Len(b) <= 100 /\ Len(b) \in Nat
<1> DEFINE t   == jobs[i].blockTemplate
           now == jobs[i].made
           e1  == share.extraNonce1
           e2  == share.extraNonce2
           b   == ReadCoinbase(SerializeCoinbase(jobs[i], share)).script
           h   == SerializeNumber(t.height)
           s   == SerializeNumber(now)
           f   == t.flags
           in  == InputScript(t, now)
           sig == SerializeString(Signature)
<1>1. /\ t \in Template /\ now \in 0 .. MaxInt32 /\ ~CoinbaseThrows(t, now)
  BY DEF JobInv, IsJob, JobThrows
<1>2. /\ e1 \in Seq(Byte) /\ e2 \in Seq(Byte)
      /\ Len(e1) + Len(e2) = ExtraNonceSize
  <2>1. share \in Share  BY DEF JobInv, AssemblyTypeOK
  <2>2. QED  BY <2>1, ShareAssumption
<1>3. t.height \in 0 .. MaxInt32 /\ f \in Seq(Byte) /\ Signature \in Seq(Byte)
  BY <1>1, TemplateFacts, CoinbaseAssumption
<1>4. b = in \o e1 \o e2 \o sig  BY CoinbaseIsRead
<1>5. in = h \o f \o s \o <<16>>  BY DEF InputScript, ExtraNonceSize
<1>6. in \in Seq(Byte) /\ sig \in Seq(Byte)
  BY <1>1, <1>3, InputScriptIsBytes, SerializeStringIsBytes
<1>7. InputScriptLen(t, now) <= 100
  <2>1. Serializable(now)  BY <1>1, MaxInt32Is DEF Serializable
  <2>2. ~(InputScriptLen(t, now) > 100)
    BY <1>1, <2>1 DEF CoinbaseThrows, InputMax
  <2>3. InputScriptLen(t, now) \in Nat  BY <1>1, InputScriptIsBytes
  <2>4. QED  BY <2>2, <2>3
<1>8. InputScriptLen(t, now) = Len(in) + ExtraNonceSize + Len(sig)
  BY DEF InputScriptLen
<1> HIDE DEF t, now, e1, e2, b, h, s, f, in, sig
<1>9. Len(b) = Len(in) + Len(e1) + Len(e2) + Len(sig)
  <2>1. in \o e1 \in Seq(Byte) /\ Len(in \o e1) = Len(in) + Len(e1)
    BY <1>2, <1>6, TwoParts
  <2>2. /\ in \o e1 \o e2 \in Seq(Byte)
        /\ Len(in \o e1 \o e2) = Len(in \o e1) + Len(e2)
    BY <1>2, <2>1, TwoParts
  <2>3. Len(in \o e1 \o e2 \o sig) = Len(in \o e1 \o e2) + Len(sig)
    BY <1>6, <2>2, TwoParts
  <2>4. QED  BY <1>4, <2>1, <2>2, <2>3
<1>10. Len(b) <= 100 /\ Len(b) \in Nat /\ Len(Signature) < 253
  <2>1. /\ Len(in) \in Nat /\ Len(sig) \in Nat
        /\ Len(e1) \in Nat /\ Len(e2) \in Nat /\ Len(Signature) \in Nat
    BY <1>2, <1>3, <1>6, LenProperties
  <2>2. Len(b) = InputScriptLen(t, now)  BY <1>2, <1>8, <1>9, <2>1
  <2>3. Len(sig) <= 100
    BY <1>2, <1>7, <1>9, <2>1, <2>2
  <2>4. CASE ~(Len(Signature) < 253)
    <3>1. sig = <<253>> \o PackLE(Len(Signature), 2) \o Signature
      BY <2>4 DEF sig, SerializeString
    <3>2. PackLE(Len(Signature), 2) \in Seq(Byte)
      <4>1. Len(Signature) \in Int /\ 2 \in Nat  BY <2>1
      <4>2. QED  BY <4>1, PackLEIsBytes
    <3>3. <<253>> \in Seq(Byte)
      <4>1. 253 \in Byte  BY DEF Byte
      <4>2. QED  BY <4>1, ByteIsBytes
    <3>4. <<253>> \o PackLE(Len(Signature), 2) \in Seq(Byte)
      BY <3>2, <3>3, TwoParts
    <3>5. Len(sig) = Len(<<253>> \o PackLE(Len(Signature), 2)) + Len(Signature)
      BY <1>3, <3>1, <3>4, TwoParts
    <3>6. Len(<<253>> \o PackLE(Len(Signature), 2)) \in Nat
      BY <3>4, LenProperties
    <3>7. QED  BY <2>1, <2>3, <2>4, <3>5, <3>6
  <2>5. CASE Len(Signature) < 253
    BY <1>7, <1>9, <2>1, <2>2, <2>5
  <2>6. QED  BY <2>4, <2>5
<1>11. IsScript(t.height, f, now, e1, e2, Signature, b)
  <2>1. b = (h \o f \o s \o <<16>>) \o e1 \o e2 \o sig  BY <1>4, <1>5
  <2>2. QED
    BY <1>1, <1>2, <1>3, <1>10, <2>1, Zenon DEF IsScript, h, s, sig
<1>12. QED  BY <1>10, <1>11, Zenon DEF t, now, e1, e2, b, f

\* The coinbase of every share can be read to its last byte, and its script has
\* the height, the time, the extra nonces and the signature where they belong.
THEOREM CoinbaseIsReadableAlways == AssemblySpec => []CoinbaseIsReadable
<1>1. JobInv => CoinbaseIsReadable
  <2> SUFFICES ASSUME JobInv, NEW i \in DOMAIN jobs,
                      NEW share \in registered[i]
               PROVE
        LET t      == jobs[i].blockTemplate
            tx     == ReadCoinbase(SerializeCoinbase(jobs[i], share))
            height == ReadNumber(tx.script, 1)
            time   == ReadNumber(tx.script, height.next + Len(t.flags))
        IN  /\ tx.complete
            /\ Len(tx.script) \in 2 .. InputMax
            /\ height.value = t.height
            /\ time.value = jobs[i].made
            /\ SubSeq(tx.script, time.next, Len(tx.script)) =
                  <<16>> \o share.extraNonce1 \o share.extraNonce2
                         \o <<Len(Signature)>> \o Signature
    BY DEF CoinbaseIsReadable
  <2> DEFINE t   == jobs[i].blockTemplate
             now == jobs[i].made
             e1  == share.extraNonce1
             e2  == share.extraNonce2
             b   == ReadCoinbase(SerializeCoinbase(jobs[i], share)).script
             h   == SerializeNumber(t.height)
             s   == SerializeNumber(now)
             f   == t.flags
             j   == 1 + Len(h) + Len(f)
             k   == j + Len(s)
  <2>1. /\ IsScript(t.height, f, now, e1, e2, Signature, b)
        /\ Len(b) <= 100 /\ Len(b) \in Nat
    BY ShareScript
  <2>2. ReadCoinbase(SerializeCoinbase(jobs[i], share)).complete
    BY CoinbaseIsRead
  <2> HIDE DEF t, now, e1, e2, b, h, s, f, j, k
  <2>3. /\ ReadNumber(b, 1) = [value |-> t.height, next |-> 1 + Len(h)]
        /\ ReadNumber(b, j) = [value |-> now, next |-> k]
        /\ SubSeq(b, k, Len(b)) =
              <<16>> \o e1 \o e2 \o <<Len(Signature)>> \o Signature
        /\ 2 <= Len(b)
    BY <2>1, ScriptIsRead, Zenon DEF h, s, j, k
  <2>4. Len(b) \in 2 .. InputMax
    <3>1. 2 <= Len(b)  BY <2>3
    <3>2. \A n \in Nat : 2 <= n /\ n <= 100 => n \in 2 .. 100  OBVIOUS
    <3>3. Len(b) \in 2 .. 100  BY <2>1, <3>1, <3>2
    <3>4. QED  BY <3>3 DEF InputMax
  <2>5. /\ ReadNumber(b, 1).value = t.height
        /\ ReadNumber(b, 1).next + Len(f) = j
        /\ ReadNumber(b, j).value = now /\ ReadNumber(b, j).next = k
    <3>1. ReadNumber(b, 1) = [value |-> t.height, next |-> 1 + Len(h)]
      BY <2>3
    <3>2. ReadNumber(b, j) = [value |-> now, next |-> k]  BY <2>3
    <3>3. j = 1 + Len(h) + Len(f)  BY DEF j
    <3>4. /\ ReadNumber(b, 1).value = t.height
          /\ ReadNumber(b, 1).next = 1 + Len(h)
      BY <3>1
    <3>5. ReadNumber(b, j).value = now /\ ReadNumber(b, j).next = k  BY <3>2
    <3>6. QED  BY <3>3, <3>4, <3>5
  <2>6. QED
    BY <2>2, <2>3, <2>4, <2>5, Zenon DEF t, now, e1, e2, b, f
<1>2. QED  BY <1>1, JobInvAlways, PTL

\* The outputs that can be read pay the pool, the znode, the founders and the
\* commitment, and nobody else, whatever the template gives them.
THEOREM EveryoneIsPaidAlways == AssemblySpec => []EveryoneIsPaid
<1>1. JobInv => EveryoneIsPaid
  <2> SUFFICES ASSUME JobInv, NEW i \in DOMAIN jobs,
                      NEW share \in registered[i]
               PROVE
        LET t    == jobs[i].blockTemplate
            outs == ReadCoinbase(SerializeCoinbase(jobs[i], share)).outputs
        IN  /\ Range(outs) = PaidBy(t)
            /\ Len(outs) = 6 + Len(t.znode) + Len(t.witness)
    BY DEF EveryoneIsPaid
  <2> DEFINE t    == jobs[i].blockTemplate
             outs == ReadCoinbase(SerializeCoinbase(jobs[i], share)).outputs
  <2>1. t \in Template  BY DEF JobInv, IsJob
  <2>2. outs = TxOutputs(t)  BY CoinbaseIsRead
  <2> HIDE DEF outs
  <2>3. /\ Range(TxOutputs(t)) = PaidBy(t)
        /\ Len(TxOutputs(t)) = 6 + Len(t.znode) + Len(t.witness)
    BY <2>1, OutputCount, PaidOutputs
  <2>4. QED  BY <2>2, <2>3 DEF outs
<1>2. QED  BY <1>1, JobInvAlways, PTL

-----------------------------------------------------------------------------
\* What is written tells what it was written of.

\* packInt32LE of an int32, with its sign.
LEMMA Int32IsTold ==
    ASSUME NEW m \in -MaxInt32 - 1 .. MaxInt32,
           NEW n \in -MaxInt32 - 1 .. MaxInt32, PackLE(m, 4) = PackLE(n, 4)
    PROVE  m = n
<1> DEFINE s == Shifted(m)
           t == Shifted(n)
<1>1. /\ s[0] = m /\ s[0 + 1] = s[0] \div 256 /\ s[1 + 1] = s[1] \div 256
      /\ s[2 + 1] = s[2] \div 256
      /\ t[0] = n /\ t[0 + 1] = t[0] \div 256 /\ t[1 + 1] = t[1] \div 256
      /\ t[2 + 1] = t[2] \div 256
  BY ShiftedHold
<1>2. \A i \in 1 .. 4 : s[i - 1] % 256 = t[i - 1] % 256
  <2>1. \A i \in 1 .. 4 : PackLE(m, 4)[i] = s[i - 1] % 256  BY DEF PackLE
  <2>2. \A i \in 1 .. 4 : PackLE(n, 4)[i] = t[i - 1] % 256  BY DEF PackLE
  <2> HIDE DEF s, t
  <2>3. QED  BY <2>1, <2>2
<1> HIDE DEF s, t
<1>3. /\ s[0] % 256 = t[0] % 256 /\ s[1] % 256 = t[1] % 256
      /\ s[2] % 256 = t[2] % 256 /\ s[3] % 256 = t[3] % 256
  <2>1. /\ 1 \in 1 .. 4 /\ 2 \in 1 .. 4 /\ 3 \in 1 .. 4 /\ 4 \in 1 .. 4
        /\ 1 - 1 = 0 /\ 2 - 1 = 1 /\ 3 - 1 = 2 /\ 4 - 1 = 3
    OBVIOUS
  <2>2. QED  BY <1>2, <2>1
<1>4. \A a \in Int : a \div 256 \in Int /\ (a % 256) + 256 * (a \div 256) = a
                       /\ a % 256 \in 0 .. 255
  OBVIOUS
<1> DEFINE top == 128 * 256 * 256 * 256
<1>5. m \in Int /\ n \in Int /\ 0 <= m + top /\ m < top /\ 0 <= n + top /\ n < top
  <2>1. MaxInt32 \in Nat /\ MaxInt32 < top /\ top \in Nat  BY MaxInt32Is
  <2>2. \A a \in -MaxInt32 - 1 .. MaxInt32 :
           a \in Int /\ 0 <= a + (MaxInt32 + 1) /\ a < MaxInt32 + 1
    BY MaxInt32Is
  <2> HIDE DEF top
  <2>3. QED  BY <2>1, <2>2
<1>6. /\ s[0] \in Int /\ s[1] \in Int /\ s[2] \in Int /\ s[3] \in Int
      /\ t[0] \in Int /\ t[1] \in Int /\ t[2] \in Int /\ t[3] \in Int
  BY <1>1, <1>4, <1>5
<1>7. /\ s[3] \in -128 .. 127 /\ t[3] \in -128 .. 127
  <2>1. \A a \in Int : 0 <= a + top /\ a < top =>
            (((a \div 256) \div 256) \div 256) \in -128 .. 127
    BY SMT
  <2>2. QED  BY <1>1, <1>5, <2>1
<1>8. s[3] = t[3]
  <2>1. \A a, b \in -128 .. 127 : a % 256 = b % 256 => a = b  BY SMT
  <2>2. s[3] % 256 = t[3] % 256  BY <1>3
  <2> HIDE DEF top
  <2>3. QED  BY <1>7, <2>1, <2>2, Zenon
<1>9. s[2] = t[2]  BY <1>1, <1>3, <1>4, <1>6, <1>8
<1>10. s[1] = t[1]  BY <1>1, <1>3, <1>4, <1>6, <1>9
<1>11. s[0] = t[0]  BY <1>1, <1>3, <1>4, <1>6, <1>10
<1>12. QED  BY <1>1, <1>11

LEMMA ReversedIsTold ==
    ASSUME NEW b \in Seq(Byte), NEW c \in Seq(Byte),
           ReverseBytes(b) = ReverseBytes(c)
    PROVE  b = c
<1> DEFINE m == Len(b)
           n == Len(c)
<1>1. IsSeq(b) /\ IsSeq(c) /\ m \in Nat /\ n \in Nat
  BY LenProperties DEF IsSeq
<1>2. /\ Len(ReverseBytes(b)) = m /\ Len(ReverseBytes(c)) = n
      /\ \A i \in 1 .. m : ReverseBytes(b)[i] = b[m - i + 1]
      /\ \A i \in 1 .. n : ReverseBytes(c)[i] = c[n - i + 1]
  BY <1>1, MakeSeq DEF ReverseBytes
<1> HIDE DEF m, n
<1>3. m = n  BY <1>2
<1>4. ASSUME NEW i \in 1 .. m PROVE b[i] = c[i]
  <2>1. m - i + 1 \in 1 .. m /\ m - (m - i + 1) + 1 = i  BY <1>1
  <2>2. QED  BY <1>2, <1>3, <2>1
<1>5. QED  BY <1>1, <1>3, <1>4, SameSeq DEF m, n

\* From April of 1970 on, serializeNumber takes five bytes for a time.
LEMMA TimeTakesFive ==
    ASSUME NEW n \in 0 .. MaxInt32, 128 * 256 * 256 <= n
    PROVE  Len(SerializeNumber(n)) = 5
<1> DEFINE s == Shifted(n)
<1>1. s[0] = n /\ s[0 + 1] = s[0] \div 256 /\ s[1 + 1] = s[1] \div 256
  BY ShiftedHold
<1>2. SizeOf(n) \in 1 .. 4 /\ IsSizeOf(SizeOf(n), n)  BY SizeOfNumber
<1> HIDE DEF s
<1>3. n \in Int /\ 128 * 256 * 256 <= n  BY SMT
<1>4. s[0] > 127 /\ s[1] > 127 /\ s[2] > 127
  <2>1. \A a \in Int : 128 * 256 * 256 <= a =>
           a > 127 /\ a \div 256 > 127 /\ (a \div 256) \div 256 > 127
    BY SMT
  <2>2. QED  BY <1>1, <1>3, <2>1
<1>5. SizeOf(n) = 4
  <2>1. Shifted(n)[SizeOf(n) - 1] <= 127  BY <1>2 DEF IsSizeOf
  <2>2. s[SizeOf(n) - 1] <= 127  BY <2>1 DEF s
  <2>3. ASSUME SizeOf(n) = 1 PROVE FALSE
    <3>1. s[0] <= 127 /\ s[0] \in Int  BY <1>1, <1>3, <2>2, <2>3
    <3>2. QED  BY <1>4, <3>1
  <2>4. \A a \in Int : a \div 256 \in Int  OBVIOUS
  <2>5. s[1] \in Int /\ s[2] \in Int  BY <1>1, <1>3, <2>4
  <2>6. ASSUME SizeOf(n) = 2 PROVE FALSE  BY <1>4, <2>2, <2>5, <2>6
  <2>7. ASSUME SizeOf(n) = 3 PROVE FALSE  BY <1>4, <2>2, <2>5, <2>7
  <2>8. QED  BY <1>2, <2>3, <2>6, <2>7
<1>6. n \notin 1 .. 16  BY <1>3, SMT
<1>7. SerializeNumber(n) = <<4>> \o PackLE(n, 4)
  BY <1>5, <1>6 DEF SerializeNumber
<1>8. <<4>> \in Seq(Byte) /\ Len(<<4>>) = 1
  <2>1. 4 \in Byte  BY DEF Byte
  <2>2. QED  BY <2>1, ByteIsBytes
<1>9. PackLE(n, 4) \in Seq(Byte) /\ Len(PackLE(n, 4)) = 4
  BY <1>3, PackLEIsBytes
<1>10. Len(<<4>> \o PackLE(n, 4)) = 1 + 4  BY <1>8, <1>9, TwoParts
<1>11. QED  BY <1>7, <1>10

\* What a coinbase's script has where, and how long it is.
HasPlaces(height, flags, time, e1, e2, s, b) ==
    /\ ReadNumber(b, 1).value = height
    /\ ReadNumber(b, 1 + Len(SerializeNumber(height)) + Len(flags)).value = time
    /\ \A i \in 1 .. Len(flags) :
          b[Len(SerializeNumber(height)) + i] = flags[i]
    /\ Len(b) = Len(SerializeNumber(height)) + Len(flags)
                    + Len(SerializeNumber(time)) + 1 + Len(e1) + Len(e2)
                    + Len(SerializeString(s))

LEMMA ScriptPlaces ==
    ASSUME NEW height, NEW flags, NEW time, NEW e1, NEW e2, NEW s, NEW b,
           IsScript(height, flags, time, e1, e2, s, b)
    PROVE  HasPlaces(height, flags, time, e1, e2, s, b)
<1> DEFINE x == SerializeNumber(height)
           y == SerializeNumber(time)
           z == SerializeString(s)
           o == << 16 >>
           f1 == x \o flags
           f2 == f1 \o y
           f3 == f2 \o o
           f4 == f3 \o e1
           f5 == f4 \o e2
           A == Len(x)
           B == Len(flags)
<1>0. /\ ReadNumber(b, 1).value = height
      /\ ReadNumber(b, 1 + Len(SerializeNumber(height)) + Len(flags)).value = time
  <2> DEFINE j == 1 + Len(x) + Len(flags)
             k == j + Len(y)
  <2> HIDE DEF x, y, j, k
  <2>1. /\ ReadNumber(b, 1) = [value |-> height, next |-> 1 + Len(x)]
        /\ ReadNumber(b, j) = [value |-> time, next |-> k]
        /\ SubSeq(b, k, Len(b)) = << 16 >> \o e1 \o e2 \o <<Len(s)>> \o s
        /\ 2 <= Len(b)
    BY ScriptIsRead, Zenon DEF x, y, j, k
  <2>2. ReadNumber(b, 1).value = height /\ ReadNumber(b, j).value = time
    BY <2>1
  <2>3. QED  BY <2>2 DEF j, x
<1>1. /\ height \in 0 .. MaxInt32 /\ time \in 0 .. MaxInt32
      /\ flags \in Seq(Byte) /\ e1 \in Seq(Byte) /\ e2 \in Seq(Byte)
      /\ s \in Seq(Byte)
      /\ b = f5 \o z
  BY DEF IsScript
<1>2. x \in Seq(Byte) /\ y \in Seq(Byte) /\ z \in Seq(Byte)
  BY <1>1, SerializeNumberIsBytes, SerializeStringIsBytes
<1>3. o \in Seq(Byte) /\ Len(o) = 1
  <2>1. 16 \in Byte  BY DEF Byte
  <2>2. QED  BY <2>1, ByteIsBytes
<1> HIDE DEF x, y, z, o, f5
<1>4. f1 \in Seq(Byte) /\ Len(f1) = A + B  BY <1>1, <1>2, TwoParts
<1> HIDE DEF f1
<1>5. f2 \in Seq(Byte) /\ Len(f2) = Len(f1) + Len(y)  BY <1>2, <1>4, TwoParts
<1> HIDE DEF f2
<1>6. f3 \in Seq(Byte) /\ Len(f3) = Len(f2) + Len(o)  BY <1>3, <1>5, TwoParts
<1> HIDE DEF f3
<1>7. f4 \in Seq(Byte) /\ Len(f4) = Len(f3) + Len(e1)  BY <1>1, <1>6, TwoParts
<1> HIDE DEF f4
<1>8. f5 \in Seq(Byte) /\ Len(f5) = Len(f4) + Len(e2)
  BY <1>1, <1>7, TwoParts DEF f5
<1>9. b \in Seq(Byte) /\ Len(b) = Len(f5) + Len(z)  BY <1>1, <1>2, <1>8, TwoParts
<1>10. Len(b) = A + B + Len(y) + 1 + Len(e1) + Len(e2) + Len(z)
  BY <1>3, <1>4, <1>5, <1>6, <1>7, <1>8, <1>9
<1>11. IsAt(flags, b, 1 + A)
  <2>1. IsAt(f5 \o z, b, 1)  BY <1>1, <1>9, ItselfIsAt
  <2>2. 1 \in Int  OBVIOUS
  <2>3. IsAt(f5, b, 1)  BY <1>2, <1>8, <2>1, <2>2, PartsAreAt
  <2>4. IsAt(f4, b, 1)  BY <1>1, <1>7, <2>2, <2>3, PartsAreAt DEF f5
  <2>5. IsAt(f3, b, 1)  BY <1>1, <1>6, <2>2, <2>4, PartsAreAt DEF f4
  <2>6. IsAt(f2, b, 1)  BY <1>3, <1>5, <2>2, <2>5, PartsAreAt DEF f3
  <2>7. IsAt(f1, b, 1)  BY <1>2, <1>4, <2>2, <2>6, PartsAreAt DEF f2
  <2>8. QED  BY <1>1, <1>2, <2>2, <2>7, PartsAreAt DEF f1
<1>12. A \in Nat /\ B \in Nat  BY <1>1, <1>2, LenProperties
<1>13. \A i \in 1 .. B : b[A + i] = flags[i]
  <2>1. \A i \in 1 .. B : 1 + A + i - 1 = A + i  BY <1>12
  <2>2. \A i \in 1 .. B : b[1 + A + i - 1] = flags[i]  BY <1>11 DEF IsAt
  <2> HIDE DEF A, B
  <2>3. QED  BY <2>1, <2>2
<1>14. QED  BY <1>0, <1>10, <1>13 DEF HasPlaces, x, y, z

\* The script tells the height, the flags and the time, if times are of one
\* length.
LEMMA ScriptIsTold ==
    ASSUME NEW e1, NEW e2, NEW s, NEW b,
           NEW height1, NEW flags1, NEW time1,
           IsScript(height1, flags1, time1, e1, e2, s, b),
           NEW height2, NEW flags2, NEW time2,
           IsScript(height2, flags2, time2, e1, e2, s, b),
           Len(SerializeNumber(time1)) = Len(SerializeNumber(time2))
    PROVE  height1 = height2 /\ flags1 = flags2 /\ time1 = time2
<1> DEFINE x1 == SerializeNumber(height1)
           x2 == SerializeNumber(height2)
           y1 == SerializeNumber(time1)
           y2 == SerializeNumber(time2)
           z  == SerializeString(s)
           j1 == 1 + Len(x1) + Len(flags1)
           j2 == 1 + Len(x2) + Len(flags2)
<1>1. /\ height1 \in 0 .. MaxInt32 /\ height2 \in 0 .. MaxInt32
      /\ time1 \in 0 .. MaxInt32 /\ time2 \in 0 .. MaxInt32
      /\ flags1 \in Seq(Byte) /\ flags2 \in Seq(Byte)
      /\ e1 \in Seq(Byte) /\ e2 \in Seq(Byte) /\ s \in Seq(Byte)
  BY DEF IsScript
<1>2. /\ ReadNumber(b, 1).value = height1 /\ ReadNumber(b, j1).value = time1
      /\ Len(b) = Len(x1) + Len(flags1) + Len(y1) + 1 + Len(e1) + Len(e2) + Len(z)
      /\ \A i \in 1 .. Len(flags1) : b[Len(x1) + i] = flags1[i]
  <2>1. HasPlaces(height1, flags1, time1, e1, e2, s, b)  BY ScriptPlaces, Zenon
  <2>2. QED  BY <2>1, Zenon DEF HasPlaces
<1>3. /\ ReadNumber(b, 1).value = height2 /\ ReadNumber(b, j2).value = time2
      /\ Len(b) = Len(x2) + Len(flags2) + Len(y2) + 1 + Len(e1) + Len(e2) + Len(z)
      /\ \A i \in 1 .. Len(flags2) : b[Len(x2) + i] = flags2[i]
  <2>1. HasPlaces(height2, flags2, time2, e1, e2, s, b)  BY ScriptPlaces, Zenon
  <2>2. QED  BY <2>1, Zenon DEF HasPlaces
<1>4. height1 = height2  BY <1>2, <1>3
<1>5. x1 = x2 /\ Len(y1) = Len(y2)  BY <1>4
<1>6. /\ Len(x1) \in Nat /\ Len(flags1) \in Nat /\ Len(flags2) \in Nat
      /\ Len(y1) \in Nat /\ Len(e1) \in Nat /\ Len(e2) \in Nat /\ Len(z) \in Nat
  BY <1>1, SerializeNumberIsBytes, SerializeStringIsBytes, LenProperties
<1> HIDE DEF x1, x2, y1, y2, z
<1>7. Len(flags1) = Len(flags2)
  <2>1. \A l, m, n, p, q, u, v \in Nat :
           l + m + p + 1 + q + u + v = l + n + p + 1 + q + u + v => m = n
    OBVIOUS
  <2>2. Len(x1) + Len(flags1) + Len(y1) + 1 + Len(e1) + Len(e2) + Len(z)
          = Len(x1) + Len(flags2) + Len(y1) + 1 + Len(e1) + Len(e2) + Len(z)
    BY <1>2, <1>3, <1>5
  <2>3. QED  BY <1>6, <2>1, <2>2
<1>8. flags1 = flags2
  <2>1. \A i \in 1 .. Len(flags1) : flags1[i] = flags2[i]
    BY <1>2, <1>3, <1>5, <1>7
  <2>2. QED  BY <1>1, <1>7, <2>1, SeqEqual
<1>9. j1 = j2  BY <1>5, <1>7
<1>10. time1 = time2
  <2> HIDE DEF j1, j2
  <2>1. ReadNumber(b, j1).value = time1  BY <1>2
  <2>2. ReadNumber(b, j2).value = time2  BY <1>3
  <2>3. QED  BY <1>9, <2>1, <2>2
<1>11. QED  BY <1>4, <1>8, <1>10

\* What of a payment is where in its output.
LEMMA PayIsTold ==
    ASSUME NEW amount, NEW address
    PROVE  /\ Pay(amount, address).amount = amount
           /\ Pay(amount, address).script[1] = 118
           /\ Pay(amount, address).script[4] = address
<1> DEFINE key    == [i \in 1 .. 20 |-> address]
           before == <<118, 169, 20>>
           behind == <<136, 172>>
<1>1. IsSeq(key) /\ Len(key) = 20 /\ key[1] = address
  <2>1. 20 \in Nat /\ key = [i \in 1 .. 20 |-> key[i]] /\ 1 \in 1 .. 20
    OBVIOUS
  <2>2. IsSeq(key) /\ Len(key) = 20
    <3> HIDE DEF key
    <3>1. QED  BY <2>1, MakeSeq
  <2>3. QED  BY <2>1, <2>2
<1>2. IsSeq(before) /\ Len(before) = 3 /\ before[1] = 118 /\ IsSeq(behind)
  <2>1. before \in Seq(Nat) /\ behind \in Seq(Nat)  OBVIOUS
  <2>2. Len(before) = 3 /\ before[1] = 118  OBVIOUS
  <2> HIDE DEF before, behind
  <2>3. QED  BY <2>1, <2>2 DEF IsSeq
<1>3. AddressToScript(address) = before \o key \o behind
  BY DEF AddressToScript
<1> HIDE DEF key, before, behind
<1> DEFINE both == before \o key
<1>4. /\ IsSeq(both) /\ Len(both) = 23
      /\ both[1] = 118 /\ both[4] = address
  <2>1. 1 \in 1 .. 3 /\ 1 \in 1 .. 20  OBVIOUS
  <2>2. /\ IsSeq(both) /\ Len(both) = Len(before) + Len(key)
        /\ \A i \in 1 .. Len(before) : both[i] = before[i]
        /\ \A i \in 1 .. Len(key) : both[Len(before) + i] = key[i]
    <3>1. IsSeq(before) /\ IsSeq(key)  BY <1>1, <1>2
    <3>2. QED  BY <3>1, ConcatFacts
  <2> HIDE DEF both
  <2>3. /\ Len(before) = 3 /\ before[1] = 118
        /\ Len(key) = 20 /\ key[1] = address
    BY <1>1, <1>2
  <2>4. QED  BY <2>1, <2>2, <2>3
<1> HIDE DEF both
<1>5. (both \o behind)[1] = 118 /\ (both \o behind)[4] = address
  <2>1. 1 \in 1 .. 23 /\ 4 \in 1 .. 23  OBVIOUS
  <2>2. \A i \in 1 .. Len(both) : (both \o behind)[i] = both[i]
    <3>1. IsSeq(both) /\ IsSeq(behind)  BY <1>2, <1>4
    <3>2. QED  BY <3>1, ConcatFacts
  <2>3. QED  BY <1>4, <2>1, <2>2
<1>6. QED  BY <1>3, <1>5 DEF Pay, both

\* Where the outputs of a template stand.
LEMMA OutputPlaces ==
    ASSUME NEW t \in Template
    PROVE  LET outs == TxOutputs(t)
               y    == Len(t.witness)
           IN  /\ y = 1 => outs[1] = [amount |-> 0, script |-> t.witness[1]]
               /\ outs[y + 1] = Pay(t.coinbasevalue, PoolAddress)
               /\ Len(t.znode) = 1 =>
                     outs[y + 2] = Pay(t.znode[1].amount, t.znode[1].payee)
<1> DEFINE w == WitnessOutputs(t)
           p == <<Pay(t.coinbasevalue, PoolAddress)>>
           z == ZnodeOutputs(t)
           f == FounderOutputs
           y == Len(t.witness)
           x == Len(t.znode)
           wp  == w \o p
           wpz == wp \o z
           all == wpz \o f
<1>1. x \in Nat /\ x <= 1 /\ y \in Nat /\ y <= 1
  BY TemplateFacts, LenProperties
<1>2. /\ IsSeq(w) /\ Len(w) = y
      /\ \A i \in 1 .. y : w[i] = [amount |-> 0, script |-> t.witness[i]]
  <2>1. w = [i \in 1 .. y |-> w[i]]  BY DEF WitnessOutputs
  <2>2. \A i \in 1 .. y : w[i] = [amount |-> 0, script |-> t.witness[i]]
    BY DEF WitnessOutputs
  <2> HIDE DEF w, y
  <2>3. QED  BY <1>1, <2>1, <2>2, MakeSeq
<1>3. /\ IsSeq(z) /\ Len(z) = x
      /\ \A i \in 1 .. x : z[i] = Pay(t.znode[i].amount, t.znode[i].payee)
  <2>1. z = [i \in 1 .. x |-> z[i]]  BY DEF ZnodeOutputs
  <2>2. \A i \in 1 .. x : z[i] = Pay(t.znode[i].amount, t.znode[i].payee)
    BY DEF ZnodeOutputs
  <2> HIDE DEF z, x
  <2>3. QED  BY <1>1, <2>1, <2>2, MakeSeq
<1>4. IsSeq(f)
  <2>1. f = [i \in 1 .. 5 |-> f[i]]  BY DEF FounderOutputs
  <2>2. 5 \in Nat  OBVIOUS
  <2>3. QED  BY <2>1, <2>2, MakeSeq
<1>5. IsSeq(p) /\ Len(p) = 1 /\ p[1] = Pay(t.coinbasevalue, PoolAddress)
  <2>1. p \in Seq({Pay(t.coinbasevalue, PoolAddress)})  OBVIOUS
  <2>2. QED  BY <2>1 DEF IsSeq
<1>6. TxOutputs(t) = all  BY DEF TxOutputs
<1> HIDE DEF w, p, z, f, x, y
<1>7. /\ IsSeq(wp) /\ Len(wp) = y + 1
      /\ \A i \in 1 .. y : wp[i] = w[i]
      /\ wp[y + 1] = p[1]
  <2>1. /\ IsSeq(wp) /\ Len(wp) = Len(w) + Len(p)
        /\ \A i \in 1 .. Len(w) : wp[i] = w[i]
        /\ \A i \in 1 .. Len(p) : wp[Len(w) + i] = p[i]
    <3>1. IsSeq(w) /\ IsSeq(p)  BY <1>2, <1>5
    <3>2. QED  BY <3>1, ConcatFacts
  <2>2. 1 \in 1 .. 1  OBVIOUS
  <2> HIDE DEF wp
  <2>3. QED  BY <1>1, <1>2, <1>5, <2>1, <2>2
<1> HIDE DEF wp
<1>8. /\ IsSeq(wpz) /\ Len(wpz) = y + 1 + x
      /\ \A i \in 1 .. y + 1 : wpz[i] = wp[i]
      /\ \A i \in 1 .. x : wpz[y + 1 + i] = z[i]
  <2>1. /\ IsSeq(wpz) /\ Len(wpz) = Len(wp) + Len(z)
        /\ \A i \in 1 .. Len(wp) : wpz[i] = wp[i]
        /\ \A i \in 1 .. Len(z) : wpz[Len(wp) + i] = z[i]
    BY <1>3, <1>7, ConcatFacts
  <2> HIDE DEF wpz
  <2>2. QED  BY <1>3, <1>7, <2>1
<1> HIDE DEF wpz
<1>9. \A i \in 1 .. y + 1 + x : all[i] = wpz[i]
  BY <1>4, <1>8, ConcatFacts
<1> HIDE DEF all
<1>10. /\ y = 1 => all[1] = [amount |-> 0, script |-> t.witness[1]]
       /\ all[y + 1] = Pay(t.coinbasevalue, PoolAddress)
  <2>1. /\ 1 \in 1 .. y + 1 + x /\ 1 \in 1 .. y + 1
        /\ y + 1 \in 1 .. y + 1 + x /\ y + 1 \in 1 .. y + 1
        /\ y = 1 => 1 \in 1 .. y
    BY <1>1
  <2>2. QED  BY <1>2, <1>5, <1>7, <1>8, <1>9, <2>1
<1>11. x = 1 => all[y + 2] = Pay(t.znode[1].amount, t.znode[1].payee)
  <2>1. SUFFICES ASSUME x = 1
                 PROVE  all[y + 2] = Pay(t.znode[1].amount, t.znode[1].payee)
    OBVIOUS
  <2>2. 1 \in 1 .. x /\ y + 2 \in 1 .. y + 1 + x /\ y + 1 + 1 = y + 2
    BY <1>1, <2>1
  <2>3. wpz[y + 1 + 1] = z[1]  BY <1>8, <2>2
  <2>4. QED  BY <1>3, <1>9, <2>2, <2>3
<1>12. QED  BY <1>6, <1>10, <1>11 DEF x, y

\* The outputs of a coinbase tell the commitment, the value and the znode of
\* its template.
LEMMA OutputsAreTold ==
    ASSUME NEW t \in Template, NEW u \in Template, TxOutputs(t) = TxOutputs(u)
    PROVE  /\ t.witness = u.witness /\ t.coinbasevalue = u.coinbasevalue
           /\ t.znode = u.znode
<1> DEFINE outs == TxOutputs(t)
           OutputsAt(v) ==
               /\ v.witness \in Seq(Seq(Byte)) /\ Len(v.witness) \in 0 .. 1
               /\ v.znode \in Seq([amount : Int64, payee : Byte])
               /\ Len(v.znode) \in 0 .. 1
               /\ Len(outs) = 6 + Len(v.znode) + Len(v.witness)
               /\ Len(v.witness) = 1 => /\ outs[1].script = v.witness[1]
                                        /\ v.witness[1][1] = 106
               /\ outs[Len(v.witness) + 1].amount = v.coinbasevalue
               /\ outs[Len(v.witness) + 1].script[1] = 118
               /\ Len(v.znode) = 1 =>
                     /\ outs[Len(v.witness) + 2].amount = v.znode[1].amount
                     /\ outs[Len(v.witness) + 2].script[4] = v.znode[1].payee
<1>1. ASSUME NEW v \in Template, TxOutputs(v) = outs PROVE OutputsAt(v)
  <2>1. /\ v.witness \in Seq(Seq(Byte)) /\ Len(v.witness) \in 0 .. 1
        /\ v.znode \in Seq([amount : Int64, payee : Byte])
        /\ Len(v.znode) \in 0 .. 1
    <3>1. /\ v.witness \in Seq(Seq(Byte)) /\ Len(v.witness) <= 1
          /\ v.znode \in Seq([amount : Int64, payee : Byte])
          /\ Len(v.znode) <= 1
      BY TemplateFacts
    <3>2. Len(v.witness) \in Nat /\ Len(v.znode) \in Nat
      BY <3>1, LenProperties
    <3>3. \A k \in Nat : k <= 1 => k \in 0 .. 1  OBVIOUS
    <3>4. QED  BY <3>1, <3>2, <3>3
  <2>2. Len(outs) = 6 + Len(v.znode) + Len(v.witness)
    <3>1. Len(TxOutputs(v)) = 6 + Len(v.znode) + Len(v.witness)
      BY OutputCount
    <3> HIDE DEF outs
    <3>2. QED  BY <1>1, <3>1
  <2>3. Len(v.witness) = 1 => v.witness[1][1] = 106
    <3>1. 1 \in 1 .. 1  OBVIOUS
    <3>2. Len(v.witness) = 1 => 1 \in DOMAIN v.witness
      BY <2>1, <3>1, LenProperties
    <3>3. QED  BY <3>2, BlockAssumption
  <2> HIDE DEF outs
  <2>4. /\ Len(v.witness) = 1 =>
              outs[1] = [amount |-> 0, script |-> v.witness[1]]
        /\ outs[Len(v.witness) + 1] = Pay(v.coinbasevalue, PoolAddress)
        /\ Len(v.znode) = 1 =>
              outs[Len(v.witness) + 2] =
                  Pay(v.znode[1].amount, v.znode[1].payee)
    BY <1>1, OutputPlaces
  <2>5. Len(v.witness) = 1 => outs[1].script = v.witness[1]  BY <2>4
  <2>6. /\ outs[Len(v.witness) + 1].amount = v.coinbasevalue
        /\ outs[Len(v.witness) + 1].script[1] = 118
    BY <2>4, PayIsTold
  <2>7. Len(v.znode) = 1 =>
            /\ outs[Len(v.witness) + 2].amount = v.znode[1].amount
            /\ outs[Len(v.witness) + 2].script[4] = v.znode[1].payee
    BY <2>4, PayIsTold
  <2>8. QED  BY <2>1, <2>2, <2>3, <2>5, <2>6, <2>7
<1>2. OutputsAt(t) /\ OutputsAt(u)
  <2> HIDE DEF OutputsAt
  <2>1. TxOutputs(u) = outs /\ TxOutputs(t) = outs  OBVIOUS
  <2> HIDE DEF outs
  <2>2. QED  BY <1>1, <2>1
<1> HIDE DEF outs
<1>0. /\ Len(t.witness) \in 0 .. 1 /\ Len(u.witness) \in 0 .. 1
      /\ Len(t.znode) \in 0 .. 1 /\ Len(u.znode) \in 0 .. 1
      /\ 6 + Len(t.znode) + Len(t.witness) = 6 + Len(u.znode) + Len(u.witness)
  BY <1>2
<1>3. Len(t.witness) = Len(u.witness)
  <2>1. ASSUME NEW a, NEW b, OutputsAt(a), OutputsAt(b), Len(a.witness) = 1
        PROVE  Len(b.witness) = 1
    <3>1. outs[1].script[1] = 106  BY <2>1
    <3>2. Len(b.witness) = 0 => outs[1].script[1] = 118
      <4>1. 0 + 1 = 1  OBVIOUS
      <4>2. QED  BY <2>1, <4>1
    <3>3. Len(b.witness) = 0 \/ Len(b.witness) = 1  BY <2>1
    <3>4. QED  BY <3>1, <3>2, <3>3
  <2>2. Len(t.witness) = 1 => Len(u.witness) = 1
    <3> HIDE DEF OutputsAt
    <3>1. QED  BY <1>2, <2>1
  <2>3. Len(u.witness) = 1 => Len(t.witness) = 1
    <3> HIDE DEF OutputsAt
    <3>1. QED  BY <1>2, <2>1
  <2>4. Len(t.witness) \in 0 .. 1 /\ Len(u.witness) \in 0 .. 1  BY <1>2
  <2>5. QED  BY <2>2, <2>3, <2>4
<1>4. Len(t.znode) = Len(u.znode)
  <2>1. \A a, b, c \in 0 .. 1 : 6 + a + c = 6 + b + c => a = b  OBVIOUS
  <2>2. QED  BY <1>0, <1>3, <2>1
<1>5. t.coinbasevalue = u.coinbasevalue  BY <1>2, <1>3
<1>6. t.witness = u.witness
  <2>1. IsSeq(t.witness) /\ IsSeq(u.witness)  BY <1>2 DEF IsSeq
  <2>2. ASSUME NEW k \in 1 .. Len(t.witness) PROVE t.witness[k] = u.witness[k]
    <3>1. k = 1 /\ Len(t.witness) = 1 /\ Len(u.witness) = 1
      <4>1. \A n \in 0 .. 1 : \A i \in 1 .. n : i = 1 /\ n = 1  OBVIOUS
      <4>2. QED  BY <1>0, <1>3, <4>1
    <3>2. QED  BY <1>2, <3>1
  <2>3. QED  BY <1>3, <2>1, <2>2, SameSeq
<1>7. t.znode = u.znode
  <2>1. IsSeq(t.znode) /\ IsSeq(u.znode)  BY <1>2 DEF IsSeq
  <2>2. ASSUME NEW k \in 1 .. Len(t.znode) PROVE t.znode[k] = u.znode[k]
    <3>1. k = 1 /\ Len(t.znode) = 1 /\ Len(u.znode) = 1
      <4>1. \A n \in 0 .. 1 : \A i \in 1 .. n : i = 1 /\ n = 1  OBVIOUS
      <4>2. QED  BY <1>0, <1>4, <4>1
    <3>2. /\ t.znode[1].amount = u.znode[1].amount
          /\ t.znode[1].payee = u.znode[1].payee
      BY <1>2, <1>3, <3>1
    <3>3. /\ t.znode[1] \in [amount : Int64, payee : Byte]
          /\ u.znode[1] \in [amount : Int64, payee : Byte]
      <4>1. 1 \in 1 .. Len(t.znode) /\ 1 \in 1 .. Len(u.znode)  BY <3>1
      <4>2. /\ t.znode \in Seq([amount : Int64, payee : Byte])
            /\ u.znode \in Seq([amount : Int64, payee : Byte])
        BY <1>2
      <4>3. QED  BY <4>1, <4>2, ElementOfSeq
    <3>4. \A a, b \in [amount : Int64, payee : Byte] :
             a.amount = b.amount /\ a.payee = b.payee => a = b
      OBVIOUS
    <3>5. QED  BY <3>1, <3>2, <3>3, <3>4
  <2>3. QED  BY <1>4, <2>1, <2>2, SameSeq
<1>8. QED  BY <1>5, <1>6, <1>7

\* The hashes of a template's transactions.
Txids(t) ==
    [k \in 1 .. Len(t.transactions) |-> [txid |-> t.transactions[k]]]

LEMMA TxidsHold ==
    ASSUME NEW t \in Template
    PROVE  /\ IsSeq(t.transactions) /\ IsSeq(Txids(t)) /\ IsInjective(Txids(t))
           /\ Len(Txids(t)) = Len(t.transactions)
           /\ \A k \in 1 .. Len(t.transactions) :
                 Txids(t)[k].txid = t.transactions[k]
<1> DEFINE n   == Len(t.transactions)
           txs == Txids(t)
<1>1. /\ t.transactions \in Seq(Nat) /\ n \in Nat
      /\ DOMAIN t.transactions = 1 .. n
  BY TemplateFacts, LenProperties
<1>2. IsInjective(t.transactions)  BY BlockAssumption
<1>3. /\ txs = [k \in 1 .. n |-> txs[k]] /\ DOMAIN txs = 1 .. n
      /\ \A k \in 1 .. n : txs[k] = [txid |-> t.transactions[k]]
  BY DEF Txids
<1> HIDE DEF txs, n
<1>4. IsSeq(txs) /\ Len(txs) = n  BY <1>1, <1>3, MakeSeq
<1>5. \A k \in 1 .. n : txs[k].txid = t.transactions[k]  BY <1>3
<1>6. IsInjective(txs)
  <2>1. SUFFICES ASSUME NEW k \in 1 .. n, NEW l \in 1 .. n, txs[k] = txs[l]
                 PROVE  k = l
    BY <1>3 DEF IsInjective
  <2>2. t.transactions[k] = t.transactions[l]  BY <1>5, <2>1
  <2>3. QED  BY <1>1, <1>2, <2>2 DEF IsInjective
<1>7. IsSeq(t.transactions)  BY <1>1 DEF IsSeq
<1>8. QED  BY <1>4, <1>5, <1>6, <1>7 DEF txs, n

LEMMA TransactionsAreTold ==
    ASSUME NEW t \in Template, NEW u \in Template,
           Steps(Txids(t)) = Steps(Txids(u))
    PROVE  t.transactions = u.transactions
<1>1. /\ IsSeq(t.transactions) /\ IsSeq(Txids(t)) /\ IsInjective(Txids(t))
      /\ Len(Txids(t)) = Len(t.transactions)
      /\ \A k \in 1 .. Len(t.transactions) : Txids(t)[k].txid = t.transactions[k]
  BY TxidsHold
<1>2. /\ IsSeq(u.transactions) /\ IsSeq(Txids(u)) /\ IsInjective(Txids(u))
      /\ Len(Txids(u)) = Len(u.transactions)
      /\ \A k \in 1 .. Len(u.transactions) : Txids(u)[k].txid = u.transactions[k]
  BY TxidsHold
<1>3. Txids(t) = Txids(u)  BY <1>1, <1>2, StepsTellTransactions
<1>4. QED  BY <1>1, <1>2, <1>3, SameSeq

-----------------------------------------------------------------------------
\* The clock: a second that no job can be made in is one behind the end of
\* int32, and the pool does not run until the clock has come round.
Early == 128 * 256 * 256

ClockInv ==
    /\ Early <= second \/ second <= ticks - MaxInt32 - 2
    /\ \A i \in DOMAIN jobs : Early <= jobs[i].made

LEMMA ClockInvAlways == AssemblySpec => []ClockInv
<1>1. AssemblyInit => ClockInv
  <2>1. SUFFICES ASSUME AssemblyInit PROVE ClockInv  OBVIOUS
  <2>2. second \in Early .. MaxInt32 /\ DOMAIN jobs = {}
    BY <2>1, ClockAssumption DEF AssemblyInit, Early
  <2>3. QED  BY <2>2, MaxInt32Is DEF ClockInv, Early
<1>2. ASSUME JobInv, ClockInv, [AssemblyNext]_jobVars PROVE ClockInv'
  <2>1. /\ second \in Int /\ ticks \in 0 .. MaxTick /\ Early \in Nat
        /\ MaxTick \in Nat /\ MaxTick <= MaxInt32 /\ MaxInt32 \in Nat
    BY <1>2, JobBounds, ClockAssumption, MaxInt32Is
       DEF JobInv, AssemblyTypeOK, Early, Int32
  <2>2. CASE Tick
    <3>1. /\ UNCHANGED jobs /\ ticks' = ticks + 1
          /\ second' = IF second = MaxInt32 THEN -MaxInt32 - 1 ELSE second + 1
      BY <2>2 DEF Tick
    <3>2. Early <= second' \/ second' <= ticks' - MaxInt32 - 2
      BY <1>2, <2>1, <3>1 DEF ClockInv
    <3>3. QED  BY <1>2, <3>1, <3>2 DEF ClockInv
  <2>3. ASSUME NEW t \in Template, NewJob(t) PROVE ClockInv'
    <3>1. UNCHANGED <<second, ticks>>  BY <2>3 DEF NewJob
    <3>2. CASE jobs' = jobs  BY <1>2, <3>1, <3>2 DEF ClockInv
    <3>3. CASE jobs' # jobs
      <4>1. /\ ~JobThrows(t, second)
            /\ jobs' = Append(jobs, MakeJob(t, second))
        BY <2>3, <3>3 DEF NewJob
      <4>2. second >= 0  BY <4>1 DEF JobThrows, CoinbaseThrows, Serializable
      <4>3. Early <= second  BY <1>2, <2>1, <4>2 DEF ClockInv
      <4>4. MakeJob(t, second).made = second  BY DEF MakeJob
      <4>5. /\ DOMAIN jobs' = 1 .. Len(jobs) + 1 /\ DOMAIN jobs = 1 .. Len(jobs)
            /\ jobs'[Len(jobs) + 1] = MakeJob(t, second)
            /\ \A i \in 1 .. Len(jobs) : jobs'[i] = jobs[i]
            /\ Len(jobs) \in Nat
        BY <1>2, <4>1, AppendFacts, SeqFacts DEF JobInv
      <4>6. \A i \in 1 .. Len(jobs) + 1 : i \in 1 .. Len(jobs) \/ i = Len(jobs) + 1
        BY <4>5
      <4>7. \A i \in DOMAIN jobs' : Early <= jobs'[i].made
        BY <1>2, <4>3, <4>4, <4>5, <4>6 DEF ClockInv
      <4>8. QED  BY <3>1, <4>3, <4>7 DEF ClockInv
    <3>4. QED  BY <3>2, <3>3
  <2>4. ASSUME NEW i \in 1 .. MaxJob, NEW share \in Share,
               RegisterSubmit(i, share)
        PROVE  ClockInv'
    BY <1>2, <2>4 DEF RegisterSubmit, ClockInv
  <2>5. CASE UNCHANGED jobVars  BY <1>2, <2>5 DEF jobVars, ClockInv
  <2>6. QED  BY <1>2, <2>2, <2>3, <2>4, <2>5 DEF AssemblyNext
<1>3. JobInv /\ ClockInv /\ [AssemblyNext]_jobVars => ClockInv'  BY <1>2
<1>4. QED  BY <1>1, <1>3, JobInvAlways, PTL DEF AssemblySpec

\* What a job is made of.
LEMMA JobIsMade ==
    ASSUME JobInv, NEW i \in DOMAIN jobs
    PROVE  LET t == jobs[i].blockTemplate
           IN  /\ t \in Template /\ jobs[i].made \in 0 .. MaxInt32
               /\ jobs[i].version = PackLE(t.version, 4)
               /\ jobs[i].prevHash = ReverseBytes(t.previousblockhash)
               /\ jobs[i].bits = ReverseBytes(t.bits)
               /\ jobs[i].steps = Steps(Txids(t)) /\ IsSeq(jobs[i].steps)
<1> DEFINE t == jobs[i].blockTemplate
           m == jobs[i].made
<1>1. t \in Template /\ m \in 0 .. MaxInt32 /\ jobs[i] = MakeJob(t, m)
  BY DEF JobInv, IsJob
<1>2. /\ MakeJob(t, m).version = PackLE(t.version, 4)
      /\ MakeJob(t, m).prevHash = ReverseBytes(t.previousblockhash)
      /\ MakeJob(t, m).bits = ReverseBytes(t.bits)
      /\ MakeJob(t, m).steps = Steps(Txids(t))
  BY DEF MakeJob, Txids
<1> HIDE DEF t, m
<1>3. IsSeq(Steps(Txids(t)))  BY <1>1, TxidsHold, StepsAreHeads
<1>4. QED  BY <1>1, <1>2, <1>3 DEF t, m

\* The work for a share tells the second and the template of its job, but for
\* the template's time.  So a share that is registered for two jobs, and is
\* the same work for both, is one for two jobs made in one second, of
\* templates that differ in their time alone.
THEOREM CountedTwiceOnlyInASecondAlways ==
    AssemblySpec => []CountedTwiceOnlyInASecond
<1>1. JobInv /\ ClockInv => CountedTwiceOnlyInASecond
  <2>1. SUFFICES ASSUME JobInv, ClockInv,
                        NEW i \in DOMAIN jobs, NEW j \in DOMAIN jobs,
                        NEW share \in registered[i] \cap registered[j],
                        SerializeMtpInput(jobs[i], share) =
                            SerializeMtpInput(jobs[j], share)
                 PROVE  /\ jobs[i].made = jobs[j].made
                        /\ \E time \in {u.curtime : u \in Template} :
                              jobs[j].blockTemplate =
                                 [jobs[i].blockTemplate EXCEPT !.curtime = time]
    BY Zenon DEF CountedTwiceOnlyInASecond
  <2> DEFINE t == jobs[i].blockTemplate
             u == jobs[j].blockTemplate
             b == SerializeCoinbase(jobs[i], share)
             c == SerializeCoinbase(jobs[j], share)
  <2>2. /\ t \in Template /\ jobs[i].made \in 0 .. MaxInt32
        /\ jobs[i].version = PackLE(t.version, 4)
        /\ jobs[i].prevHash = ReverseBytes(t.previousblockhash)
        /\ jobs[i].bits = ReverseBytes(t.bits)
        /\ jobs[i].steps = Steps(Txids(t)) /\ IsSeq(jobs[i].steps)
    BY <2>1, JobIsMade
  <2>3. /\ u \in Template /\ jobs[j].made \in 0 .. MaxInt32
        /\ jobs[j].version = PackLE(u.version, 4)
        /\ jobs[j].prevHash = ReverseBytes(u.previousblockhash)
        /\ jobs[j].bits = ReverseBytes(u.bits)
        /\ jobs[j].steps = Steps(Txids(u)) /\ IsSeq(jobs[j].steps)
    BY <2>1, JobIsMade
  <2>4. /\ jobs[i].version = jobs[j].version
        /\ jobs[i].prevHash = jobs[j].prevHash
        /\ jobs[i].bits = jobs[j].bits
        /\ WithFirst(jobs[i].steps, CoinbaseHash(b)) =
              WithFirst(jobs[j].steps, CoinbaseHash(c))
    <3> HIDE DEF b, c
    <3>1. ASSUME NEW job, NEW coinbase, coinbase = SerializeCoinbase(job, share)
          PROVE  /\ SerializeMtpInput(job, share).version = job.version
                 /\ SerializeMtpInput(job, share).prev = job.prevHash
                 /\ SerializeMtpInput(job, share).bits = job.bits
                 /\ SerializeMtpInput(job, share).root =
                       WithFirst(job.steps, CoinbaseHash(coinbase))
      BY <3>1 DEF SerializeMtpInput
    <3>2. /\ b = SerializeCoinbase(jobs[i], share)
          /\ c = SerializeCoinbase(jobs[j], share)
      BY DEF b, c
    <3>3. QED  BY <2>1, <3>1, <3>2
  <2>5. /\ t.version = u.version /\ t.bits = u.bits
        /\ t.previousblockhash = u.previousblockhash
    <3>1. /\ t.version \in -MaxInt32 - 1 .. MaxInt32
          /\ u.version \in -MaxInt32 - 1 .. MaxInt32
      BY <2>2, <2>3, BlockAssumption DEF Int32
    <3>2. /\ t.bits \in Seq(Byte) /\ t.previousblockhash \in Seq(Byte)
          /\ u.bits \in Seq(Byte) /\ u.previousblockhash \in Seq(Byte)
      BY <2>2, <2>3, TemplateFacts
    <3>3. /\ PackLE(t.version, 4) = PackLE(u.version, 4)
          /\ ReverseBytes(t.bits) = ReverseBytes(u.bits)
          /\ ReverseBytes(t.previousblockhash) =
                ReverseBytes(u.previousblockhash)
      BY <2>2, <2>3, <2>4
    <3> HIDE DEF t, u
    <3>4. QED  BY <3>1, <3>2, <3>3, Int32IsTold, ReversedIsTold
  <2>6. jobs[i].steps = jobs[j].steps /\ b = c
    <3> HIDE DEF b, c
    <3>1. QED  BY <2>2, <2>3, <2>4, RootTells
  <2>7. t.transactions = u.transactions
    <3>1. Steps(Txids(t)) = Steps(Txids(u))  BY <2>2, <2>3, <2>6
    <3> HIDE DEF t, u
    <3>2. QED  BY <2>2, <2>3, <3>1, TransactionsAreTold
  <2>8. /\ t.height = u.height /\ t.flags = u.flags
        /\ jobs[i].made = jobs[j].made
    <3> DEFINE s  == ReadCoinbase(b).script
               e1 == share.extraNonce1
               e2 == share.extraNonce2
    <3>1. IsScript(t.height, t.flags, jobs[i].made, e1, e2, Signature, s)
      BY <2>1, ShareScript
    <3>2. IsScript(u.height, u.flags, jobs[j].made, e1, e2, Signature,
                   ReadCoinbase(c).script)
      BY <2>1, ShareScript
    <3>3. /\ Len(SerializeNumber(jobs[i].made)) = 5
          /\ Len(SerializeNumber(jobs[j].made)) = 5
      <4>1. Early <= jobs[i].made /\ Early <= jobs[j].made
        BY <2>1 DEF ClockInv
      <4>2. QED  BY <2>2, <2>3, <4>1, TimeTakesFive DEF Early
    <3> HIDE DEF t, u, b, c
    <3>4. IsScript(u.height, u.flags, jobs[j].made, e1, e2, Signature, s)
      BY <2>6, <3>2
    <3>5. Len(SerializeNumber(jobs[i].made)) = Len(SerializeNumber(jobs[j].made))
      BY <3>3
    <3> HIDE DEF s, e1, e2
    <3>6. QED  BY <3>1, <3>4, <3>5, ScriptIsTold
  <2>9. /\ t.witness = u.witness /\ t.coinbasevalue = u.coinbasevalue
        /\ t.znode = u.znode
    <3>1. ReadCoinbase(b).outputs = TxOutputs(t)  BY <2>1, CoinbaseIsRead
    <3>2. ReadCoinbase(c).outputs = TxOutputs(u)  BY <2>1, CoinbaseIsRead
    <3> HIDE DEF t, u, b, c
    <3>3. TxOutputs(t) = TxOutputs(u)  BY <2>6, <3>1, <3>2
    <3>4. QED  BY <2>2, <2>3, <3>3, OutputsAreTold
  <2>10. u = [t EXCEPT !.curtime = u.curtime]
    <3> HIDE DEF t, u
    <3> DEFINE Fields == [version : Int, previousblockhash : Seq(Byte),
                          bits : Seq(Byte), curtime : Nat,
                          height : 0 .. MaxInt32,
                          flags : Seq(Byte), coinbasevalue : Int64,
                          znode : Seq([amount : Int64, payee : Byte]),
                          witness : Seq(Seq(Byte)), transactions : Seq(Nat)]
    <3>1. t \in Fields /\ u \in Fields  BY <2>2, <2>3, TemplateAssumption
    <3>2. QED  BY <2>5, <2>7, <2>8, <2>9, <3>1
  <2>11. QED  BY <2>3, <2>8, <2>10
<1>2. QED  BY <1>1, JobInvAlways, ClockInvAlways, PTL
=============================================================================

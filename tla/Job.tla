--------------------------------- MODULE Job ---------------------------------
(***************************************************************************)
(* class.Job.js: jobs made of templates, at the second the clock shows,    *)
(* and the work, header and block of a share of them.  Which job a share   *)
(* may be for, and what it is worth, is ShareProcessor's business.         *)
(***************************************************************************)
EXTENDS Coinbase, MerkleTree

CONSTANTS Template,    \* answers to getblocktemplate
          Share,       \* what miners submit: [nonce, extraNonce1,
                       \* extraNonce2, time]
          FirstSecond, \* where the clock starts
          MaxTick,     \* bound on the seconds that pass
          MaxJob       \* bound on the jobs made

VARIABLES
    second,     \* Date.now() / 1000 | 0
    ticks,      \* seconds passed so far
    jobs,       \* the Job objects, in the order they were made
    registered, \* registered[i]: submissionObjMap of jobs[i]
    thrown      \* the template no Job could be made of, in a set

jobVars == <<second, ticks, jobs, registered, thrown>>

ASSUME JobBounds ==
    /\ MaxTick \in Nat /\ MaxJob \in Nat
    /\ FirstSecond \subseteq Int32

\* The clock starts after April of 1970, from when on the seconds take four
\* bytes, and does not go round int32 while the pool runs.
ASSUME ClockAssumption ==
    /\ FirstSecond \subseteq 128 * 256 * 256 .. MaxInt32
    /\ MaxTick <= MaxInt32

\* What a template holds, as far as a job is made of it; a transaction is its
\* id.
ASSUME TemplateAssumption ==
    \A t \in Template :
        /\ t \in [version : Int, previousblockhash : Seq(Byte),
                 bits : Seq(Byte), curtime : Nat, height : 0 .. MaxInt32,
                 flags : Seq(Byte), coinbasevalue : Int64,
                 znode : Seq([amount : Int64, payee : Byte]),
                 witness : Seq(Seq(Byte)), transactions : Seq(Nat)]
        /\ Len(t.znode) <= 1 /\ Len(t.witness) <= 1
        /\ \A i \in DOMAIN t.witness : Len(t.witness[i]) <= MaxInt32
        /\ Len(t.transactions) < MaxInt32

\* What the protocol says of the block a template is for: its version is an
\* int32, no transaction is in it twice, and the script of its commitment
\* begins with OP_RETURN (BIP 141), as that of no payment does.
ASSUME BlockAssumption ==
    \A t \in Template :
        /\ t.version \in Int32
        /\ IsInjective(t.transactions)
        /\ \A i \in DOMAIN t.witness :
              t.witness[i] # <<>> /\ t.witness[i][1] = 106

\* The extra nonces the submit handler lets through fill what the script has
\* room for.
ASSUME ShareAssumption ==
    \A share \in Share :
        /\ share.extraNonce1 \in Seq(Byte) /\ share.extraNonce2 \in Seq(Byte)
        /\ Len(share.extraNonce1) + Len(share.extraNonce2) = ExtraNonceSize

-----------------------------------------------------------------------------

\* Where the constructor throws: on a version packUInt32LE has no room for, as
\* every negative one is, and where the coinbase's does.
JobThrows(t, now) == t.version \notin UInt32 \/ CoinbaseThrows(t, now)

\* The constructor, where it does not throw.  Hashes are bytes, the highest
\* first in the template.
MakeJob(t, now) ==
    [blockTemplate |-> t, made |-> now,
     version   |-> PackLE(t.version, 4),
     prevHash  |-> ReverseBytes(t.previousblockhash),
     bits      |-> ReverseBytes(t.bits),
     coinbase1 |-> CreateCoinbase1(t, now),
     coinbase2 |-> CreateCoinbase2(t),
     steps     |-> Steps([i \in 1 .. Len(t.transactions) |->
                             [txid |-> t.transactions[i]]])]

\* Coinbase.serialize.
SerializeCoinbase(job, share) ==
    job.coinbase1 \o share.extraNonce1 \o share.extraNonce2 \o job.coinbase2

\* sha256d of the coinbase.
CoinbaseHash(coinbase) == [coinbase |-> coinbase]

\* serializeMtpInput: what the proof of work is made for.
SerializeMtpInput(job, share) ==
    [version |-> job.version, prev |-> job.prevHash, bits |-> job.bits,
     time |-> share.time,
     root |-> WithFirst(job.steps, CoinbaseHash(SerializeCoinbase(job, share)))]

\* serializeHashHeader, as far as it does not hold the proof.
SerializeHashHeader(job, share) ==
    [version |-> job.version, prev |-> job.prevHash, bits |-> job.bits,
     time |-> share.time, nonce |-> share.nonce,
     root |-> WithFirst(job.steps, CoinbaseHash(SerializeCoinbase(job, share)))]

\* serializeBlock.
SerializeBlock(job, share) ==
    [header |-> SerializeHashHeader(job, share),
     count  |-> PackVarInt(Len(job.blockTemplate.transactions) + 1),
     coinbase     |-> SerializeCoinbase(job, share),
     transactions |-> job.blockTemplate.transactions]

\* Seeded bug: the previous hash is sent as the template has it.
MiningNotifyReversed(job) ==
    [prevhash |-> ReverseBytes(job.prevHash),
     coinb1 |-> job.coinbase1, coinb2 |-> job.coinbase2,
     merkleBranch |-> job.steps,
     version |-> PackLE(job.blockTemplate.version, 4),
     nbits |-> ReverseBytes(job.blockTemplate.bits)]

\* Where sendMiningJob throws: packInt32LE takes the version, which packUInt32LE
\* took before, and packUInt32LE the time.
NotifyThrows(job) ==
    \/ job.blockTemplate.version \notin Int32
    \/ job.blockTemplate.curtime \notin UInt32

\* The work in mining.notify, from sendMiningJob of class.StratumClient.js,
\* where it does not throw.  The job's prevHashHex is reversed once for the
\* message, and once before.
MiningNotify(job) ==
    [prevhash |-> ReverseBytes(ReverseBytes(job.prevHash)),
     coinb1 |-> job.coinbase1, coinb2 |-> job.coinbase2,
     merkleBranch |-> job.steps,
     version |-> PackLE(job.blockTemplate.version, 4),
     nbits |-> ReverseBytes(job.blockTemplate.bits)]

-----------------------------------------------------------------------------

AssemblyInit ==
    /\ second \in FirstSecond
    /\ ticks = 0
    /\ jobs = <<>>
    /\ registered = <<>>
    /\ thrown = {}

\* | 0 keeps 32 bits, the highest for the sign.
Tick ==
    /\ thrown = {} /\ ticks < MaxTick
    /\ ticks' = ticks + 1
    /\ second' = IF second = MaxInt32 THEN -MaxInt32 - 1 ELSE second + 1
    /\ UNCHANGED <<jobs, registered, thrown>>

\* new Job, from _updateJob; nobody catches what it throws.
NewJob(t) ==
    /\ thrown = {} /\ Len(jobs) < MaxJob
    /\ \/ /\ ~JobThrows(t, second)
          /\ jobs' = Append(jobs, MakeJob(t, second))
          /\ registered' = Append(registered, {})
          /\ UNCHANGED thrown
       \/ /\ JobThrows(t, second)
          /\ thrown' = {t}
          /\ UNCHANGED <<jobs, registered>>
    /\ UNCHANGED <<second, ticks>>

\* registerSubmit, where it does not find a duplicate.
RegisterSubmit(i, share) ==
    /\ thrown = {} /\ i \in DOMAIN jobs
    /\ share \notin registered[i]
    /\ registered' = [registered EXCEPT ![i] = @ \cup {share}]
    /\ UNCHANGED <<second, ticks, jobs, thrown>>

AssemblyNext ==
    \/ Tick
    \/ \E t \in Template : NewJob(t)
    \/ \E i \in 1 .. MaxJob, share \in Share : RegisterSubmit(i, share)

AssemblySpec == AssemblyInit /\ [][AssemblyNext]_jobVars

-----------------------------------------------------------------------------

\* Types of the state.
AssemblyTypeOK ==
    /\ second \in Int32
    /\ ticks \in 0 .. MaxTick
    /\ Len(jobs) <= MaxJob
    /\ \A i \in DOMAIN jobs :
          /\ jobs[i].blockTemplate \in Template
          /\ jobs[i].coinbase1 \in Seq(Byte) /\ jobs[i].coinbase2 \in Seq(Byte)
          /\ registered[i] \in SUBSET Share
    /\ DOMAIN registered = DOMAIN jobs
    /\ thrown \in SUBSET Template

\* The coinbase of every share is a transaction that can be read to the last
\* byte.  Its script is as long as it may be, begins with the height of the
\* block (BIP 34) and the time after the flags, and holds the extra nonces of
\* the share and the signature, each behind its length.
CoinbaseIsReadable ==
    \A i \in DOMAIN jobs : \A share \in registered[i] :
        LET t      == jobs[i].blockTemplate
            tx     == ReadCoinbase(SerializeCoinbase(jobs[i], share))
            height == ReadNumber(tx.script, 1)
            time   == ReadNumber(tx.script, height.next + Len(t.flags))
        IN  /\ tx.complete
            /\ Len(tx.script) \in 2 .. InputMax
            /\ height.value = t.height
            /\ time.value = jobs[i].made
            /\ SubSeq(tx.script, time.next, Len(tx.script)) =
                  <<16>> \o share.extraNonce1 \o share.extraNonce2
                         \o <<Len(Signature)>> \o Signature

\* Whom a template has paid: the pool, the znode and the founders, and the
\* commitment.
PaidBy(t) ==
    {Pay(t.coinbasevalue, PoolAddress)}
      \cup {Pay(z.amount, z.payee) : z \in Range(t.znode)}
      \cup {Pay(50000000, Founder[k]) : k \in {1, 2, 3, 5}}
      \cup {Pay(150000000, Founder[4])}
      \cup {[amount |-> 0, script |-> w] : w \in Range(t.witness)}

\* The outputs that can be read pay the pool what the template gives it, the
\* znode and the founders their parts, and carry the commitment; there are no
\* others.
EveryoneIsPaid ==
    \A i \in DOMAIN jobs : \A share \in registered[i] :
        LET t    == jobs[i].blockTemplate
            outs == ReadCoinbase(SerializeCoinbase(jobs[i], share)).outputs
        IN  /\ Range(outs) = PaidBy(t)
            /\ Len(outs) = 6 + Len(t.znode) + Len(t.witness)

\* A block that is submitted has in its header the Merkle root of the
\* transactions it consists of, says how many they are, and is the one the
\* proof of work was made for.
BlockHasItsRoot ==
    \A i \in DOMAIN jobs : \A share \in registered[i] :
        LET block == SerializeBlock(jobs[i], share)
            input == SerializeMtpInput(jobs[i], share)
            txids == [k \in 1 .. Len(block.transactions) |->
                         [txid |-> block.transactions[k]]]
        IN  /\ block.header.root =
                  MerkleRoot(<<CoinbaseHash(block.coinbase)>> \o txids)
            /\ ReadVarInt(block.count, 1) =
                  [value |-> Len(txids) + 1, next |-> Len(block.count) + 1]
            /\ block.header = [f \in DOMAIN input \cup {"nonce"} |->
                  IF f = "nonce" THEN share.nonce ELSE input[f]]

\* A miner that puts its extra nonces and time into what mining.notify told it
\* works on what its share will be verified for: the version too, which is
\* written as a signed number for the one and as an unsigned one for the other.
MinersWorkOnTheJob ==
    \A i \in DOMAIN jobs : \A share \in registered[i] :
        LET told     == MiningNotify(jobs[i])
            coinbase == told.coinb1 \o share.extraNonce1 \o share.extraNonce2
                                    \o told.coinb2
        IN  ~NotifyThrows(jobs[i]) => SerializeMtpInput(jobs[i], share) =
              [version |-> told.version, prev |-> told.prevhash,
               bits |-> told.nbits, time |-> share.time,
               root |-> WithFirst(told.merkleBranch, CoinbaseHash(coinbase))]

\* One piece of work may be registered for two jobs, and its share counted
\* twice, only where both jobs were made in one second, of templates that
\* differ in nothing but their time.
CountedTwiceOnlyInASecond ==
    \A i, j \in DOMAIN jobs : \A share \in registered[i] \cap registered[j] :
        LET t == jobs[i].blockTemplate
        IN  SerializeMtpInput(jobs[i], share) = SerializeMtpInput(jobs[j], share)
            => /\ jobs[i].made = jobs[j].made
               /\ \E time \in {u.curtime : u \in Template} :
                     jobs[j].blockTemplate = [t EXCEPT !.curtime = time]

\* A job can be made of every template of a block whose version is not
\* negative, and whose flags leave room for what else is in the script, until
\* the seconds exceed 31 bits (in 2038).
ThrownForAReason ==
    \A t \in thrown :
        \/ t.version < 0
        \/ second < 0
        \/ Len(t.flags) + Len(Signature) > 72
=============================================================================

------------------------------- MODULE Coinbase -------------------------------
(***************************************************************************)
(* class.Coinbase.js: the coinbase transaction of a job, in two parts      *)
(* between which the extra nonces go.  An address is the number of its     *)
(* key; what a template may lack (znode, default_witness_commitment) is a  *)
(* sequence of at most one element.                                        *)
(***************************************************************************)
EXTENDS Buffers

CONSTANTS PoolAddress, \* config.address
          Signature,   \* pool.coinbaseSignature, ASCII
          Founder      \* the five founders' addresses of the network in use

ExtraNonceSize == 16
InputMax       == 100
Max32          == <<255, 255, 255, 255>>

ASSUME CoinbaseAssumption ==
    /\ PoolAddress \in Byte
    /\ Signature \in Seq(Byte)
    /\ Founder \in Seq(Byte) /\ Len(Founder) = 5

\* _addressToScript: OP_DUP OP_HASH160 <key> OP_EQUALVERIFY OP_CHECKSIG.
AddressToScript(address) ==
    <<118, 169, 20>> \o [i \in 1 .. 20 |-> address] \o <<136, 172>>

-----------------------------------------------------------------------------

\* Seeded bug: the time is left out.
InputScriptUntimed(t, second) ==
    SerializeNumber(t.height) \o t.flags \o <<ExtraNonceSize>>

\* The input's script as far as the extra nonces.
InputScript(t, second) ==
    SerializeNumber(t.height) \o t.flags \o SerializeNumber(second)
        \o <<ExtraNonceSize>>

\* Seeded bug: the extra nonces are counted twice.
InputScriptLenTwice(t, second) ==
    Len(InputScript(t, second)) + 2 * ExtraNonceSize
        + Len(SerializeString(Signature))

InputScriptLen(t, second) ==
    Len(InputScript(t, second)) + ExtraNonceSize + Len(SerializeString(Signature))

\* _createCoinbase1 throws where the time is a number writeUInt8 refuses, and
\* where the script is too large.
CoinbaseThrows(t, second) ==
    Serializable(second) => InputScriptLen(t, second) > InputMax

\* _createCoinbase1; the time is the one at which the job is made.
CreateCoinbase1(t, second) ==
    PackLE(1, 4) \o PackVarInt(1) \o Zeros(32) \o Max32
        \o PackVarInt(InputScriptLen(t, second)) \o InputScript(t, second)

Pay(amount, address) == [amount |-> amount, script |-> AddressToScript(address)]

ZnodeOutputs(t) ==
    [i \in 1 .. Len(t.znode) |-> Pay(t.znode[i].amount, t.znode[i].payee)]

FounderOutputs ==
    [i \in 1 .. 5 |-> Pay(IF i = 4 THEN 150000000 ELSE 50000000, Founder[i])]

WitnessOutputs(t) ==
    [i \in 1 .. Len(t.witness) |-> [amount |-> 0, script |-> t.witness[i]]]

\* Seeded bug: the commitment takes the place of the first output.
TxOutputsOverwritten(t) ==
    (IF t.witness = <<>> THEN <<Pay(t.coinbasevalue, PoolAddress)>>
                         ELSE WitnessOutputs(t))
        \o ZnodeOutputs(t) \o FounderOutputs

\* _createTxOutputs: the pool is put before the znode and the founders, the
\* commitment before all.
TxOutputs(t) ==
    WitnessOutputs(t) \o <<Pay(t.coinbasevalue, PoolAddress)>>
        \o ZnodeOutputs(t) \o FounderOutputs

\* Seeded bug: the amount is written as if it were a byte.
OutputBytesShort(output) ==
    <<output.amount>> \o PackVarInt(Len(output.script)) \o output.script

\* _addTransaction.
OutputBytes(output) ==
    PackLE(output.amount, 8) \o PackVarInt(Len(output.script)) \o output.script

\* _createCoinbase2.
CreateCoinbase2(t) ==
    LET outputs == TxOutputs(t)
    IN  SerializeString(Signature) \o Max32
            \o PackVarInt(Len(outputs))
            \o FlattenSeq([i \in 1 .. Len(outputs) |-> OutputBytes(outputs[i])])
            \o PackLE(0, 4)

-----------------------------------------------------------------------------
\* What the daemon reads, after its own format.

\* Where the output at i ends and the next begins, and what is in it.
NextOutput(b, i) ==
    LET len == ReadVarInt(b, i + 8)
    IN  len.next + len.value

ReadOutput(b, i) ==
    [amount |-> ReadLE(b, i, 8),
     script |-> SubSeq(b, ReadVarInt(b, i + 8).next, NextOutput(b, i) - 1)]

\* Where the outputs begin that stand one behind the other from i on.
OutputStarts(b, i) ==
    LET start[k \in Nat] == IF k = 0 THEN i ELSE NextOutput(b, start[k - 1])
    IN  start

\* A coinbase transaction: the script of its input, its outputs, and whether
\* the rest is as it must be to the last byte.
ReadCoinbase(b) ==
    LET len   == ReadVarInt(b, 42)
        last  == len.next + len.value
        count == ReadVarInt(b, last + 4)
        start == OutputStarts(b, count.next)
    IN  [script   |-> SubSeq(b, len.next, last - 1),
         outputs  |-> [k \in 1 .. count.value |-> ReadOutput(b, start[k - 1])],
         complete |-> /\ SubSeq(b, 1, 41) = PackLE(1, 4) \o <<1>> \o Zeros(32)
                                                \o Max32
                      /\ SubSeq(b, last, last + 3) = Max32
                      /\ SubSeq(b, start[count.value], Len(b)) = Zeros(4)]
=============================================================================

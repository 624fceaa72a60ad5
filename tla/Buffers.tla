------------------------------- MODULE Buffers -------------------------------
(***************************************************************************)
(* service.buffers.js: numbers and strings as bytes.  A buffer is a        *)
(* sequence of 0 .. 255.                                                   *)
(***************************************************************************)
EXTENDS Integers, SequencesExt

Byte == 0 .. 255

\* n zero bytes.
Zeros(n) == [i \in 1 .. n |-> 0]

\* n >> 8 * k.
Shifted(n) ==
    LET rest[k \in Nat] == IF k = 0 THEN n ELSE rest[k - 1] \div 256
    IN  rest

\* packInt32LE, packUInt32LE, packInt64LE, where they have room for n: its
\* size low bytes, the lowest first.
PackLE(n, size) == [i \in 1 .. size |-> Shifted(n)[i - 1] % 256]

MaxInt32 == 2147483647

\* What they have room for.  writeInt32LE and writeUInt32LE throw on the rest.
Int32  == -MaxInt32 - 1 .. MaxInt32
UInt32 == {n \in Nat : Shifted(n)[4] = 0}
Int64  == {n \in Nat : Shifted(n)[8] = 0}

\* packVarInt.
PackVarInt(n) ==
    IF n < 253 THEN <<n>>
    ELSE IF n <= 65535 THEN <<253>> \o PackLE(n, 2)
    ELSE <<254>> \o PackLE(n, 4)

\* serializeNumber takes what writeUInt8 takes: nothing negative.
Serializable(n) == n >= 0

\* Seeded bug: the highest bit of the last byte is left to the number, where
\* it is the sign.
SizeUnsigned(n) ==
    CHOOSE size \in 1 .. 4 :
        /\ Shifted(n)[size - 1] <= 255
        /\ \A k \in 1 .. size - 1 : Shifted(n)[k - 1] > 255

\* The bytes serializeNumber takes from an int32 number, until what is left fits
\* one of them beside the sign.
SizeOf(n) ==
    CHOOSE size \in 1 .. 4 :
        /\ Shifted(n)[size - 1] <= 127
        /\ \A k \in 1 .. size - 1 : Shifted(n)[k - 1] > 127

\* serializeNumber: what it pushes in a script.
SerializeNumber(n) ==
    IF n \in 1 .. 16 THEN <<80 + n>> ELSE <<SizeOf(n)>> \o PackLE(n, SizeOf(n))

\* serializeString, for a string of ASCII.
SerializeString(s) ==
    IF Len(s) < 253 THEN <<Len(s)>> \o s
    ELSE <<253>> \o PackLE(Len(s), 2) \o s

\* reverseBytes, and so leToHex and hexToLE.
ReverseBytes(b) == [i \in 1 .. Len(b) |-> b[Len(b) - i + 1]]

-----------------------------------------------------------------------------
\* What the daemon reads, after its own format.

\* The number the last k of the bytes are, the lowest first.
LastBytes(bytes) ==
    LET sum[k \in Nat] ==
            IF k = 0 THEN 0 ELSE bytes[Len(bytes) + 1 - k] + 256 * sum[k - 1]
    IN  sum

FromLE(bytes) == LastBytes(bytes)[Len(bytes)]

\* A number of size bytes from i on.
ReadLE(b, i, size) == FromLE(SubSeq(b, i, i + size - 1))

\* A varint at i: its value, and where the bytes behind it start.
ReadVarInt(b, i) ==
    IF b[i] < 253 THEN [value |-> b[i], next |-> i + 1]
    ELSE LET size == IF b[i] = 253 THEN 2 ELSE 4
         IN  [value |-> ReadLE(b, i + 1, size), next |-> i + 1 + size]

\* A number pushed at i: OP_1 to OP_16, or a length and as many bytes, the
\* highest of which has the sign in its high bit.
ReadNumber(b, i) ==
    IF b[i] \in 81 .. 96 THEN [value |-> b[i] - 80, next |-> i + 1]
    ELSE LET bytes == SubSeq(b, i + 1, i + b[i])
             abs   == FromLE([bytes EXCEPT ![b[i]] = @ % 128])
         IN  [value |-> IF bytes[b[i]] >= 128 THEN -abs ELSE abs,
              next  |-> i + b[i] + 1]
=============================================================================

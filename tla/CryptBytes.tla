----------------------------- MODULE CryptBytes -----------------------------
(***************************************************************************)
(* enc.CryptBytes and enc.CryptoReader: AES in counter mode, entered at    *)
(* any offset.  A part or bundle is encrypted from its beginning, in       *)
(* pieces as large as the reads happened to be, and decrypted from any     *)
(* offset, in other pieces.                                                *)
(*                                                                         *)
(* AES itself is abstract: the j-th byte of the block that is made from a  *)
(* counter is <<counter, j>>.  A byte carries the set of the keystream     *)
(* bytes it is XORed with, so a plain byte is one that carries none.       *)
(***************************************************************************)
EXTENDS Integers, Sequences

BlockSize == 16   \* aes.BlockSize

Byte == [byte : Nat, masks : SUBSET (Nat \X Nat)]

Plain(b) == [byte |-> b, masks |-> {}]

Xor(b, k) ==
  [byte |-> b.byte, masks |-> IF k \in b.masks THEN b.masks \ {k} ELSE b.masks \cup {k}]

\* What a byte of the counter counts.  A part has up to db.PartSize bytes, 2^30,
\* and a bundle up to twice as many, so the 12 bytes in front are always zero.
Weight(i) ==
  IF i = 13 THEN 16777216 ELSE IF i = 14 THEN 65536 ELSE IF i = 15 THEN 256 ELSE 1

\* (mutant) only the last byte is set
LastByteOfCounter(ivInt) == [i \in 1..16 |-> IF i < 16 THEN 0 ELSE ivInt % 256]

\* The block number, as the big-endian counter the stream begins with.
CounterBytes(ivInt) ==
  [i \in 1..16 |-> IF i < 13 THEN 0 ELSE (ivInt \div Weight(i)) % 256]

CounterOf(iv) ==
  iv[13] * Weight(13) + iv[14] * Weight(14) + iv[15] * Weight(15) + iv[16]

\* The i-th byte after the first one of the stream of cipher.NewCTR.
StreamByte(iv, i) == <<CounterOf(iv) + (i \div BlockSize), i % BlockSize>>

\* (mutant) no bytes are skipped
NoSkip(offset) == 0

\* The bytes of the first block in front of the offset.
Skip(offset) == offset % BlockSize

\* What CryptBytes(data, offset) XORs data[i] with.
Keystream(offset, i) ==
  StreamByte(CounterBytes((offset - (offset % BlockSize)) \div BlockSize),
             Skip(offset) + i)

CryptBytes(data, offset) ==
  [i \in DOMAIN data |-> Xor(data[i], Keystream(offset, i - 1))]

=============================================================================

-------------------------- MODULE WebdavFileProofs --------------------------
(***************************************************************************)
(* CryptBytes gives the same keystream wherever a file is entered, and so  *)
(* a handle delivers plain bytes, for files of any size at any offset of a *)
(* bundle, and reads of any sizes.                                         *)
(***************************************************************************)
EXTENDS WebdavFile, SequenceTheorems, TLAPS

\* The four bytes of a block counter give the counter back: CryptBytes loses no
\* bit when it writes ivInt into iv.
LEMMA CounterIsKept ==
  ASSUME NEW n \in Nat, n < 268435456
  PROVE  CounterOf(CounterBytes(n)) = n
<1> DEFINE b3 == (n \div 16777216) % 256
           b2 == (n \div 65536) % 256
           b1 == (n \div 256) % 256
           b0 == n % 256
<1>1. /\ CounterBytes(n)[13] = b3 /\ CounterBytes(n)[14] = b2
      /\ CounterBytes(n)[15] = b1 /\ CounterBytes(n)[16] = (n \div 1) % 256
  BY SMT DEF CounterBytes, Weight
<1>2. n \div 1 = n
  BY SMT
<1>3. (b3 * 16777216) + (b2 * 65536) + (b1 * 256) + b0 = n
  BY SMT
<1> QED
  BY SMT, <1>1, <1>2, <1>3 DEF CounterOf, Weight

\* The keystream depends on the position in the storage file only, and not on
\* the offset at which CryptBytes was called.
LEMMA KeystreamByPosition ==
  ASSUME NEW o \in Nat, NEW i \in Nat, o <= 2147483647
  PROVE  Keystream(o, i) = <<(o + i) \div 16, (o + i) % 16>>
<1> DEFINE n == (o - (o % 16)) \div 16
<1>1. n \in Nat /\ n < 268435456 /\ o = (16 * n) + (o % 16) /\ (o % 16) \in 0..15
  BY SMT
<1>2. CounterOf(CounterBytes(n)) = n
  BY SMT, <1>1, CounterIsKept
<1>3. /\ n + (((o % 16) + i) \div 16) = (o + i) \div 16
      /\ ((o % 16) + i) % 16 = (o + i) % 16
  BY SMT, <1>1
<1> QED
  BY SMT, <1>2, <1>3 DEF Keystream, StreamByte, Skip, BlockSize

\* The length of a piece leaves an offset that CryptBytes can be called with.
LEMMA Remainder ==
  ASSUME NEW o \in Nat, NEW w \in Nat \ {0}
  PROVE  o % w \in Nat /\ o - (o % w) \in Nat
  BY SMT

\* A byte of the stream that is XORed twice leaves the byte as it was.
LEMMA XorTwice ==
  ASSUME NEW b, NEW k
  PROVE  Xor(Xor(Plain(b), k), k) = Plain(b)
<1>1. {} \cup {k} = {k} /\ {k} \ {k} = {} /\ k \notin {} /\ k \in {k}
  BY SMT
<1>2. Xor(Plain(b), k) = [byte |-> b, masks |-> {k}]
  BY SMT, <1>1 DEF Xor, Plain
<1>3. Xor([byte |-> b, masks |-> {k}], k) = [byte |-> b, masks |-> {}]
  BY SMT, <1>1 DEF Xor
<1> QED
  BY SMT, <1>2, <1>3 DEF Plain

\* What was encrypted in the pieces of the upload is plain again when it is
\* decrypted from any offset.
LEMMA DecryptsToPlain ==
  ASSUME wrote \in Nat \ {0},
         NEW off \in Nat, NEW i \in Nat, NEW o \in Nat,
         o = off + i, o <= 2147483647
  PROVE  Xor(StoredByte(o), Keystream(off, i)) = Plain(o)
<1> DEFINE k == <<o \div 16, o % 16>>
           r == o % wrote
<1>1. r \in Nat /\ o - r \in Nat
  BY SMT, Remainder
<1>2. Keystream(o - r, r) = k
  <2> HIDE DEF r
  <2>1. o - r <= 2147483647 /\ (o - r) + r = o
    BY SMT, <1>1
  <2> QED
    BY SMT, <1>1, <2>1, KeystreamByPosition
<1>3. Keystream(off, i) = k
  BY SMT, KeystreamByPosition
<1>4. StoredByte(o) = Xor(Plain(o), k)
  BY SMT, <1>2 DEF StoredByte
<1> HIDE DEF k
<1>5. Xor(Xor(Plain(o), k), k) = Plain(o)
  BY SMT, XorTwice
<1> QED
  BY SMT, <1>3, <1>4, <1>5

-----------------------------------------------------------------------------
\* What a Read has got is plain, and reader and decryption are at the byte that
\* follows it: the positions in the bundle, in the file and in the keystream,
\* kept by three parties, never come apart.
InStep ==
  /\ innerOff = position
  /\ pc = "read" =>
       /\ inner = Base + position + Len(buffer) /\ crOffset = inner
       /\ want > 0 => position + Len(buffer) + want <= FileSize

IInv == TypeOK /\ InStep /\ DeliversPlain

LEMMA InitIInv == Init => IInv
<1> SUFFICES ASSUME Init PROVE IInv
  OBVIOUS
<1>1. buffer = << >> /\ Len(buffer) = 0 /\ buffer \in Seq(Byte)
  BY SMT DEF Init
<1>2. TypeOK
  BY SMT, <1>1, FileAssumption DEF Init, TypeOK
<1>3. InStep
  BY SMT DEF Init, InStep
<1>4. DeliversPlain
  BY SMT, <1>1 DEF Init, DeliversPlain
<1> QED
  BY SMT, <1>2, <1>3, <1>4 DEF IInv

\* Nothing is promised of an empty buffer but that the positions are right.
LEMMA EmptyIsPlain == ASSUME buffer = << >> PROVE DeliversPlain
<1>1. Len(buffer) = 0 /\ buffer = [i \in 1..0 |-> i]
  BY SMT
<1> QED
  BY SMT, <1>1 DEF DeliversPlain

LEMMA SeekKeeps == ASSUME IInv, Seek PROVE IInv'
<1>1. innerOff' \in Nat
  <2>1. PICK offset \in Offsets, whence \in {"start", "current", "end"} :
          innerOff' = NewPos(offset, whence, innerOff)
    BY SMT DEF Seek
  <2> DEFINE pos == [start |-> 0, current |-> innerOff, end |-> FileSize][whence]
  <2>2. pos \in Int
    BY SMT, FileAssumption DEF IInv, TypeOK
  <2>3. offset \in Int
    BY SMT, FileAssumption
  <2> QED
    BY SMT, <2>1, <2>2, <2>3 DEF NewPos, Clamp
<1>2. buffer' = << >> /\ buffer' \in Seq(Byte)
  BY SMT DEF Seek
<1>3. TypeOK'
  BY SMT, <1>1, <1>2 DEF IInv, TypeOK, Seek, reader
<1>4. InStep'
  BY SMT DEF InStep, Seek
<1>5. DeliversPlain'
  BY SMT, <1>2 DEF DeliversPlain
<1> QED
  BY SMT, <1>3, <1>4, <1>5 DEF IInv

LEMMA BeginReadKeeps == ASSUME IInv, BeginRead PROVE IInv'
<1>1. PICK n \in ReadSizes :
        want' = IF innerOff < FileSize THEN Smaller(n, FileSize - innerOff) ELSE 0
  BY SMT DEF BeginRead
<1>2. n \in Nat /\ innerOff \in Nat /\ Base \in Nat /\ FileSize \in Nat
  BY SMT, FileAssumption DEF IInv, TypeOK
<1>3. want' \in Nat /\ (want' > 0 => innerOff + want' <= FileSize)
  BY SMT, <1>1, <1>2 DEF Smaller
<1>4. buffer' = << >> /\ buffer' \in Seq(Byte) /\ Len(buffer') = 0
  BY SMT DEF BeginRead
<1>5. TypeOK'
  BY SMT, <1>2, <1>3, <1>4 DEF IInv, TypeOK, BeginRead
<1>6. InStep'
  BY SMT, <1>2, <1>3, <1>4 DEF IInv, InStep, BeginRead
<1>7. DeliversPlain'
  BY SMT, <1>4 DEF DeliversPlain
<1> QED
  BY SMT, <1>5, <1>6, <1>7 DEF IInv

LEMMA ReadPieceKeeps == ASSUME IInv, ReadPiece PROVE IInv'
<1> DEFINE plain(n) == [i \in 1..n |-> Plain(inner + i - 1)]
<1>a. PICK size \in ReadSizes :
        /\ buffer' = buffer \o Decrypted(Smaller(size, want))
        /\ inner' = inner + Smaller(size, want) /\ want' = want - Smaller(size, want)
        /\ crOffset' = crOffset + Smaller(size, want)
  BY SMT DEF ReadPiece, NextOffset
<1> DEFINE n == Smaller(size, want)
<1>b. size \in Nat /\ size > 0 /\ want \in Nat /\ want > 0
  BY SMT, FileAssumption DEF IInv, TypeOK, ReadPiece
<1>c. n \in Nat /\ 0 < n /\ n <= want
  BY SMT, <1>b DEF Smaller
<1>1. /\ n \in Nat /\ 0 < n /\ n <= want
      /\ buffer' = buffer \o Decrypted(n)
      /\ inner' = inner + n /\ want' = want - n
      /\ crOffset' = crOffset + n
  BY SMT, <1>a, <1>c
<1> HIDE DEF n
<1>2. /\ Base \in Nat /\ FileSize \in Nat /\ Base + FileSize - 1 <= 2147483647
      /\ wrote \in Nat \ {0} /\ position \in Nat /\ want \in Nat
      /\ Len(buffer) \in Nat /\ buffer \in Seq(Byte) /\ pc = "read"
  BY SMT, FileAssumption DEF IInv, TypeOK, ReadPiece
<1>3. /\ inner = Base + position + Len(buffer) /\ crOffset = inner
      /\ position + Len(buffer) + want <= FileSize
  BY SMT, <1>1, <1>2 DEF IInv, InStep
<1>4. Decrypted(n) = plain(n)
  <2>1. ASSUME NEW i \in 1..n
        PROVE  Xor(StoredByte(inner + i - 1), Keystream(crOffset, i - 1)) = Plain(inner + i - 1)
    <3>1. /\ crOffset \in Nat /\ i - 1 \in Nat /\ inner + i - 1 \in Nat
          /\ inner + i - 1 = crOffset + (i - 1) /\ inner + i - 1 <= 2147483647
      BY SMT, <1>1, <1>2, <1>3
    <3> QED
      BY SMT, <1>2, <3>1, DecryptsToPlain
  <2> QED
    BY SMT, <1>1, <2>1 DEF CryptBytes, Decrypted
<1>5. plain(n) \in Seq(Byte) /\ Len(plain(n)) = n
  <2>1. ASSUME NEW i \in 1..n PROVE Plain(inner + i - 1) \in Byte
    BY SMT, <1>1, <1>2, <1>3 DEF Plain, Byte
  <2> QED
    BY SMT, <1>1, <2>1
<1> DEFINE len == Len(buffer)
<1> HIDE DEF plain
<1>6. buffer' \in Seq(Byte) /\ Len(buffer') = len + n
  <2> DEFINE p == plain(n)
  <2> HIDE DEF p
  <2>1. p \in Seq(Byte) /\ Len(p) = n /\ buffer' = buffer \o p /\ buffer \in Seq(Byte)
    BY SMT, <1>1, <1>2, <1>4, <1>5 DEF p
  <2>2. buffer \o p \in Seq(Byte) /\ Len(buffer \o p) = Len(buffer) + Len(p)
    BY Zenon, <2>1, ConcatProperties
  <2> QED
    BY SMT, <2>1, <2>2
<1>7. TypeOK'
  BY SMT, <1>1, <1>2, <1>3, <1>6 DEF IInv, TypeOK, ReadPiece
<1>8. InStep'
  BY SMT, <1>1, <1>2, <1>3, <1>6 DEF IInv, InStep, ReadPiece
<1>9. DeliversPlain'
  <2>1. buffer = [i \in 1..len |-> Plain(Base + position + i - 1)]
    BY SMT, <1>2 DEF IInv, DeliversPlain
  <2>2. ASSUME NEW i \in 1..(len + n)
        PROVE  buffer'[i] = Plain(Base + position + i - 1)
    <3>1. CASE i <= len
      <4>1. buffer'[i] = buffer[i]
        BY SMT, <3>1, <1>1, <1>2, <1>4, <1>5
      <4> QED
        BY SMT, <3>1, <4>1, <2>1, <1>2
    <3>2. CASE i > len
      <4>1. buffer'[i] = plain(n)[i - len] /\ i - len \in 1..n
        BY SMT, <3>2, <1>1, <1>2, <1>4, <1>5
      <4>2. plain(n)[i - len] = Plain(inner + (i - len) - 1)
        BY SMT, <4>1 DEF plain
      <4>3. inner + (i - len) - 1 = Base + position + i - 1
        BY SMT, <1>2, <1>3
      <4> QED
        BY SMT, <4>1, <4>2, <4>3
    <3> QED
      BY SMT, <3>1, <3>2, <1>2
  <2>3. buffer' = [i \in 1..Len(buffer') |-> Plain(Base + position + i - 1)]
    BY SMT, <2>2, <1>6
  <2>4. position' = position /\ pc' = pc
    BY SMT DEF ReadPiece
  <2>5. position + Len(buffer') <= FileSize
    BY SMT, <1>1, <1>2, <1>3, <1>6
  <2> QED
    BY SMT, <2>3, <2>4, <2>5, <1>2 DEF DeliversPlain
<1> QED
  BY SMT, <1>7, <1>8, <1>9 DEF IInv

LEMMA EndReadKeeps == ASSUME IInv, EndRead PROVE IInv'
<1>1. position \in Nat /\ innerOff = position /\ Len(buffer) \in Nat
  BY SMT DEF IInv, TypeOK, InStep
<1>2. /\ position' = position + Len(buffer) /\ innerOff' = position'
      /\ pc = "read" /\ pc' = "idle" /\ buffer' = buffer
  BY SMT, <1>1 DEF EndRead
<1>3. TypeOK'
  BY SMT, <1>1, <1>2 DEF IInv, TypeOK, EndRead
<1>4. InStep'
  BY SMT, <1>2 DEF InStep
<1>5. DeliversPlain'
  <2>1. position' - Len(buffer') = position
    BY SMT, <1>1, <1>2
  <2> QED
    BY SMT, <1>2, <2>1 DEF IInv, DeliversPlain
<1> QED
  BY SMT, <1>3, <1>4, <1>5 DEF IInv

LEMMA StutterKeeps == ASSUME IInv, UNCHANGED vars PROVE IInv'
  BY SMT DEF IInv, TypeOK, InStep, DeliversPlain, vars, reader

LEMMA NextKeeps == ASSUME IInv, [Next]_vars PROVE IInv'
  BY SMT, SeekKeeps, BeginReadKeeps, ReadPieceKeeps, EndReadKeeps, StutterKeeps DEF Next

-----------------------------------------------------------------------------
\* The inductive invariant: reader, decryption and handle stay in step.
THEOREM Invariant == Spec => []IInv
  BY InitIInv, NextKeeps, PTL DEF Spec

\* The positions and buffers of a handle keep their types for all files.
THEOREM TypeCorrect == Spec => []TypeOK
<1>1. IInv => TypeOK
  BY SMT DEF IInv
<1> QED
  BY <1>1, Invariant, PTL

\* Whatever is read and sought, in pieces of any size and at any offset of a
\* bundle, which holds at most two GiB: Read gives the file's plain bytes.
THEOREM PlainDelivered == Spec => []DeliversPlain
<1>1. IInv => DeliversPlain
  BY SMT DEF IInv
<1> QED
  BY <1>1, Invariant, PTL

=============================================================================

----------------------------- MODULE WebdavFile -----------------------------
(***************************************************************************)
(* webdav._File, a handle with random access to a file that is not         *)
(* compressed, from its first Read on: any sequence of Seek and Read.  The *)
(* bytes come decrypted from the middle of a bundle, or from a part, in    *)
(* reads of any size.                                                      *)
(*                                                                         *)
(* The reader between the handle and _CryptRService, impl.NewSubReaderAt,  *)
(* is not part of the repository.  It is taken to fetch what it is asked   *)
(* for, up to the end of the file, with one LimitedReader.                 *)
(***************************************************************************)
EXTENDS CryptBytes

CONSTANTS
  Base,        \* offset of the file in its bundle, 0 in a part
  FileSize,
  ReadSizes,   \* the lengths of buffers, and of reads from the network
  Offsets      \* the arguments of Seek

ASSUME FileAssumption ==
  /\ Base \in Nat /\ FileSize \in Nat
  /\ Base + FileSize - 1 <= 2147483647   \* a bundle has up to 2 * db.PartSize bytes
  /\ ReadSizes \subseteq Nat \ {0} /\ ReadSizes # {}
  /\ Offsets \subseteq Int

VARIABLES
  wrote,      \* size of the pieces Upload has encrypted
  innerOff,   \* f.innerOff
  pc,         \* "idle", or "read" while a Read holds offLock
  want,       \* bytes the Read has still to get
  inner,      \* position of the reader from the network
  crOffset,   \* cr.offset of the _CryptoReader on top of it
  buffer,     \* the bytes of the last Read so far
  position    \* (ghost) where os.File would be before this Read

reader == <<want, inner, crOffset>>
vars == <<wrote, innerOff, pc, reader, buffer, position>>

Smaller(m, n) == IF m < n THEN m ELSE n

\* The byte at an offset of the bundle, as uploadBundle has encrypted it, element
\* by element (and uploadPart a part, in the pieces its CryptoReader was read in).
StoredByte(o) == Xor(Plain(o), Keystream(o - (o % wrote), o % wrote))

-----------------------------------------------------------------------------
\* (mutant) a negative position stays
Unclamped(pos) == pos

Clamp(pos) == IF pos < 0 THEN 0 ELSE pos

NewPos(offset, whence, old) ==
  Clamp([start |-> 0, current |-> old, end |-> FileSize][whence] + offset)

\* Seek.
Seek ==
  /\ pc = "idle"
  /\ \E offset \in Offsets, whence \in {"start", "current", "end"} :
       /\ innerOff' = NewPos(offset, whence, innerOff)
       /\ innerOff' <= FileSize + BlockSize   \* bound: far enough behind the end
       /\ position' = innerOff'
  /\ buffer' = << >>
  /\ UNCHANGED <<wrote, pc, reader>>

\* Read takes offLock and asks for the bytes at innerOff.
BeginRead ==
  /\ pc = "idle" /\ pc' = "read"
  /\ \E n \in ReadSizes :
       want' = IF innerOff < FileSize THEN Smaller(n, FileSize - innerOff) ELSE 0
  /\ inner' = Base + innerOff /\ crOffset' = Base + innerOff
  /\ buffer' = << >>
  /\ UNCHANGED <<wrote, innerOff, position>>

\* (mutant) the offset stays where the reader was opened
StartOffset(n) == crOffset

NextOffset(n) == crOffset + n

\* The next n bytes from the network, decrypted.
Decrypted(n) ==
  CryptBytes([i \in 1..n |-> StoredByte(inner + i - 1)], crOffset)

\* _CryptoReader.Read: some bytes are read, decrypted, and the offset goes on.
ReadPiece ==
  /\ pc = "read" /\ want > 0
  /\ \E size \in ReadSizes :
       LET n == Smaller(size, want)
       IN  /\ buffer' = buffer \o Decrypted(n)
           /\ inner' = inner + n /\ want' = want - n
           /\ crOffset' = NextOffset(n)
  /\ UNCHANGED <<wrote, innerOff, pc, position>>

\* Read returns: it has all it can get, or an error has come after some bytes.
EndRead ==
  /\ pc = "read" /\ pc' = "idle"
  /\ innerOff' = innerOff + Len(buffer)
  /\ position' = position + Len(buffer)
  /\ want' = 0 /\ inner' = 0 /\ crOffset' = 0
  /\ UNCHANGED <<wrote, buffer>>

-----------------------------------------------------------------------------
Init ==
  /\ wrote \in ReadSizes
  /\ innerOff = 0 /\ position = 0
  /\ pc = "idle" /\ want = 0 /\ inner = 0 /\ crOffset = 0 /\ buffer = << >>

Next == Seek \/ BeginRead \/ ReadPiece \/ EndRead

Spec == Init /\ [][Next]_vars

-----------------------------------------------------------------------------
TypeOK ==
  /\ wrote \in ReadSizes
  /\ innerOff \in Nat /\ position \in Nat
  /\ pc \in {"idle", "read"}
  /\ want \in Nat /\ inner \in Nat /\ crOffset \in Nat
  /\ buffer \in Seq(Byte)

\* "Read reads up to len(b) bytes from the File": whatever was read and sought
\* before, in pieces of any size, and wherever the file begins in its bundle,
\* the bytes a Read has got so far are the plain bytes of the file that follow
\* the position it began at, each once, and none from behind the file's end.
DeliversPlain ==
  LET from == IF pc = "read" THEN position ELSE position - Len(buffer)
  IN  /\ buffer = [i \in 1..Len(buffer) |-> Plain(Base + from + i - 1)]
      /\ Len(buffer) > 0 => from + Len(buffer) <= FileSize

=============================================================================

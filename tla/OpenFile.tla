------------------------------ MODULE OpenFile ------------------------------
(***************************************************************************)
(* core.Open: what a reader of a virtual file gets, given the VirtFile, a  *)
(* db and the file list of the service.  The operators are those of        *)
(* open.go; `Open' is the set of the possible outcomes, because ByAttr may *)
(* return any of several matching files.                                   *)
(*                                                                         *)
(* The VirtFile and the db are separate arguments in the code, and need    *)
(* not belong to each other (module WebdavFs).                             *)
(***************************************************************************)
EXTENDS StorageService

\* The outcomes: the plain text of chunks, an error, and bytes that are not the
\* plain text of any chunk (a wrong offset or a wrong key).
Text(chunks) == [outcome |-> "text", text |-> chunks]
Failed == [outcome |-> "error"]
Garbled == [outcome |-> "garbage"]

Offset(piece, i) == SizeOf(SubSeq(piece, 1, i - 1))

\* The n bytes at offset `off' of stored bytes, if they are whole chunks.
Slice(piece, off, n) ==
  LET Whole == {s \in (1..Len(piece)) \X (1..Len(piece)) :
                  /\ s[1] <= s[2]
                  /\ Offset(piece, s[1]) = off
                  /\ Offset(piece, s[2] + 1) = off + n}
  IN  IF Whole = {} THEN Garbled
      ELSE LET s == CHOOSE s \in Whole : TRUE
           IN  Stored(SubSeq(piece, s[1], s[2]))

\* (mutant) the offsets are those in the plain text
PlainElementSize(vDb, p) == PlainSize[PlainOf(vDb.VFiles[p].Parts[1])[1]]

ElementSize(vDb, p) == vDb.VFiles[p].Parts[1].StorageSize

\* posInBundle: the files before the target give the offset.  They are looked
\* up in vDb; a missing file or one with several parts is an error.
PosInBundle(bundle, vDb, target) ==
  LET At == {i \in DOMAIN bundle.Content : bundle.Content[i] = target}
      upTo == SubSeq(bundle.Content, 1, Min(At))
  IN  IF /\ At # {}
         /\ \A p \in ToSet(upTo) : /\ p \in DOMAIN vDb.VFiles
                                   /\ Len(vDb.VFiles[p].Parts) = 1
        THEN [ok |-> TRUE,
              off |-> FoldLeft(LAMBDA n, p : n + ElementSize(vDb, p), 0, Front(upTo))]
        ELSE [ok |-> FALSE, off |-> 0]

\* bundleOrPart: the single part has to be online even when the data is read
\* from a bundle; whatever is wrong with the bundle, the part is the default.
BundleOrPart(path, virtFile, vDb, files) ==
  LET part == virtFile.Parts[1]
      linked == virtFile.AlsoInBundle \in DOMAIN vDb.Bundles
      inBundle == vDb.Bundles[virtFile.AlsoInBundle]
      pos == PosInBundle(inBundle, vDb, path)
      Source(from, key, off) ==
        {[sf |-> f, off |-> off, n |-> part.StorageSize, key |-> key] :
           f \in ByAttr(files, from)}
  IN  IF ByAttr(files, part) = {} THEN {}
      ELSE IF linked /\ ByAttr(files, inBundle) # {} /\ pos.ok
        THEN Source(inBundle, inBundle.StorageName, pos.off)
        ELSE Source(part, part.StorageName, 0)

\* (mutant) the reader of a file in a bundle is not limited
FetchToEnd(src) ==
  LET bytes == src.sf.body.bytes
  IN  IF src.key = src.sf.name THEN Slice(bytes, src.off, SizeOf(bytes) - src.off)
                               ELSE Garbled

\* Decryption needs the key of the name the bytes were saved under.
Fetch(src) ==
  IF src.key = src.sf.name THEN Slice(src.sf.body.bytes, src.off, src.n)
                           ELSE Garbled

\* Decompression fails on anything but one compressed chunk, and compressed
\* bytes are no plain text.
Decode(got, compr) ==
  IF got = Garbled THEN IF compr THEN Failed ELSE Garbled
  ELSE IF compr
    THEN IF Len(got.bytes) = 1 /\ got.bytes[1][2] THEN Text(<<got.bytes[1][1]>>)
                                                  ELSE Failed
    ELSE IF \E x \in ToSet(got.bytes) : x[2]
           THEN Garbled
           ELSE Text([i \in DOMAIN got.bytes |-> got.bytes[i][1]])

Open(path, virtFile, vDb, files) ==
  CASE Len(virtFile.Parts) = 0 -> {Text(<< >>)}
    [] Len(virtFile.Parts) = 1 ->
         LET sources == BundleOrPart(path, virtFile, vDb, files)
         IN  IF sources = {} THEN {Failed}
             ELSE {Decode(Fetch(s), virtFile.UseCompression) : s \in sources}
    [] OTHER ->
         LET found(i) == ByAttr(files, virtFile.Parts[i])
             text(i) == Decode((CHOOSE f \in found(i) : TRUE).body, FALSE)
         IN  IF \E i \in DOMAIN virtFile.Parts : found(i) = {} THEN {Failed}
             ELSE {Text(FlattenSeq([i \in DOMAIN virtFile.Parts |-> text(i).text]))}

\* What a reader should get: the content the file had when it was scanned.
ScannedContent(virtFile) ==
  Text([i \in DOMAIN virtFile.Parts |-> PlainOf(virtFile.Parts[i])[1]])

=============================================================================

------------------------------- MODULE VirtDb -------------------------------
(***************************************************************************)
(* The data of package db: VirtFile, VFilePart, Bundle and Db, what        *)
(* ScanFile computes from the content of a file, and what MakeBundles      *)
(* promises (module Bundles models how it keeps the promise).              *)
(*                                                                         *)
(* The content of a file is a sequence of chunks, one per part; every      *)
(* chunk but the last one is PartSize bytes long.  SHA512, the names and   *)
(* the keys derived from it are taken to be injective, so the chunk itself *)
(* stands for its hash, its key and its storage name.                      *)
(*                                                                         *)
(* Paths are the numbers of the paths in the order of the RelPath strings. *)
(* Folders and empty files have no parts and are the same thing here.      *)
(***************************************************************************)
EXTENDS Integers, Sequences, FiniteSets, SequencesExt

CONSTANTS
  Path,                       \* the RelPaths, numbered in string order
  Chunk,                      \* the plain contents a part can have
  PlainSize,                  \* [Chunk -> size in bytes]
  ComprSize,                  \* [Chunk -> size of the compressed chunk]
  PartSize,                   \* db.PartSize
  MaxFileSizeForCompression,  \* db.MaxFileSizeForCompression
  MaxFileSizeToBundle         \* db.MaxFileSizeToBundle

ASSUME PathAssumption == Path \subseteq Nat /\ IsFiniteSet(Path)

ASSUME SizeAssumption ==
  /\ PartSize \in Nat \ {0}
  /\ MaxFileSizeForCompression \in Nat
  /\ MaxFileSizeToBundle \in Nat /\ MaxFileSizeToBundle <= PartSize
  /\ PlainSize \in [Chunk -> 1..PartSize]
  /\ ComprSize \in [Chunk -> Nat \ {0}]

\* Stored bytes: the chunks in a storage file, each plain or compressed.
Stored(piece) == [bytes |-> piece]

StoredSize(c, compr) == IF compr THEN ComprSize[c] ELSE PlainSize[c]

\* The length of stored bytes.
SizeOf(piece) ==
  FoldLeft(LAMBDA n, x : n + StoredSize(x[1], x[2]), 0, piece)

\* The hash that stands for `any hash' in ByAttr: a Bundle has no StorageMd5.
AnyMd5 == [any |-> TRUE]

IndexName == [kind |-> "index", plain |-> << >>]
PartName(c) == [kind |-> "part", plain |-> <<c>>]
BundleName(cs) == [kind |-> "bundle", plain |-> cs]

\* VirtFile.AlsoInBundle = "".
NoBundle == BundleName(<< >>)

\* tryCompression: only a file that is small enough is tried, and the ratio
\* has to be below 0.8.
UseCompression(content) ==
  /\ Len(content) = 1
  /\ LET c == content[1]
     IN  /\ PlainSize[c] <= MaxFileSizeForCompression
         /\ PlainSize[c] < PartSize
         /\ 10 * ComprSize[c] < 8 * PlainSize[c]

\* The VFilePart of one chunk.
VFilePart(c, compr) ==
  [StorageName |-> PartName(c),
   StorageSize |-> StoredSize(c, compr),
   StorageMd5  |-> Stored(<< <<c, compr>> >>)]

\* ScanFile for a file that does not change while it is scanned.
ScanFile(content) ==
  LET compr == UseCompression(content)
  IN  [Parts          |-> [i \in 1..Len(content) |-> VFilePart(content[i], compr)],
       UseCompression |-> compr,
       AlsoInBundle   |-> NoBundle]

\* The plain content a VFilePart or a Bundle was made of.
PlainOf(part) == part.StorageName.plain

\* The files findGroups admits to a bundle.
Bundleable(vFiles) ==
  {p \in DOMAIN vFiles :
     /\ Len(vFiles[p].Parts) = 1
     /\ PlainSize[PlainOf(vFiles[p].Parts[1])[1]] < MaxFileSizeToBundle}

\* The bytes of the group's files in a row, as the bundle should hold them.
GroupBytes(vFiles, group) ==
  [i \in 1..Len(group) |-> vFiles[group[i]].Parts[1].StorageMd5.bytes[1]]

GroupId(vFiles, group) ==
  BundleName([i \in 1..Len(group) |-> PlainOf(vFiles[group[i]].Parts[1])[1]])

\* The Bundle that MakeBundles builds for a group of files.
NewBundle(vFiles, group) ==
  [StorageName |-> GroupId(vFiles, group),
   StorageSize |-> SizeOf(GroupBytes(vFiles, group)),
   StorageMd5  |-> AnyMd5,
   Content     |-> group]

\* The db that results from a sequence of groups.  Two groups with the same
\* plain contents have the same bundle id: the last one is in db.Bundles, and
\* the files of both are linked with it.
MakeBundles(vFiles, groups) ==
  [VFiles |->
     [p \in DOMAIN vFiles |->
        IF \E i \in DOMAIN groups : p \in ToSet(groups[i])
          THEN LET i == CHOOSE i \in DOMAIN groups : p \in ToSet(groups[i])
               IN  [vFiles[p] EXCEPT !.AlsoInBundle = GroupId(vFiles, groups[i])]
          ELSE [vFiles[p] EXCEPT !.AlsoInBundle = NoBundle]],
   Bundles |->
     [id \in {GroupId(vFiles, groups[i]) : i \in DOMAIN groups} |->
        NewBundle(vFiles, groups[SelectLastInSeq(groups,
                            LAMBDA g : GroupId(vFiles, g) = id)])]]

\* What MakeBundles promises: the groups are disjoint lists of two or more
\* bundleable files in path order.  No group at all is a db without bundles.
Ascending(S) ==
  [i \in 1..Cardinality(S) |-> CHOOSE p \in S : Cardinality({q \in S : q <= p}) = i]

Groupings(vFiles) ==
  LET B == Bundleable(vFiles)
      Members(l, i) == {p \in B : l[p] = i}   \* 0 labels the files without group
  IN  UNION {{[i \in 1..k |-> Ascending(Members(l, i))] :
                l \in {m \in [B -> 0..k] :
                         \A i \in 1..k : Cardinality(Members(m, i)) > 1}} :
             k \in 0..(Cardinality(B) \div 2)}

\* The folder as a db describes it.
FolderOf(db) ==
  [p \in DOMAIN db.VFiles |->
     [i \in DOMAIN db.VFiles[p].Parts |-> PlainOf(db.VFiles[p].Parts[i])[1]]]

\* A db that ScanFile and MakeBundles may have made of a folder.
IsSnapshot(db) ==
  LET folder == FolderOf(db)
      vFiles == [p \in DOMAIN folder |-> ScanFile(folder[p])]
  IN  /\ DOMAIN folder \subseteq Path
      /\ \A p \in DOMAIN folder : folder[p] \in Seq(Chunk)
      /\ \E groups \in Groupings(vFiles) : db = MakeBundles(vFiles, groups)

\* allDbParts: what the storage has to hold for a db.
AsPart(p) == [StorageName |-> p.StorageName, StorageSize |-> p.StorageSize,
              StorageMd5 |-> p.StorageMd5]

AllDbParts(vDB) ==
  (UNION {ToSet(vDB.VFiles[p].Parts) : p \in DOMAIN vDB.VFiles})
    \cup {AsPart(vDB.Bundles[id]) : id \in DOMAIN vDB.Bundles}

=============================================================================

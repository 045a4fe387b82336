--------------------------- MODULE PublisherProofs ---------------------------
(***************************************************************************)
(* What the commands of the publisher keep true of the storage, for all    *)
(* folders, contents and bounds: the index stays complete while Clean      *)
(* works, a command that returns without doing anything has nothing to do, *)
(* and Upload, Clean and deaths together implement Mirror.                 *)
(***************************************************************************)
EXTENDS Publisher, UploadProofs, SequenceTheorems

\* The storage between any two steps.
StorageOK ==
  /\ IdsOK /\ IndexesOK
  /\ IsFiniteSet(store)
  /\ \A f, g \in Named(store, IndexName) : f = g

\* A call of Upload runs in the command `upload' only.
CallOK ==
  Running => /\ IInv
             /\ Named(store, IndexName) \subseteq oldDbs
             /\ command = "upload"

\* No mtime is that of the next edit.
Past(stat) == \A p \in DOMAIN stat : stat[p] \in 0..edits

TimesOK ==
  /\ edits \in Nat
  /\ DOMAIN mtime = Path \cup {Root} /\ Past(mtime)
  /\ Past(OldDb) /\ Past(scanned)

\* The index of this command is online.
Latest == \E f \in Named(store, IndexName) : f.body.db = vDB

\* Where a command is, and what it has done so far.
CommandOK ==
  /\ command # "none" => (scanned = FolderStat => disk = FolderOf(vDB))
  /\ command = "upload" => /\ ~scanOnly
                           /\ Changed \/ behind
                           /\ pc = "done" => Latest
  /\ command = "clean" => ~scanOnly
  /\ command \in {"clean", "create", "write"} /\ ~scanOnly => Latest

\* Parts can be told from bundles by their md5.
PartsHaveMd5(db) ==
  \A part \in AllDbParts(db) :
    part.StorageName.kind = "part" => part.StorageMd5 # AnyMd5

ToRemove == removals[1] \cup removals[2] \cup removals[3]

\* Clean is about to remove neither an index nor the last copy of anything the
\* db refers to.
CleanOK ==
  command = "clean" =>
    /\ removals \in [1..3 -> SUBSET listing]
    /\ \A f \in ToRemove : f.name # IndexName
    /\ \A part \in AllDbParts(vDB) :
         ByAttr(store, part) # {} => ByAttr(store, part) \ ToRemove # {}

PInv ==
  /\ FolderOK /\ StorageOK /\ CallOK /\ TimesOK /\ CommandOK
  /\ PartsHaveMd5(vDB) /\ CleanOK
  /\ UnchangedIsPublished

-----------------------------------------------------------------------------
(***************************************************************************)
(* The scan, and the stamps of edits.                                      *)
(***************************************************************************)
LEMMA PartHasMd5 == \A part \in Part : part.StorageMd5 # AnyMd5
<1>1. SUFFICES ASSUME NEW c \in Chunk, NEW compr \in BOOLEAN
               PROVE  VFilePart(c, compr).StorageMd5 # AnyMd5
  BY DEF Part
<1>2. Stored(<< <<c, compr>> >>) # AnyMd5
  <2>1. "bytes" \in DOMAIN Stored(<< <<c, compr>> >>)
    BY DEF Stored
  <2>2. "bytes" \notin DOMAIN AnyMd5
    BY DEF AnyMd5
  <2>3. QED
    BY <2>1, <2>2, Zenon
<1>3. QED
  BY <1>2 DEF VFilePart

\* The db of a command is a snapshot of the folder.
LEMMA ScanIsSnapshot ==
  ASSUME FolderOK, NEW groups, NEW db,
         db = MakeBundles([p \in DOMAIN disk |-> ScanFile(disk[p])], groups)
  PROVE  FolderOf(db) = disk /\ PartsHaveMd5(db)
<1>1. /\ DOMAIN db.VFiles = DOMAIN disk
      /\ \A p \in DOMAIN disk : db.VFiles[p].Parts = ScanFile(disk[p]).Parts
  BY MakeBundlesFacts
<1>2. ASSUME NEW p \in DOMAIN disk
      PROVE  /\ db.VFiles[p].Parts \in Seq(Part)
             /\ Len(db.VFiles[p].Parts) = Len(disk[p])
             /\ \A i \in 1..Len(disk[p]) :
                  PlainOf(db.VFiles[p].Parts[i])[1] = disk[p][i]
             /\ disk[p] \in Seq(Chunk)
  <2>1. disk[p] \in Seq(Chunk)
    BY UploadAssumption DEF FolderOK
  <2>2. ASSUME NEW c, NEW compr PROVE PlainOf(VFilePart(c, compr))[1] = c
    BY DEF PlainOf, VFilePart, PartName
  <2>3. QED
    BY <1>1, <2>1, <2>2, ScanFacts
<1>3. ASSUME NEW p \in DOMAIN disk
      PROVE  [i \in DOMAIN db.VFiles[p].Parts |-> PlainOf(db.VFiles[p].Parts[i])[1]]
               = disk[p]
  <2>1. DOMAIN db.VFiles[p].Parts = 1..Len(disk[p])
    BY <1>2
  <2>2. disk[p] = [i \in 1..Len(disk[p]) |-> disk[p][i]]
    <3>1. disk[p] \in [1..Len(disk[p]) -> Chunk]
      BY <1>2, LenProperties
    <3>2. QED
      BY <3>1, Zenon
  <2>3. [i \in 1..Len(disk[p]) |-> PlainOf(db.VFiles[p].Parts[i])[1]]
          = [i \in 1..Len(disk[p]) |-> disk[p][i]]
    BY <1>2, Zenon
  <2>4. QED
    BY <2>1, <2>2, <2>3, Zenon
<1>4. FolderOf(db) = disk
  <2>1. disk = [p \in DOMAIN disk |-> disk[p]]
    BY Zenon DEF FolderOK
  <2>2. FolderOf(db) = [p \in DOMAIN disk |-> disk[p]]
    BY <1>1, <1>3, Zenon DEF FolderOf
  <2>3. QED
    BY <2>1, <2>2, Zenon
<1>5. ASSUME NEW part \in AllDbParts(db), part.StorageName.kind = "part"
      PROVE  part.StorageMd5 # AnyMd5
  <2>1. CASE \E p \in DOMAIN db.VFiles : part \in ToSet(db.VFiles[p].Parts)
    <3>1. PICK p \in DOMAIN disk : part \in ToSet(db.VFiles[p].Parts)
      BY <1>1, <2>1
    <3>2. part \in Part
      BY <1>2, <3>1 DEF ToSet
    <3>3. QED
      BY <3>2, PartHasMd5, Zenon
  <2>2. CASE \E id \in DOMAIN db.Bundles : part = AsPart(db.Bundles[id])
    <3>1. PICK id \in DOMAIN db.Bundles : part = AsPart(db.Bundles[id])
      BY <2>2
    <3> DEFINE vf == [p \in DOMAIN disk |-> ScanFile(disk[p])]
    <3>2. \E g : db.Bundles[id] = NewBundle(vf, g)
      BY <3>1 DEF MakeBundles
    <3>3. db.Bundles[id].StorageName.kind = "bundle"
      BY <3>2 DEF NewBundle, GroupId, BundleName
    <3>4. QED
      BY <1>5, <3>1, <3>3 DEF AsPart
  <2>3. QED
    BY <2>1, <2>2 DEF AllDbParts
<1>6. QED
  BY <1>4, <1>5 DEF PartsHaveMd5

\* An edit leaves a stamp that no stat from before has.
LEMMA EditIsSeen ==
  ASSUME FolderOK, TimesOK, EditFolder, NEW stat, Past(stat)
  PROVE  stat # FolderStat'
<1>1. edits' = edits + 1 /\ edits \in Nat
  BY DEF TimesOK, EditFolder, Edit
<1>2. Root \notin Path /\ DOMAIN mtime = Path \cup {Root} /\ DOMAIN disk \subseteq Path
  BY PublisherAssumption DEF TimesOK, FolderOK
<1>3. mtime' = [p \in DOMAIN mtime |->
        IF \/ p = Root /\ DOMAIN disk' # DOMAIN disk
           \/ p \in DOMAIN disk' /\ ~(p \in DOMAIN disk /\ disk[p] = disk'[p])
          THEN edits' ELSE mtime[p]]
  BY DEF EditFolder
<1>4. \E q \in DOMAIN FolderStat' : FolderStat'[q] = edits'
  <2>1. PICK p \in Path :
          \/ /\ p \in DOMAIN disk'
             /\ p \in DOMAIN disk => disk[p] # disk'[p]
          \/ DOMAIN disk' # DOMAIN disk
    BY DEF EditFolder, Edit
  <2>2. CASE p \in DOMAIN disk' /\ (p \in DOMAIN disk => disk[p] # disk'[p])
    BY <1>2, <1>3, <2>2, Zenon DEF FolderStat
  <2>3. CASE DOMAIN disk' # DOMAIN disk
    BY <1>2, <1>3, <2>3, Zenon DEF FolderStat
  <2>4. QED
    BY <2>1, <2>2, <2>3
<1>5. PICK q \in DOMAIN FolderStat' : FolderStat'[q] = edits'
  BY <1>4
<1>6. SUFFICES ASSUME stat = FolderStat' PROVE FALSE
  OBVIOUS
<1>7. stat[q] \in 0..edits /\ stat[q] = edits'
  BY <1>5, <1>6, Zenon DEF Past
<1>8. QED
  BY <1>1, <1>7

\* A saved db is that of some folder, and no other one looks like it.
LEMMA FolderStatIsNotEmpty == FolderStat # << >>
<1>1. Root \in DOMAIN FolderStat
  BY DEF FolderStat
<1>2. QED
  BY <1>1

-----------------------------------------------------------------------------
(***************************************************************************)
(* The invariant, action by action.                                        *)
(***************************************************************************)
LEMMA PInit == PublisherInit => PInv
<1> SUFFICES ASSUME PublisherInit PROVE PInv
  OBVIOUS
<1>1. FolderOK /\ IdsOK /\ IndexesOK
  BY IInvInit, BetweenCalls DEF PublisherInit
<1>2. StorageOK
  BY <1>1, FS_EmptySet DEF PublisherInit, Init, StorageOK, Named
<1>3. CallOK /\ CleanOK
  BY DEF PublisherInit, Init, CallOK, CleanOK, Running
<1>4. OldDb = << >> /\ scanned = << >> /\ Past(<< >>)
  BY DEF PublisherInit, OldDb, NoFile, Past
<1>5. TimesOK
  BY <1>4 DEF PublisherInit, Init, TimesOK, Past
<1>6. CommandOK
  BY DEF PublisherInit, CommandOK
<1>7. PartsHaveMd5(vDB)
  <2>1. DOMAIN vDB.VFiles = {} /\ DOMAIN vDB.Bundles = {}
    BY DEF PublisherInit, Init
  <2>2. QED
    BY <2>1 DEF PartsHaveMd5, AllDbParts
<1>8. UnchangedIsPublished
  BY <1>4, FolderStatIsNotEmpty, Zenon DEF UnchangedIsPublished, Changed
<1>9. QED
  BY <1>1, <1>2, <1>3, <1>5, <1>6, <1>7, <1>8 DEF PInv

\* The storage and the call of Upload, when a step leaves both alone.
LEMMA NotUpload ==
  ASSUME FolderOK, StorageOK, CallOK, UNCHANGED vars, Running => command' = "upload"
  PROVE  FolderOK' /\ StorageOK' /\ CallOK'
<1>1. UNCHANGED <<store, lastId, disk, excuse, oldDbs, pc>>
  BY DEF vars, storageVars, env
<1>2. FolderOK'
  BY <1>1 DEF FolderOK
<1>3. StorageOK'
  BY <1>1 DEF StorageOK, IdsOK, IndexesOK, IndexComplete, Named, Present, ByAttr
<1>4. Running' => Running
  BY <1>1 DEF Running
<1>5. ASSUME Running PROVE IInv' /\ Named(store, IndexName)' \subseteq oldDbs'
  <2>1. IInv'
    BY <1>5, IInvStep DEF CallOK
  <2>2. QED
    BY <1>1, <1>5, <2>1 DEF CallOK, Named
<1>6. QED
  BY <1>2, <1>3, <1>4, <1>5 DEF CallOK

\* The owner at work: the folder no longer looks like any stat there is.
LEMMA EditFolderStep == ASSUME PInv, EditFolder PROVE PInv'
<1>1. /\ Edit /\ edits' = edits + 1
      /\ UNCHANGED <<mainVars, cleanVars, bounds>>
      /\ UNCHANGED <<storageVars, excuse, call, pc, oldDbs>>
  BY DEF EditFolder, Edit
<1>2. /\ UNCHANGED <<store, lastId, excuse, vDB, listing, pc, oldDbs>>
      /\ UNCHANGED <<localDb, command, scanOnly, scanned, behind, removals>>
  BY <1>1 DEF storageVars, call, mainVars, cleanVars
<1>3. FolderOK'
  BY <1>1 DEF Edit, PInv, FolderOK
<1>4. StorageOK'
  BY <1>2 DEF PInv, StorageOK, IdsOK, IndexesOK, IndexComplete, Named, Present, ByAttr
<1>5. CallOK'
  <2>1. Running' => Running
    BY <1>2 DEF Running
  <2>2. ASSUME Running PROVE IInv'
    BY <1>1, <2>2, IInvStep DEF PInv, CallOK, Next
  <2>3. QED
    BY <1>2, <2>1, <2>2 DEF PInv, CallOK, Named
<1>6. TimesOK'
  <2>1. edits \in Nat /\ edits' \in Nat /\ 0..edits \subseteq 0..edits'
        /\ edits' \in 0..edits'
    BY <1>1 DEF PInv, TimesOK
  <2>2. DOMAIN mtime' = DOMAIN mtime
        /\ \A p \in DOMAIN mtime : mtime'[p] \in {edits', mtime[p]}
    BY DEF EditFolder
  <2>3. Past(mtime)'
    BY <2>1, <2>2, Zenon DEF PInv, TimesOK, Past
  <2>4. Past(OldDb)' /\ Past(scanned)'
    BY <1>2, <2>1, Zenon DEF PInv, TimesOK, Past, OldDb
  <2>5. QED
    BY <2>1, <2>2, <2>3, <2>4, Zenon DEF PInv, TimesOK
<1>7. OldDb' # FolderStat' /\ scanned' # FolderStat'
  BY <1>2, EditIsSeen, Zenon DEF PInv, TimesOK, OldDb
<1>8. CommandOK'
  BY <1>2, <1>7, Zenon DEF PInv, CommandOK, Changed, Latest, Named
<1>9. PartsHaveMd5(vDB)' /\ CleanOK'
  BY <1>2, Zenon DEF PInv, PartsHaveMd5, CleanOK, ToRemove, ByAttr
<1>10. UnchangedIsPublished'
  BY <1>7, Zenon DEF UnchangedIsPublished, Changed
<1>11. QED
  BY <1>3, <1>4, <1>5, <1>6, <1>8, <1>9, <1>10 DEF PInv

\* A command begins with a snapshot of the folder.
LEMMA BeginStep ==
  ASSUME PInv, NEW force, Begin(force),
         \E groups : vDB' = MakeBundles([p \in DOMAIN disk |-> ScanFile(disk[p])],
                                        groups),
         disk' = disk, edits' = edits
  PROVE  /\ ~Running /\ TimesOK' /\ PartsHaveMd5(vDB)'
         /\ scanned' = FolderStat' => disk' = FolderOf(vDB)'
         /\ Changed' = Changed
<1>1. /\ scanned' = FolderStat /\ command = "none"
      /\ UNCHANGED <<mtime, localDb>>
  BY DEF Begin
<1>2. FolderOf(vDB') = disk /\ PartsHaveMd5(vDB')
  BY ScanIsSnapshot DEF PInv
<1>3. TimesOK'
  <2>1. OldDb' = OldDb
    BY <1>1 DEF OldDb
  <2>2. Past(FolderStat)
    BY DEF PInv, TimesOK, Past, FolderStat, FolderOK
  <2>3. QED
    BY <1>1, <2>1, <2>2, Zenon DEF PInv, TimesOK, Past
<1>4. ~Running
  BY <1>1 DEF PInv, CallOK
<1>5. FolderOf(vDB)' = FolderOf(vDB') /\ PartsHaveMd5(vDB)' = PartsHaveMd5(vDB')
  BY DEF FolderOf, PartsHaveMd5
<1>6. Changed' = Changed
  BY <1>1, Zenon DEF Changed, OldDb, FolderStat
<1>7. QED
  BY <1>2, <1>3, <1>4, <1>5, <1>6, Zenon

LEMMA StartScanStep == ASSUME PInv, NEW force, StartScan(force) PROVE PInv'
<1>1. /\ command' = "create" /\ scanOnly' = TRUE
      /\ UNCHANGED <<storageVars, env, listing, pc, oldDbs, behind>>
      /\ Begin(force)
  BY DEF StartScan
<1>2. UNCHANGED <<store, lastId, disk, excuse, edits, pc, behind, oldDbs>>
  BY <1>1 DEF storageVars, env
<1>3. \E groups : vDB' = MakeBundles([p \in DOMAIN disk |-> ScanFile(disk[p])],
                                     groups)
  BY DEF StartScan
<1>4. /\ ~Running /\ TimesOK' /\ PartsHaveMd5(vDB)'
      /\ scanned' = FolderStat' => disk' = FolderOf(vDB)'
      /\ Changed' = Changed
  BY <1>1, <1>2, <1>3, BeginStep
<1>5. FolderOK'
  BY <1>2 DEF PInv, FolderOK
<1>6. StorageOK'
  BY <1>2 DEF PInv, StorageOK, IdsOK, IndexesOK, IndexComplete, Named, Present, ByAttr
<1>7. CallOK'
  BY <1>2, <1>4 DEF CallOK, Running
<1>8. CommandOK'
  BY <1>1, <1>4 DEF CommandOK
<1>9. CleanOK'
  BY <1>1 DEF CleanOK
<1>10. UnchangedIsPublished'
  BY <1>2, <1>4, Zenon DEF PInv, UnchangedIsPublished, Published, Named
<1>11. QED
  BY <1>4, <1>5, <1>6, <1>7, <1>8, <1>9, <1>10 DEF PInv

LEMMA StartUploadStep == ASSUME PInv, NEW force, StartUpload(force) PROVE PInv'
<1>1. /\ Call /\ command' = "upload" /\ scanOnly' = FALSE
      /\ behind' = (behind \/ ~Changed) /\ Begin(force)
  BY DEF StartUpload
<1>2. /\ UNCHANGED <<store, lastId, disk, excuse, edits>>
      /\ pc' = "file" /\ oldDbs' = Named(store, IndexName)
  BY <1>1 DEF Call, storageVars
<1>3. \E groups : vDB' = MakeBundles([p \in DOMAIN disk |-> ScanFile(disk[p])],
                                     groups)
  BY <1>1 DEF Call
<1>4. /\ ~Running /\ TimesOK' /\ PartsHaveMd5(vDB)'
      /\ scanned' = FolderStat' => disk' = FolderOf(vDB)'
      /\ Changed' = Changed
  BY <1>1, <1>2, <1>3, BeginStep
<1>5. FolderOK'
  BY <1>2 DEF PInv, FolderOK
<1>6. StorageOK'
  BY <1>2 DEF PInv, StorageOK, IdsOK, IndexesOK, IndexComplete, Named, Present, ByAttr
<1>7. CallOK'
  <2>1. IInv'
    BY <1>1, CallStep DEF PInv, StorageOK
  <2>2. QED
    BY <1>1, <1>2, <2>1 DEF CallOK, Named
<1>8. CommandOK'
  BY <1>1, <1>2, <1>4 DEF CommandOK
<1>9. CleanOK'
  BY <1>1 DEF CleanOK
<1>10. UnchangedIsPublished'
  BY <1>1, <1>2, <1>4, Zenon DEF PInv, UnchangedIsPublished, Published, Named
<1>11. QED
  BY <1>4, <1>5, <1>6, <1>7, <1>8, <1>9, <1>10 DEF PInv

\* What a step of Upload does to the storage and to the place the call is at.
LEMMA UploadStepEffects ==
  ASSUME UploadStep, IsFiniteSet(store)
  PROVE  /\ Running /\ UNCHANGED <<disk, edits, vDB, listing>>
         /\ IsFiniteSet(store')
         /\ pc' = "done" => \E f \in Named(store, IndexName)' : f.body.db = vDB
<1> USE DEF env, call, storageVars
<1>1. CASE SaveDb
  <2> DEFINE new == [id |-> lastId + 1, name |-> IndexName, size |-> 1,
                     body |-> IndexBody(vDB)]
  <2>1. store' = store \cup {new}
    BY <1>1 DEF SaveDb, Save
  <2>2. new \in Named(store, IndexName)' /\ new.body.db = vDB
    BY <2>1 DEF Named, IndexBody
  <2>3. IsFiniteSet(store')
    BY <2>1, FS_AddElement
  <2>4. QED
    BY <1>1, <2>2, <2>3 DEF SaveDb, Running
<1>2. CASE TrashDb
  <2>1. \E f : store' = store \ {f}
    BY <1>2 DEF TrashDb, Trash
  <2>2. IsFiniteSet(store')
    BY <2>1, FS_RemoveElement
  <2>3. QED
    BY <1>2, <2>2 DEF TrashDb, Running
<1>3. CASE UploadPart
  <2>1. store' = store \/ \E new : store' = store \cup {new}
    BY <1>3 DEF UploadPart, Save
  <2>2. IsFiniteSet(store')
    BY <2>1, FS_AddElement
  <2>3. QED
    BY <1>3, <2>2 DEF UploadPart, NextPart, Running
<1>4. CASE SaveBundle
  <2>1. store' = store \/ \E new : store' = store \cup {new}
    BY <1>4 DEF SaveBundle, Save
  <2>2. IsFiniteSet(store')
    BY <2>1, FS_AddElement
  <2>3. QED
    BY <1>4, <2>2 DEF SaveBundle, Running
<1>5. CASE SkipFile \/ OpenFile \/ SkipPart \/ FilesDone \/ SkipBundle
             \/ BeginBundle \/ AddToBundle \/ BundlesDone
  BY <1>5 DEF SkipFile, OpenFile, SkipPart, NextPart, FilesDone, SkipBundle,
     BeginBundle, AddToBundle, BundlesDone, Running
<1>6. QED
  BY <1>1, <1>2, <1>3, <1>4, <1>5 DEF UploadStep

LEMMA BetweenCallsNext == IInv' => FolderOK' /\ IdsOK' /\ IndexesOK'
  BY BetweenCalls, PTL

\* A step of the call; while it is under way, Upload has something to do.
LEMMA RunUploadStep == ASSUME PInv, RunUpload PROVE PInv'
<1>1. /\ command = "upload" /\ UploadStep
      /\ UNCHANGED <<mtime, localDb, command, scanOnly, scanned, behind>>
  BY DEF RunUpload, mainVars
<1>2. /\ Running /\ UNCHANGED <<disk, edits, vDB>>
      /\ IsFiniteSet(store')
      /\ pc' = "done" => Latest'
  BY <1>1, UploadStepEffects DEF PInv, StorageOK, Latest
<1>3. IInv /\ OneIndex
  BY <1>2 DEF PInv, CallOK, StorageOK, OneIndex
<1>4. IInv' /\ OneIndex'
  BY <1>1, <1>3, IInvStep, OneIndexStep DEF Next
<1>5. FolderOK' /\ StorageOK' /\ CallOK'
  BY <1>1, <1>2, <1>4, BetweenCallsNext DEF StorageOK, CallOK, OneIndex
<1>6. TimesOK'
  BY <1>1, <1>2, Zenon DEF PInv, TimesOK, Past, OldDb
<1>7. Changed' = Changed /\ FolderStat' = FolderStat
  BY <1>1, <1>2, Zenon DEF Changed, OldDb, FolderStat
<1>8. CommandOK'
  <2>1. FolderOf(vDB)' = FolderOf(vDB)
    BY <1>2 DEF FolderOf
  <2>2. QED
    BY <1>1, <1>2, <1>7, <2>1 DEF PInv, CommandOK
<1>9. PartsHaveMd5(vDB)'
  BY <1>2, Zenon DEF PInv, PartsHaveMd5
<1>10. CleanOK'
  BY <1>1 DEF CleanOK
<1>11. UnchangedIsPublished'
  BY <1>1, <1>7 DEF PInv, CommandOK, UnchangedIsPublished
<1>12. QED
  BY <1>5, <1>6, <1>8, <1>9, <1>10, <1>11 DEF PInv

\* Cleaner's copies of what both modules use.
LEMMA SameInCleaner ==
  /\ \A S : Cleaner!Cardinality(S) = Cardinality(S)
  /\ \A db : Cleaner!AllDbParts(db) = AllDbParts(db)
<1>1. ASSUME NEW S PROVE Cleaner!Cardinality(S) = Cardinality(S)
  BY Zenon DEF Cleaner!Cardinality, Cardinality
<1>2. ASSUME NEW db PROVE Cleaner!AllDbParts(db) = AllDbParts(db)
  BY Zenon DEF Cleaner!AllDbParts, AllDbParts, Cleaner!ToSet, ToSet,
     Cleaner!AsPart, AsPart
<1>3. QED
  BY <1>1, <1>2, Zenon

\* The removals of Clean: of the twins of a file the db refers to, one is neither
\* unknown nor a duplicate; an index is no twin of another file.
LEMMA CallCleanSpares ==
  ASSUME StorageOK, PartsHaveMd5(vDB), Cleaner!CallClean(vDB)
  PROVE  CleanOK'
<1> DEFINE U == Cleaner!UnknownParts(vDB, store)
           B == IF Cleaner!BundleMode(vDB) THEN Cleaner!UnknownBundles(vDB, store)
                                           ELSE {}
<1>1. PICK D \in Cleaner!Duplicates(store) : removals' = <<U, D, B>>
  BY Zenon DEF Cleaner!CallClean
<1>2. vDB' = vDB /\ listing' = store /\ store' = store
  BY Zenon DEF Cleaner!CallClean, Cleaner!storageVars
<1>3. U \subseteq store /\ B \subseteq store /\ D \subseteq store
  BY Zenon DEF Cleaner!UnknownParts, Cleaner!UnknownBundles, Cleaner!OfKind,
     Cleaner!Duplicates
<1>4. ASSUME NEW f \in store
      PROVE  \E g : Cleaner!Twins(f, store) \ D = {g}
  <2>1. Cardinality(Cleaner!Twins(f, store) \ D) = 1
    BY Zenon, SameInCleaner DEF Cleaner!Duplicates
  <2>2. Cleaner!Twins(f, store) \ D \subseteq store
    BY Zenon DEF Cleaner!Twins
  <2>3. IsFiniteSet(Cleaner!Twins(f, store) \ D)
    BY Zenon, <2>2, FS_Subset DEF StorageOK
  <2>4. QED
    BY Zenon, <2>1, <2>3, FS_Singleton
<1>5. ASSUME NEW f \in U \cup D \cup B PROVE f.name # IndexName
  <2>1. SUFFICES ASSUME f.name = IndexName PROVE FALSE
    OBVIOUS
  <2>2. f \in store /\ f \in Named(store, IndexName)
    BY Zenon, <1>3, <2>1 DEF Named
  <2>3. f.name.kind = "index"
    BY <2>1 DEF IndexName
  <2>4. f.name.kind # "part" /\ f.name.kind # "bundle"
    BY <2>3
  <2>5. f \notin U /\ f \notin B
    BY Zenon, <2>4 DEF Cleaner!UnknownParts, Cleaner!UnknownBundles, Cleaner!OfKind
  <2>6. PICK g : Cleaner!Twins(f, store) \ D = {g}
    BY Zenon, <1>4, <2>2
  <2>7. g \in Named(store, IndexName) /\ g \notin D
    BY Zenon, <2>1, <2>6 DEF Cleaner!Twins, Named
  <2>8. g = f
    BY Zenon, <2>2, <2>7 DEF StorageOK
  <2>9. QED
    BY Zenon, <2>5, <2>7, <2>8
<1>6. ASSUME NEW part \in AllDbParts(vDB), NEW f \in ByAttr(store, part)
      PROVE  \E g \in ByAttr(store, part) : g \notin U \cup D \cup B
  <2>1. f \in store
    BY Zenon DEF ByAttr
  <2>2. PICK g : Cleaner!Twins(f, store) \ D = {g}
    BY Zenon, <1>4, <2>1
  <2>3. g \in store /\ g \notin D /\ g.name = f.name /\ g.size = f.size /\ g.body = f.body
    BY Zenon, <2>2 DEF Cleaner!Twins
  <2>4. /\ g.name = part.StorageName /\ g.size = part.StorageSize
        /\ part.StorageMd5 \in {AnyMd5, g.body}
    BY Zenon, <2>3 DEF ByAttr
  <2>5. g \notin U
    <3>1. SUFFICES ASSUME g \in U PROVE FALSE
      OBVIOUS
    <3>2. /\ g.name.kind = "part"
          /\ ~(Cleaner!SameAttr(g, part) /\ g.body = part.StorageMd5)
      BY Zenon, <3>1, SameInCleaner DEF Cleaner!UnknownParts, Cleaner!OfKind
    <3>3. part.StorageMd5 = AnyMd5 /\ part.StorageName.kind = "part"
      BY Zenon, <2>4, <3>2 DEF Cleaner!SameAttr
    <3>4. QED
      BY Zenon, <3>3 DEF PartsHaveMd5
  <2>6. g \notin B
    BY Zenon, <2>4, SameInCleaner DEF Cleaner!UnknownBundles, Cleaner!SameAttr
  <2>7. QED
    BY Zenon, <2>3, <2>4, <2>5, <2>6 DEF ByAttr
<1> HIDE DEF U, B
<1>7. ToRemove' = U \cup D \cup B
  BY <1>1 DEF ToRemove
<1>8. removals' \in [1..3 -> SUBSET listing']
  BY <1>1, <1>2, <1>3
<1>9. \A part \in AllDbParts(vDB)' :
        ByAttr(store, part)' # {} => ByAttr(store, part)' \ ToRemove' # {}
  <2>1. AllDbParts(vDB)' = AllDbParts(vDB)
    BY Zenon, <1>2 DEF AllDbParts
  <2>2. ASSUME NEW part PROVE ByAttr(store, part)' = ByAttr(store, part)
    BY Zenon, <1>2 DEF ByAttr
  <2>3. ASSUME NEW part \in AllDbParts(vDB), ByAttr(store, part) # {}
        PROVE  ByAttr(store, part) \ ToRemove' # {}
    BY Zenon, <1>6, <1>7, <2>3
  <2>4. QED
    BY <2>1, <2>2, <2>3
<1>10. QED
  BY Zenon, <1>5, <1>7, <1>8, <1>9 DEF CleanOK

LEMMA UploadReturnsStep == ASSUME PInv, UploadReturns PROVE PInv'
<1>1. /\ command = "upload" /\ pc \in {"done", "failed"}
      /\ command' \in {"none", "create", "clean"}
      /\ command' # "none" => pc = "done"
      /\ UNCHANGED <<mtime, localDb, scanOnly, scanned, behind>>
  BY DEF UploadReturns
<1>2. UNCHANGED <<store, lastId, disk, excuse, edits, pc, vDB>>
  BY DEF UploadReturns, vars, env, storageVars, call, Cleaner!CallClean,
     Cleaner!storageVars
<1>3. ~Running /\ ~Running'
  BY <1>1, <1>2 DEF Running
<1>4. FolderOK' /\ StorageOK' /\ CallOK'
  BY <1>2, <1>3 DEF PInv, FolderOK, StorageOK, IdsOK, IndexesOK, IndexComplete, Named,
     Present, ByAttr, CallOK
<1>5. TimesOK'
  BY <1>1, <1>2, Zenon DEF PInv, TimesOK, Past, OldDb
<1>6. Changed' = Changed /\ FolderStat' = FolderStat
  BY <1>1, <1>2, Zenon DEF Changed, OldDb, FolderStat
<1>7. FolderOf(vDB)' = FolderOf(vDB) /\ Latest' = Latest
  BY <1>2, Zenon DEF FolderOf, Latest, Named
<1>8. CommandOK'
  BY <1>1, <1>2, <1>6, <1>7 DEF PInv, CommandOK
<1>9. PartsHaveMd5(vDB)'
  BY <1>2, Zenon DEF PInv, PartsHaveMd5
<1>10. CleanOK'
  <2>1. CASE command' = "clean"
    <3>1. Cleaner!CallClean(vDB)
      BY <2>1 DEF UploadReturns
    <3>2. QED
      BY <3>1, CallCleanSpares DEF PInv
  <2>2. CASE command' # "clean"
    BY <2>2 DEF CleanOK
  <2>3. QED
    BY <2>1, <2>2
<1>11. UnchangedIsPublished'
  BY <1>1, <1>2, <1>6, Zenon DEF PInv, UnchangedIsPublished, Published, Named
<1>12. QED
  BY <1>4, <1>5, <1>8, <1>9, <1>10, <1>11 DEF PInv

\* One file goes, and it is in the list.
LEMMA RemoveEffects ==
  ASSUME removals \in [1..3 -> SUBSET listing], Cleaner!RemoveNext
  PROVE  /\ \E f \in ToRemove : store' = store \ {f}
         /\ lastId' = lastId /\ vDB' = vDB /\ listing' = listing
         /\ removals' \in [1..3 -> SUBSET listing']
         /\ ToRemove' \subseteq ToRemove
<1>1. Cleaner!Section \in 1..3
  <2>1. PICK i \in 1..3 : removals[i] # {}
    BY Zenon DEF Cleaner!RemoveNext
  <2>2. \E j \in 1..3 : removals[j] # {} /\ \A k \in 1..(j - 1) : removals[k] = {}
    <3>1. CASE removals[1] # {}
      BY SMT, <3>1
    <3>2. CASE removals[1] = {} /\ removals[2] # {}
      BY SMT, <3>2
    <3>3. CASE removals[1] = {} /\ removals[2] = {}
      <4>1. removals[3] # {}
        BY SMT, <2>1, <3>3
      <4>2. QED
        BY SMT, <3>3, <4>1
    <3>4. QED
      BY Zenon, <3>1, <3>2, <3>3
  <2>3. QED
    BY Zenon, <2>2 DEF Cleaner!Section
<1>2. PICK s \in 1..3 : s = Cleaner!Section
  BY Zenon, <1>1
<1>3. PICK f \in removals[s] :
        /\ removals' = [removals EXCEPT ![s] = @ \ {f}]
        /\ store' = store \ {f} /\ lastId' = lastId
  BY Zenon, <1>2 DEF Cleaner!RemoveNext, Cleaner!Trash
<1>4. vDB' = vDB /\ listing' = listing
  BY Zenon DEF Cleaner!RemoveNext
<1>5. /\ removals' \in [1..3 -> SUBSET listing]
      /\ \A i \in 1..3 : removals'[i] \subseteq removals[i]
  BY SMT, <1>2, <1>3
<1>6. ToRemove' \subseteq ToRemove /\ f \in ToRemove
  BY SMT, <1>2, <1>3, <1>5 DEF ToRemove
<1>7. QED
  BY Zenon, <1>3, <1>4, <1>5, <1>6

\* The index online stays what it is, and complete.
LEMMA RemoveStep ==
  ASSUME PInv, command = "clean", Cleaner!RemoveNext,
         excuse' = excuse
  PROVE  /\ StorageOK' /\ Named(store, IndexName)' = Named(store, IndexName)
         /\ UNCHANGED vDB
         /\ CleanOK'
<1>1. /\ removals \in [1..3 -> SUBSET listing]
      /\ \A f \in ToRemove : f.name # IndexName
      /\ \A part \in AllDbParts(vDB) :
           ByAttr(store, part) # {} => ByAttr(store, part) \ ToRemove # {}
  BY DEF PInv, CleanOK
<1>2. PICK f \in ToRemove : store' = store \ {f}
  BY <1>1, RemoveEffects
<1>3. /\ lastId' = lastId /\ vDB' = vDB /\ listing' = listing
      /\ removals' \in [1..3 -> SUBSET listing']
      /\ ToRemove' \subseteq ToRemove
  BY <1>1, RemoveEffects
<1>4. Named(store, IndexName)' = Named(store, IndexName)
  BY Zenon, <1>1, <1>2 DEF Named
<1>5. ASSUME NEW part \in AllDbParts(vDB), ByAttr(store, part) # {}
      PROVE  ByAttr(store, part)' \ ToRemove' # {}
  <2>1. PICK g \in ByAttr(store, part) : g \notin ToRemove
    BY Zenon, <1>1, <1>5
  <2>2. g \in ByAttr(store, part)' /\ g \notin ToRemove'
    BY Zenon, <1>2, <1>3, <2>1 DEF ByAttr
  <2>3. QED
    BY Zenon, <2>2
<1>6. \A g \in Named(store, IndexName) : g.body.db = vDB
  BY Zenon DEF PInv, CommandOK, Latest, StorageOK
<1>7. IdsOK'
  BY <1>2, <1>3 DEF PInv, StorageOK, IdsOK
<1>8. IndexesOK'
  <2>1. ASSUME NEW g \in Named(store, IndexName), NEW part \in AllDbParts(g.body.db),
               Present(part, g.body.db, excuse[g.id])
        PROVE  Present(part, g.body.db, excuse[g.id])'
    <3>1. part \in AllDbParts(vDB)
      BY Zenon, <1>6, <2>1
    <3>2. ByAttr(store, part) # {} => ByAttr(store, part)' # {}
      BY Zenon, <1>5, <3>1
    <3>3. QED
      BY Zenon, <2>1, <3>2 DEF Present
  <2>2. QED
    BY Zenon, <1>4, <2>1 DEF PInv, StorageOK, IndexesOK, IndexComplete
<1>9. IsFiniteSet(store')
  BY <1>2, FS_RemoveElement DEF PInv, StorageOK
<1>10. StorageOK'
  BY Zenon, <1>4, <1>7, <1>8, <1>9 DEF PInv, StorageOK
<1>11. ASSUME NEW part \in AllDbParts(vDB), ByAttr(store, part)' # {}
       PROVE  ByAttr(store, part) # {}
  BY Zenon, <1>2, <1>11 DEF ByAttr
<1>12. CleanOK'
  <2>1. AllDbParts(vDB)' = AllDbParts(vDB)
    BY Zenon, <1>3 DEF AllDbParts
  <2>2. \A g \in ToRemove' : g.name # IndexName
    BY Zenon, <1>1, <1>3
  <2>3. \A part \in AllDbParts(vDB) :
          ByAttr(store, part)' # {} => ByAttr(store, part)' \ ToRemove' # {}
    BY Zenon, <1>5, <1>11
  <2>4. QED
    BY Zenon, <1>3, <2>1, <2>2, <2>3 DEF CleanOK
<1>13. QED
  BY Zenon, <1>3, <1>4, <1>10, <1>12

LEMMA RunCleanStep == ASSUME PInv, RunClean PROVE PInv'
<1>1. /\ command = "clean" /\ command' \in {"clean", "create"}
      /\ \/ Cleaner!RemoveNext
         \/ command' = "create" /\ Cleaner!CleanReturn
      /\ UNCHANGED <<env, pc, oldDbs, mtime, localDb, scanOnly, scanned, behind>>
  BY DEF RunClean
<1>2. UNCHANGED <<disk, excuse, edits>>
  BY <1>1 DEF env
<1>3. /\ StorageOK' /\ Named(store, IndexName)' = Named(store, IndexName)
      /\ UNCHANGED vDB
      /\ CleanOK'
  <2>1. CASE Cleaner!RemoveNext
    BY <1>1, <1>2, <2>1, RemoveStep
  <2>2. CASE Cleaner!CleanReturn /\ command' = "create"
    <3>1. UNCHANGED <<store, lastId, vDB>>
      BY <2>2 DEF Cleaner!CleanReturn, Cleaner!storageVars
    <3>2. StorageOK'
      BY <1>2, <3>1 DEF PInv, StorageOK, IdsOK, IndexesOK, IndexComplete, Named,
         Present, ByAttr
    <3>3. QED
      BY <2>2, <3>1, <3>2 DEF Named, CleanOK
  <2>3. QED
    BY <1>1, <2>1, <2>2
<1>4. FolderOK'
  BY <1>2 DEF PInv, FolderOK
<1>5. CallOK'
  BY <1>1 DEF PInv, CallOK, Running
<1>6. TimesOK'
  BY <1>1, <1>2, Zenon DEF PInv, TimesOK, Past, OldDb
<1>7. Changed' = Changed /\ FolderStat' = FolderStat
  BY <1>1, <1>2, Zenon DEF Changed, OldDb, FolderStat
<1>8. FolderOf(vDB)' = FolderOf(vDB) /\ Latest' = Latest
  BY <1>3, Zenon DEF FolderOf, Latest
<1>9. CommandOK'
  BY <1>1, <1>2, <1>7, <1>8 DEF PInv, CommandOK
<1>10. PartsHaveMd5(vDB)'
  BY <1>3, Zenon DEF PInv, PartsHaveMd5
<1>11. UnchangedIsPublished'
  BY <1>1, <1>2, <1>3, <1>7, Zenon DEF PInv, UnchangedIsPublished, Published
<1>12. QED
  BY <1>3, <1>4, <1>5, <1>6, <1>9, <1>10, <1>11 DEF PInv

\* ToFile: a truncated file is not taken for an unchanged folder, and the file
\* that is written is the stat of what the index describes.
LEMMA ToFileStep == ASSUME PInv, CreateDb \/ WriteDb PROVE PInv'
<1>1. /\ UNCHANGED vars
      /\ UNCHANGED <<mtime, cleanVars, scanOnly, scanned>>
      /\ command \in {"create", "write"} /\ command' \in {"none", "write"}
  BY DEF CreateDb, WriteDb
<1>2. UNCHANGED <<store, disk, edits, vDB, listing, pc>>
  BY <1>1 DEF vars, storageVars, env, call
<1>3. ~Running
  BY <1>1 DEF PInv, CallOK
<1>4. FolderOK' /\ StorageOK' /\ CallOK'
  BY <1>1, <1>3, NotUpload DEF PInv
<1>5. OldDb' \in {<< >>, scanned} /\ Past(<< >>)
  BY DEF CreateDb, WriteDb, OldDb, Truncated, DbFile, Past
<1>6. TimesOK'
  BY <1>1, <1>2, <1>5, Zenon DEF PInv, TimesOK, Past
<1>7. FolderStat' = FolderStat
  BY <1>1, <1>2, Zenon DEF FolderStat
<1>8. FolderOf(vDB)' = FolderOf(vDB) /\ Latest' = Latest
  BY <1>2, Zenon DEF FolderOf, Latest, Named
<1>9. CommandOK'
  BY <1>1, <1>2, <1>7, <1>8 DEF PInv, CommandOK
<1>10. PartsHaveMd5(vDB)' /\ CleanOK'
  BY <1>1, <1>2, Zenon DEF PInv, PartsHaveMd5, CleanOK
<1>11. UnchangedIsPublished'
  <2>1. CASE CreateDb
    <3>1. OldDb' = << >>
      BY <2>1 DEF CreateDb, OldDb, Truncated
    <3>2. QED
      BY <1>7, <3>1, FolderStatIsNotEmpty, Zenon DEF UnchangedIsPublished, Changed
  <2>2. CASE WriteDb
    <3>1. OldDb' = scanned /\ behind' = scanOnly /\ command = "write"
      BY <2>2 DEF WriteDb, OldDb, DbFile
    <3>2. ASSUME scanned = FolderStat, ~scanOnly PROVE Published
      BY <3>1, <3>2 DEF PInv, CommandOK, Latest, Published
    <3>3. Published' = Published
      BY <1>2, Zenon DEF Published, Named
    <3>4. QED
      BY <1>7, <3>1, <3>2, <3>3, Zenon DEF UnchangedIsPublished, Changed
  <2>3. QED
    BY <2>1, <2>2
<1>12. QED
  BY <1>4, <1>6, <1>9, <1>10, <1>11 DEF PInv

\* A command dies: nothing is under way any more.
LEMMA DieStep == ASSUME PInv, Die PROVE PInv'
<1>1. /\ command' = "none" /\ pc' = IF Running THEN "failed" ELSE pc
      /\ UNCHANGED <<storageVars, env, call, oldDbs, mtime, localDb, scanned, behind>>
  BY DEF Die
<1>2. UNCHANGED <<store, lastId, disk, excuse, edits, vDB>>
  BY <1>1 DEF storageVars, env, call
<1>3. ~Running'
  BY <1>1 DEF Running
<1>4. FolderOK' /\ StorageOK' /\ CallOK'
  BY <1>2, <1>3 DEF PInv, FolderOK, StorageOK, IdsOK, IndexesOK, IndexComplete, Named,
     Present, ByAttr, CallOK
<1>5. TimesOK'
  BY <1>1, <1>2, Zenon DEF PInv, TimesOK, Past, OldDb
<1>6. Changed' = Changed
  BY <1>1, <1>2, Zenon DEF Changed, OldDb, FolderStat
<1>7. CommandOK' /\ CleanOK'
  BY <1>1 DEF CommandOK, CleanOK
<1>8. PartsHaveMd5(vDB)'
  BY <1>2, Zenon DEF PInv, PartsHaveMd5
<1>9. UnchangedIsPublished'
  BY <1>1, <1>2, <1>6, Zenon DEF PInv, UnchangedIsPublished, Published, Named
<1>10. QED
  BY <1>4, <1>5, <1>7, <1>8, <1>9 DEF PInv

LEMMA NothingStep == ASSUME PInv, UNCHANGED publisherVars PROVE PInv'
<1>1. /\ UNCHANGED vars
      /\ UNCHANGED <<mtime, localDb, command, scanOnly, scanned, behind, removals>>
  BY DEF publisherVars, mainVars, cleanVars
<1>2. UNCHANGED <<store, disk, edits, vDB, listing, pc>>
  BY <1>1 DEF vars, storageVars, env, call
<1>3. FolderOK' /\ StorageOK' /\ CallOK'
  BY <1>1, NotUpload DEF PInv, CallOK
<1>4. TimesOK'
  BY <1>1, <1>2, Zenon DEF PInv, TimesOK, Past, OldDb
<1>5. Changed' = Changed /\ FolderStat' = FolderStat
  BY <1>1, <1>2, Zenon DEF Changed, OldDb, FolderStat
<1>6. FolderOf(vDB)' = FolderOf(vDB) /\ Latest' = Latest
  BY <1>2, Zenon DEF FolderOf, Latest, Named
<1>7. CommandOK'
  BY <1>1, <1>2, <1>5, <1>6 DEF PInv, CommandOK
<1>8. PartsHaveMd5(vDB)' /\ CleanOK'
  BY <1>1, <1>2, Zenon DEF PInv, PartsHaveMd5, CleanOK, ToRemove, ByAttr
<1>9. UnchangedIsPublished'
  BY <1>1, <1>2, <1>5, Zenon DEF PInv, UnchangedIsPublished, Published, Named
<1>10. QED
  BY <1>3, <1>4, <1>7, <1>8, <1>9 DEF PInv

LEMMA PStep == PInv /\ [PublisherNext]_publisherVars => PInv'
  BY EditFolderStep, StartScanStep, StartUploadStep, RunUploadStep,
     UploadReturnsStep, RunCleanStep, ToFileStep, DieStep, NothingStep
     DEF PublisherNext, Proceed

\* The invariant of the commands, for all folders, contents and bounds.
THEOREM CommandsInvariant == PublisherSpec => []PInv
<1>1. QED
  BY PInit, PStep, PTL DEF PublisherSpec

\* Whatever commands there were, however they died, and also while Clean removes
\* one file after the other: an index online names only what is online, except
\* for parts of files that were edited during the call that wrote it.
THEOREM IndexStaysComplete == PublisherSpec => []IndexComplete
<1>1. PInv => IndexComplete
  BY DEF PInv, StorageOK, IndexesOK
<1>2. QED
  BY <1>1, CommandsInvariant, PTL

\* A command that returns because nothing has changed finds the folder online,
\* as it is: for any sequence of edits, scans, uploads, clean-ups and deaths,
\* unless a scan or the forced upload of an unchanged folder came in between.
THEOREM UnchangedMeansPublished == PublisherSpec => []UnchangedIsPublished
<1>1. PInv => UnchangedIsPublished
  BY DEF PInv
<1>2. QED
  BY <1>1, CommandsInvariant, PTL

-----------------------------------------------------------------------------
(***************************************************************************)
(* The refinement of Mirror.                                               *)
(***************************************************************************)
Indexes(files) == Named(files, IndexName)

Online == {FolderOf(f.body.db) : f \in Indexes(store)}

\* A step of Upload takes the only index away, or saves one when there is none.
LEMMA UploadStepIndexes ==
  ASSUME IInv, OneIndex, UploadStep
  PROVE  \/ Indexes(store') = Indexes(store)
         \/ Indexes(store') = {}
         \/ /\ Indexes(store) = {}
            /\ \E f : Indexes(store') = {f} /\ f.body.db = vDB
<1>1. CASE SkipFile \/ OpenFile \/ SkipPart \/ FilesDone \/ SkipBundle
             \/ BeginBundle \/ AddToBundle \/ BundlesDone
  <2>1. store' = store
    BY <1>1 DEF SkipFile, OpenFile, SkipPart, FilesDone, SkipBundle, BeginBundle,
       AddToBundle, BundlesDone, storageVars
  <2>2. QED
    BY <2>1, Zenon
<1>2. CASE UploadPart
  <2>1. \/ store' = store
        \/ Save(vFile.Parts[partNo].StorageName, PartLength, Stored(PartBytes))
    BY <1>2 DEF UploadPart, storageVars
  <2>2. vFile.Parts[partNo].StorageName # IndexName
    BY <1>2, Names DEF UploadPart, IInv, HandleOK, TypeOK, vFile
  <2>3. QED
    BY <2>1, <2>2 DEF Save, Indexes, Named
<1>3. CASE SaveBundle
  <2>1. \/ store' = store
        \/ Save(bundle.StorageName, SizeOf(data), Stored(data))
    BY <1>3 DEF SaveBundle, storageVars
  <2>2. bundle.StorageName # IndexName
    BY <1>3, Names DEF SaveBundle, IInv, Progress, TypeOK, bundle
  <2>3. QED
    BY <2>1, <2>2 DEF Save, Indexes, Named
<1>4. CASE TrashDb
  <2>1. PICK f : store' = store \ {f}
    BY <1>4 DEF TrashDb, Trash
  <2>2. CASE f \in Indexes(store)
    BY <2>1, <2>2, Zenon DEF OneIndex, Indexes, Named
  <2>3. CASE f \notin Indexes(store)
    BY <2>1, <2>3, Zenon DEF Indexes, Named
  <2>4. QED
    BY <2>2, <2>3
<1>5. CASE SaveDb
  <2> DEFINE new == [id |-> lastId + 1, name |-> IndexName, size |-> 1,
                     body |-> IndexBody(vDB)]
  <2>1. store' = store \cup {new} /\ pc = "db" /\ oldDbs = {}
    BY <1>5 DEF SaveDb, Save, OldDbsTrashed
  <2>2. new.name = IndexName /\ new.body.db = vDB
    BY DEF IndexBody
  <2> HIDE DEF new
  <2>3. Indexes(store) = {}
    BY <2>1 DEF OneIndex, Running, Indexes
  <2>4. Indexes(store') = {new}
    <3>1. new \in Indexes(store')
      BY <2>1, <2>2, Zenon DEF Indexes, Named
    <3>2. ASSUME NEW f \in Indexes(store') PROVE f = new
      BY <2>1, <2>3, <3>2, Zenon DEF Indexes, Named
    <3>3. QED
      BY <3>1, <3>2, Zenon
  <2>5. QED
    BY <2>2, <2>3, <2>4, Zenon
<1>6. QED
  BY <1>1, <1>2, <1>3, <1>4, <1>5 DEF UploadStep

\* Each step of a command edits the folder, takes a snapshot of it, withdraws the
\* index, publishes the snapshot while there is no index, or none of these.
LEMMA MirrorCases ==
  ASSUME PInv, [PublisherNext]_publisherVars
  PROVE  \/ disk' # disk /\ FolderOf(vDB)' = FolderOf(vDB) /\ Online' = Online
         \/ FolderOf(vDB)' = disk /\ disk' = disk /\ Online' = Online
         \/ Online' = {} /\ disk' = disk /\ FolderOf(vDB)' = FolderOf(vDB)
         \/ /\ Online = {} /\ Online' = {FolderOf(vDB)}
            /\ disk' = disk /\ FolderOf(vDB)' = FolderOf(vDB)
         \/ disk' = disk /\ FolderOf(vDB)' = FolderOf(vDB) /\ Online' = Online
<1>1. Indexes(store') = Indexes(store) => Online' = Online
  BY Zenon DEF Online, Indexes
<1>2. vDB' = vDB => FolderOf(vDB)' = FolderOf(vDB)
  BY Zenon DEF FolderOf
<1>3. CASE EditFolder
  <2>1. disk' # disk
    <3>1. PICK p \in Path :
            \/ \E c \in Contents : /\ p \in DOMAIN disk => disk[p] # c
                                   /\ disk' = [q \in DOMAIN disk \cup {p} |->
                                                 IF q = p THEN c ELSE disk[q]]
            \/ p \in DOMAIN disk /\ disk' = [q \in DOMAIN disk \ {p} |-> disk[q]]
      BY <1>3 DEF EditFolder, Edit
    <3>2. QED
      BY <3>1
  <2>2. store' = store /\ vDB' = vDB
    BY <1>3 DEF EditFolder, Edit, storageVars, call
  <2>3. QED
    BY <1>1, <1>2, <2>1, <2>2
<1>4. CASE \E force \in BOOLEAN : StartScan(force) \/ StartUpload(force)
  <2>1. \E groups : vDB' = MakeBundles([p \in DOMAIN disk |-> ScanFile(disk[p])],
                                       groups)
    BY <1>4 DEF StartScan, StartUpload, Call
  <2>2. FolderOf(vDB') = disk
    BY <2>1, ScanIsSnapshot DEF PInv
  <2>3. store' = store /\ disk' = disk
    BY <1>4 DEF StartScan, StartUpload, Call, storageVars, env
  <2>4. FolderOf(vDB)' = FolderOf(vDB')
    BY Zenon DEF FolderOf
  <2>5. QED
    BY <1>1, <2>2, <2>3, <2>4
<1>5. CASE RunUpload
  <2>1. UploadStep
    BY <1>5 DEF RunUpload
  <2>2. Running /\ disk' = disk /\ vDB' = vDB
    BY <2>1, UploadStepEffects DEF PInv, StorageOK
  <2>3. IInv /\ OneIndex
    BY <2>2 DEF PInv, CallOK, StorageOK, OneIndex
  <2>4. CASE Indexes(store') = Indexes(store)
    BY <1>1, <1>2, <2>2, <2>4
  <2>5. CASE Indexes(store') = {}
    <3>1. Online' = {}
      BY <2>5, Zenon DEF Online, Indexes
    <3>2. QED
      BY <1>2, <2>2, <3>1
  <2>6. CASE /\ Indexes(store) = {}
             /\ \E f : Indexes(store') = {f} /\ f.body.db = vDB
    <3>1. Online = {}
      BY <2>6, Zenon DEF Online
    <3>2. Online' = {FolderOf(vDB)}
      BY <2>6, Zenon DEF Online, Indexes
    <3>3. QED
      BY <1>2, <2>2, <3>1, <3>2
  <2>7. QED
    BY <2>1, <2>3, <2>4, <2>5, <2>6, UploadStepIndexes
<1>6. CASE UploadReturns
  <2>1. store' = store /\ disk' = disk /\ vDB' = vDB
    BY <1>6 DEF UploadReturns, vars, env, storageVars, call, Cleaner!CallClean,
       Cleaner!storageVars
  <2>2. QED
    BY <1>1, <1>2, <2>1
<1>7. CASE RunClean
  <2>1. disk' = disk /\ excuse' = excuse /\ command = "clean"
    BY <1>7 DEF RunClean, env
  <2>2. Named(store, IndexName)' = Named(store, IndexName) /\ vDB' = vDB
    <3>1. CASE Cleaner!RemoveNext
      BY <2>1, <3>1, RemoveStep
    <3>2. CASE Cleaner!CleanReturn
      BY <3>2 DEF Cleaner!CleanReturn, Cleaner!storageVars, Named
    <3>3. QED
      BY <1>7, <3>1, <3>2 DEF RunClean
  <2>3. Indexes(store') = Indexes(store)
    BY <2>2, Zenon DEF Indexes, Named
  <2>4. QED
    BY <1>1, <1>2, <2>1, <2>2, <2>3
<1>8. CASE CreateDb \/ WriteDb \/ UNCHANGED publisherVars
  <2>1. UNCHANGED vars
    BY <1>8 DEF CreateDb, WriteDb, publisherVars
  <2>2. store' = store /\ disk' = disk /\ vDB' = vDB
    BY <2>1 DEF vars, env, storageVars, call
  <2>3. QED
    BY <1>1, <1>2, <2>2
<1>9. CASE Die
  <2>1. store' = store /\ disk' = disk /\ vDB' = vDB
    BY <1>9 DEF Die, env, storageVars, call
  <2>2. QED
    BY <1>1, <1>2, <2>1
<1>10. QED
  BY <1>3, <1>4, <1>5, <1>6, <1>7, <1>8, <1>9 DEF PublisherNext, Proceed

LEMMA MirrorStep ==
  PInv /\ [PublisherNext]_publisherVars => [MirrorOf!Next]_(MirrorOf!vars)
<1>1. Online = {FolderOf(f.body.db) : f \in Named(store, IndexName)}
      /\ Online' = {FolderOf(f.body.db) : f \in Named(store, IndexName)}'
  BY Zenon DEF Online, Indexes, Named
<1>2. QED
  BY <1>1, MirrorCases DEF MirrorOf!Next, MirrorOf!Edit, MirrorOf!Snapshot,
     MirrorOf!Withdraw, MirrorOf!Publish, MirrorOf!vars

LEMMA MirrorInit == PublisherInit => MirrorOf!Init
<1> SUFFICES ASSUME PublisherInit PROVE MirrorOf!Init
  OBVIOUS
<1>1. DOMAIN vDB.VFiles = {} /\ store = {}
  BY DEF PublisherInit, Init
<1>2. FolderOf(vDB) = << >>
  BY <1>1 DEF FolderOf
<1>3. {FolderOf(f.body.db) : f \in Named(store, IndexName)} = {}
  BY <1>1, Zenon DEF Named
<1>4. QED
  BY <1>2, <1>3, Zenon DEF MirrorOf!Init

\* Commands, edits, clean-ups and deaths together do nothing to the index online
\* but withdraw it, and publish the latest snapshot of the folder where there is
\* none: a reader never finds a mixture, a second index, or an older snapshot
\* that comes back.
THEOREM CommandsImplementMirror == PublisherSpec => MirrorSpec
<1>1. QED
  BY MirrorInit, MirrorStep, CommandsInvariant, PTL
     DEF PublisherSpec, MirrorSpec, MirrorOf!Spec

=============================================================================

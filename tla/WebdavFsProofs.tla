--------------------------- MODULE WebdavFsProofs ---------------------------
(***************************************************************************)
(* The server's db is that of the index whose id it keeps, it never gets   *)
(* older, and all it names is there as long as its index is: for any       *)
(* number of versions, handles and rounds of the init loop.                *)
(***************************************************************************)
EXTENDS WebdavFs, OpenFileProofs

Version == {Versions[n] : n \in 1..Len(Versions)}

\* All that a db names is in the list fs.
Covered(db, fs) == \A part \in AllDbParts(db) : ByAttr(fs, part) # {}

\* The index f names one of the versions, and all of it is in the list fs.
Whole(f, fs) == f.body.db \in Version /\ Covered(f.body.db, fs)

CountersOK ==
  /\ lastId \in Nat
  /\ published \in 0..Len(Versions)
  /\ pubPc \in {"parts", "trash", "save", "clean", "cleaning"}
  /\ IsFiniteSet(store)
  /\ \A f \in store : f.id \in 1..lastId

\* The storage has one index at most, and nothing it names is missing.
IndexOK ==
  /\ \A f, g \in Indexes(store) : f = g
  /\ \A f \in Indexes(store) : Whole(f, store)

\* From its last part to its index nothing of the next version is missing.
OrderOK ==
  /\ pubPc \in {"trash", "save"} =>
       published < Len(Versions) /\ Covered(Versions[published + 1], store)
  /\ pubPc = "save" => Indexes(store) = {}
  /\ pubPc \in {"clean", "cleaning"} =>
       /\ published \in 1..Len(Versions)
       /\ \A f \in Indexes(store) : f.body.db = Versions[published]

ToRemove == removals[1] \cup removals[2] \cup removals[3]

\* db can be read from fs also without what is still to be removed.
Spared(db, fs) ==
  \A part \in AllDbParts(db) : ByAttr(fs, part) # {} => ByAttr(fs, part) \ ToRemove # {}

\* Clean is about to remove neither an index nor the last copy of anything the
\* version refers to.
CleaningOK ==
  pubPc = "cleaning" =>
    /\ removals \in [1..3 -> SUBSET listing]
    /\ \A f \in ToRemove : f.name # IndexName
    /\ Spared(Versions[published], store)

StoreOK == CountersOK /\ IndexOK /\ OrderOK /\ CleaningOK

\* The file list: an earlier storage.
FilesOK ==
  /\ \A f \in files : f.id \in 1..lastId
  /\ \A f, g \in Indexes(files) : f = g
  /\ \A f \in Indexes(files) : Whole(f, files)
  /\ \A f \in Indexes(files), i \in Indexes(store) :
       f.id <= i.id /\ (f.id = i.id => f = i)

Mid == \E g \in Loop : pc[g] = "set2"

\* The db is not newer than what is online or listed, and belongs to its id.
DbOK ==
  /\ dbFileId \in 0..lastId
  /\ \A f \in Indexes(store) \cup Indexes(files) :
       /\ dbFileId <= f.id
       /\ f.id = dbFileId => Mid \/ f.body.db = Torn

Busy == {"download", "set", "set2"}

\* What is known of the index a goroutine works on.
Holds(g) ==
  /\ dbMux = g
  /\ indexFile[g].id \in 1..lastId /\ dbFileId < indexFile[g].id
  /\ indexFile[g].body.db \in Version
  /\ \A f \in Indexes(store) \cup Indexes(files) :
       indexFile[g].id <= f.id /\ (indexFile[g].id = f.id => f = indexFile[g])
  /\ pc[g] = "set2" => vFiles = indexFile[g].body.db.VFiles

LoopOK ==
  /\ pc \in [Loop -> {"update", "check", "download", "set", "set2", "end"}]
  /\ dbMux \in Loop \cup {"free"}
  /\ indexFile = [g \in Loop |-> indexFile[g]]
  /\ \A g \in Loop : pc[g] \in Busy => Holds(g)
  /\ tries \in 0..InitTries
  /\ pc["init"] \in {"check"} \cup Busy => tries < InitTries

HandlesOK ==
  /\ handles = [h \in Handle |-> handles[h]]
  /\ \A h \in Handle : handles[h].state \in {"closed", "open", "read"}

IInv == StoreOK /\ FilesOK /\ DbOK /\ LoopOK /\ HandlesOK

-----------------------------------------------------------------------------
LEMMA VersionOK ==
  ASSUME NEW db \in Version
  PROVE  /\ WellFormed(db)
         /\ db = [VFiles |-> db.VFiles, Bundles |-> db.Bundles]
         /\ \A part \in AllDbParts(db) : part.StorageName # IndexName
<1>1. IsSnapshot(db)
  BY Zenon, VersionsAssumption DEF Version
<1> QED
  BY Zenon, <1>1, SnapshotIsWellFormed

\* A list still covers a version when only indexes are taken from it.
LEMMA CoveredStays ==
  ASSUME NEW db \in Version, NEW fs, NEW gs, Covered(db, fs),
         \A x \in fs : x.name # IndexName => x \in gs
  PROVE  Covered(db, gs)
<1>1. ASSUME NEW part \in AllDbParts(db) PROVE ByAttr(gs, part) # {}
  <2>1. PICK x : x \in ByAttr(fs, part)
    BY Zenon DEF Covered
  <2>2. x.name # IndexName
    BY Zenon, <2>1, VersionOK DEF ByAttr
  <2>3. x \in ByAttr(gs, part)
    BY Zenon, <2>1, <2>2 DEF ByAttr
  <2> QED
    BY Zenon, <2>3
<1> QED
  BY Zenon, <1>1 DEF Covered

LEMMA InitIInv == Init => IInv
<1> SUFFICES ASSUME Init PROVE IInv
  OBVIOUS
<1>1. Indexes(store) = {} /\ Indexes(files) = {}
  BY Zenon DEF Init, Indexes, Named
<1>2. StoreOK
  <2>1. IsFiniteSet(store)
    BY Zenon, FS_EmptySet DEF Init
  <2> QED
    BY SMT, <1>1, <2>1, WebdavAssumption
       DEF Init, StoreOK, CountersOK, IndexOK, OrderOK, CleaningOK
<1>3. FilesOK
  BY SMT, <1>1 DEF Init, FilesOK
<1>4. DbOK
  BY SMT, <1>1 DEF Init, DbOK
<1>5. LoopOK
  BY SMT, WebdavAssumption DEF Init, LoopOK, Loop, Busy
<1>6. HandlesOK
  BY SMT DEF Init, HandlesOK, Closed
<1> QED
  BY Zenon, <1>2, <1>3, <1>4, <1>5, <1>6 DEF IInv

-----------------------------------------------------------------------------
\* What the rest has to know of a step of the publisher: an index that is new
\* has a new id.
PublisherStep ==
  /\ lastId' \in Nat /\ lastId <= lastId'
  /\ \A f \in Indexes(store)' : f \in Indexes(store) \/ f.id > lastId

\* A part of the next version is saved.
LEMMA PartKeeps == ASSUME StoreOK, PublishPart PROVE StoreOK' /\ PublisherStep
<1> DEFINE db == Versions[published + 1]
<1>1. published + 1 \in 1..Len(Versions) /\ published < Len(Versions)
  BY SMT, WebdavAssumption DEF StoreOK, CountersOK, PublishPart
<1>2. CASE Missing(db) = {}
  <2>1. pubPc' = "trash" /\ store' = store /\ lastId' = lastId /\ published' = published
    BY Zenon, <1>2 DEF PublishPart, storageVars
  <2>2. Indexes(store') = Indexes(store)
    BY Zenon, <2>1
  <2>3. Covered(db, store)
    BY Zenon, <1>2 DEF Missing, Covered
  <2>4. CountersOK'
    BY Zenon, <2>1 DEF StoreOK, CountersOK
  <2>5. IndexOK'
    BY Zenon, <2>1 DEF StoreOK, IndexOK
  <2>6. OrderOK'
    BY SMT, <1>1, <2>1, <2>3 DEF OrderOK
  <2>7. PublisherStep
    BY SMT, <2>1, <2>2 DEF PublisherStep, StoreOK, CountersOK
  <2>8. CleaningOK'
    BY SMT, <2>1 DEF CleaningOK
  <2> QED
    BY Zenon, <2>4, <2>5, <2>6, <2>7, <2>8 DEF StoreOK
<1>3. CASE Missing(db) # {}
  <2> DEFINE part == CHOOSE part \in Missing(db) : TRUE
             new == [id |-> lastId + 1, name |-> part.StorageName,
                     size |-> part.StorageSize, body |-> BodyOf(db, part)]
  <2>1. part \in AllDbParts(db)
    BY Zenon, <1>3 DEF Missing
  <2>2. part.StorageName # IndexName
    <3>1. db \in Version
      BY Zenon, <1>1 DEF Version
    <3> QED
      BY Zenon, <2>1, <3>1, VersionOK
  <2>3. /\ pubPc' = pubPc /\ pubPc = "parts" /\ published' = published
        /\ lastId' = lastId + 1 /\ store' = store \cup {new}
    BY Zenon, <1>3 DEF PublishPart, Save
  <2>4. new.name # IndexName /\ new.id = lastId + 1
    BY SMT, <2>2
  <2> HIDE DEF new, db
  <2>5. Indexes(store') = Indexes(store)
    BY Zenon, <2>3, <2>4 DEF Indexes, Named
  <2>6. CountersOK'
    <3>1. IsFiniteSet(store')
      BY Zenon, <2>3, FS_AddElement DEF StoreOK, CountersOK
    <3> QED
      BY SMT, <2>3, <2>4, <3>1 DEF StoreOK, CountersOK
  <2>7. ASSUME NEW f \in Indexes(store) PROVE Whole(f, store')
    <3>1. \A x \in store : x.name # IndexName => x \in store'
      BY Zenon, <2>3
    <3> QED
      BY Zenon, <3>1, CoveredStays DEF Whole, StoreOK, IndexOK
  <2>8. IndexOK'
    BY Zenon, <2>5, <2>7 DEF StoreOK, IndexOK
  <2>9. OrderOK'
    BY SMT, <2>3 DEF OrderOK
  <2>10. PublisherStep
    BY SMT, <2>3, <2>5 DEF PublisherStep, StoreOK, CountersOK
  <2>11. CleaningOK'
    BY SMT, <2>3 DEF CleaningOK
  <2> QED
    BY Zenon, <2>6, <2>8, <2>9, <2>10, <2>11 DEF StoreOK
<1> QED
  BY Zenon, <1>2, <1>3

\* The old index is trashed.
LEMMA TrashKeeps ==
  ASSUME StoreOK, PublishIndex, pubPc = "trash" PROVE StoreOK' /\ PublisherStep
<1> DEFINE db == Versions[published + 1]
<1>1. pubPc' = "save" /\ lastId' = lastId /\ published' = published
  BY SMT DEF PublishIndex
<1>2. store' = store \ Indexes(store)
  BY SMT DEF PublishIndex, Indexes
<1>3. Indexes(store') = {}
  BY Zenon, <1>2 DEF Indexes, Named
<1>4. published < Len(Versions) /\ Covered(db, store) /\ db \in Version
  BY SMT, WebdavAssumption DEF StoreOK, CountersOK, OrderOK, Version
<1>5. Covered(db, store')
  <2>1. \A x \in store : x.name # IndexName => x \in store'
    BY Zenon, <1>2 DEF Indexes, Named
  <2> HIDE DEF db
  <2> QED
    BY Zenon, <1>4, <2>1, CoveredStays
<1>6. CountersOK'
  <2>1. \A f \in store' : f \in store
    BY Zenon, <1>2
  <2>2. IsFiniteSet(store')
    BY Zenon, <2>1, FS_Subset DEF StoreOK, CountersOK
  <2> QED
    BY SMT, <1>1, <2>1, <2>2 DEF StoreOK, CountersOK
<1>7. IndexOK'
  BY Zenon, <1>3 DEF IndexOK
<1>8. OrderOK'
  BY SMT, <1>1, <1>3, <1>4, <1>5 DEF OrderOK
<1>9. PublisherStep
  BY SMT, <1>1, <1>3 DEF PublisherStep, StoreOK, CountersOK
<1>10. CleaningOK'
  BY SMT, <1>1 DEF CleaningOK
<1> QED
  BY Zenon, <1>6, <1>7, <1>8, <1>9, <1>10 DEF StoreOK

\* The new index is saved.
LEMMA SaveKeeps ==
  ASSUME StoreOK, PublishIndex, pubPc = "save" PROVE StoreOK' /\ PublisherStep
<1> DEFINE db == Versions[published + 1]
           new == [id |-> lastId + 1, name |-> IndexName, size |-> 1,
                   body |-> [nonce |-> lastId + 1, db |-> db]]
<1>1. pubPc' = "clean" /\ published' = published + 1 /\ lastId' = lastId + 1
  BY SMT DEF PublishIndex, Save
<1>2. store' = store \cup {new}
  BY SMT DEF PublishIndex, Save
<1>3. published < Len(Versions) /\ Covered(db, store) /\ db \in Version
  BY SMT, WebdavAssumption DEF StoreOK, CountersOK, OrderOK, Version
<1>4. new.name = IndexName /\ new.id = lastId + 1 /\ new.body.db = db
  BY SMT
<1>5. Indexes(store) = {}
  BY SMT DEF StoreOK, OrderOK
<1>6. db = Versions[published']
  BY Zenon, <1>1
<1> HIDE DEF new, db
<1>7. Indexes(store') = {new}
  BY Zenon, <1>2, <1>4, <1>5 DEF Indexes, Named
<1>8. Covered(db, store')
  <2>1. \A x \in store : x.name # IndexName => x \in store'
    BY Zenon, <1>2
  <2> QED
    BY Zenon, <1>3, <2>1, CoveredStays
<1>9. CountersOK'
  <2>1. IsFiniteSet(store')
    BY Zenon, <1>2, FS_AddElement DEF StoreOK, CountersOK
  <2> QED
    BY SMT, <1>2, <1>1, <1>3, <1>4, <2>1, WebdavAssumption DEF StoreOK, CountersOK
<1>10. IndexOK'
  <2>1. Whole(new, store')
    BY Zenon, <1>3, <1>4, <1>8 DEF Whole
  <2> QED
    BY Zenon, <1>7, <2>1 DEF IndexOK
<1>11. OrderOK'
  <2>1. \A f \in Indexes(store') : f.body.db = Versions[published']
    BY Zenon, <1>4, <1>6, <1>7
  <2> QED
    BY SMT, <1>1, <1>3, <2>1 DEF OrderOK, StoreOK, CountersOK
<1>12. PublisherStep
  <2>1. \A f \in Indexes(store') : f.id = lastId + 1
    BY Zenon, <1>4, <1>7
  <2> QED
    BY SMT, <1>1, <2>1 DEF PublisherStep, StoreOK, CountersOK
<1>13. CleaningOK'
  BY SMT, <1>1 DEF CleaningOK
<1> QED
  BY Zenon, <1>9, <1>10, <1>11, <1>12, <1>13 DEF StoreOK

\* Cleaner's copies of what both modules use.
LEMMA SameInCleaner ==
  /\ \A S : Cleaner!Cardinality(S) = Cardinality(S)
  /\ \A db : Cleaner!AllDbParts(db) = AllDbParts(db)
<1>1. ASSUME NEW S PROVE Cleaner!Cardinality(S) = Cardinality(S)
  BY Zenon DEF Cleaner!Cardinality, Cardinality
<1>2. ASSUME NEW db PROVE Cleaner!AllDbParts(db) = AllDbParts(db)
  BY Zenon DEF Cleaner!AllDbParts, AllDbParts, Cleaner!ToSet, ToSet,
     Cleaner!AsPart, AsPart
<1> QED
  BY Zenon, <1>1, <1>2

\* Parts can be told from bundles by their md5.
LEMMA PartsHaveMd5 ==
  ASSUME NEW db \in Version, NEW part \in AllDbParts(db),
         part.StorageName.kind = "part"
  PROVE  part.StorageMd5 # AnyMd5
<1>1. WellFormed(db)
  BY Zenon, VersionOK
<1>2. CASE \E p \in DOMAIN db.VFiles : part \in ToSet(db.VFiles[p].Parts)
  <2>1. PICK p \in DOMAIN db.VFiles : part \in ToSet(db.VFiles[p].Parts)
    BY Zenon, <1>2
  <2>2. PICK content \in Seq(Chunk) : ScanOf(db.VFiles[p], content)
    BY Zenon, <1>1 DEF WellFormed
  <2>3. PICK i \in 1..Len(content) :
          part = VFilePart(content[i], UseCompression(content))
    BY <2>1, <2>2, ScanParts DEF ToSet
  <2>4. part.StorageMd5 = Stored(<< <<content[i], UseCompression(content)>> >>)
    BY <2>3 DEF VFilePart
  <2>5. "bytes" \in DOMAIN part.StorageMd5
    BY <2>4 DEF Stored
  <2>6. "bytes" \notin DOMAIN AnyMd5
    BY DEF AnyMd5
  <2> QED
    BY Zenon, <2>5, <2>6
<1>3. CASE \E id \in DOMAIN db.Bundles : part = AsPart(db.Bundles[id])
  <2>1. PICK id \in DOMAIN db.Bundles : part = AsPart(db.Bundles[id])
    BY Zenon, <1>3
  <2>2. part.StorageName = db.Bundles[id].StorageName
    BY SMT, <2>1 DEF AsPart
  <2>3. part.StorageName = GroupId(db.VFiles, db.Bundles[id].Content)
    BY Zenon, <1>1, <2>2 DEF WellFormed
  <2>4. PICK plain : part.StorageName = BundleName(plain)
    BY Zenon, <2>3 DEF GroupId
  <2>5. BundleName(plain).kind = "bundle" /\ "bundle" # "part"
    BY SMT DEF BundleName
  <2> QED
    BY Zenon, <2>4, <2>5
<1> QED
  BY Zenon, <1>2, <1>3 DEF AllDbParts

\* Clean makes its list: of the twins of a file the version refers to, one is
\* neither unknown nor a duplicate, and an index is no twin of another file.
LEMMA ListSpares ==
  ASSUME StoreOK, NEW db \in Version, Cleaner!CallClean(db)
  PROVE  /\ removals' \in [1..3 -> SUBSET listing']
         /\ \A f \in ToRemove' : f.name # IndexName
         /\ \A part \in AllDbParts(db) :
              ByAttr(store, part) # {} => ByAttr(store, part) \ ToRemove' # {}
<1> DEFINE U == Cleaner!UnknownParts(db, store)
           B == IF Cleaner!BundleMode(db) THEN Cleaner!UnknownBundles(db, store) ELSE {}
<1>1. PICK D \in Cleaner!Duplicates(store) : removals' = <<U, D, B>>
  BY Zenon DEF Cleaner!CallClean
<1>2. listing' = store
  BY Zenon DEF Cleaner!CallClean
<1>3. U \subseteq store /\ B \subseteq store /\ D \subseteq store
  BY Zenon DEF Cleaner!UnknownParts, Cleaner!UnknownBundles, Cleaner!OfKind,
     Cleaner!Duplicates
<1>4. ASSUME NEW f \in store
      PROVE  \E g : Cleaner!Twins(f, store) \ D = {g}
  <2>1. Cardinality(Cleaner!Twins(f, store) \ D) = 1
    BY Zenon, SameInCleaner DEF Cleaner!Duplicates
  <2>2. Cleaner!Twins(f, store) \ D \subseteq store
    BY Zenon DEF Cleaner!Twins
  <2>3. IsFiniteSet(Cleaner!Twins(f, store) \ D)
    BY Zenon, <2>2, FS_Subset DEF StoreOK, CountersOK
  <2> QED
    BY Zenon, <2>1, <2>3, FS_Singleton
<1>5. ASSUME NEW f \in U \cup D \cup B PROVE f.name # IndexName
  <2>1. SUFFICES ASSUME f.name = IndexName PROVE FALSE
    OBVIOUS
  <2>2. f \in store /\ f \in Indexes(store)
    BY Zenon, <1>3, <2>1 DEF Indexes, Named
  <2>3. f.name.kind = "index"
    BY <2>1 DEF IndexName
  <2>4. f.name.kind # "part" /\ f.name.kind # "bundle"
    BY <2>3
  <2>5. f \notin U /\ f \notin B
    BY Zenon, <2>4 DEF Cleaner!UnknownParts, Cleaner!UnknownBundles, Cleaner!OfKind
  <2>6. PICK g : Cleaner!Twins(f, store) \ D = {g}
    BY Zenon, <1>4, <2>2
  <2>7. g \in Indexes(store) /\ g \notin D
    BY Zenon, <2>1, <2>6 DEF Cleaner!Twins, Indexes, Named
  <2>8. g = f
    BY Zenon, <2>2, <2>7 DEF StoreOK, IndexOK
  <2> QED
    BY Zenon, <2>5, <2>7, <2>8
<1>6. ASSUME NEW part \in AllDbParts(db), NEW f \in ByAttr(store, part)
      PROVE  \E g \in ByAttr(store, part) : g \notin U \cup D \cup B
  <2>1. f \in store
    BY Zenon DEF ByAttr
  <2>2. PICK g : Cleaner!Twins(f, store) \ D = {g}
    BY Zenon, <1>4, <2>1
  <2>3. g \in store /\ g \notin D /\ g.name = f.name /\ g.size = f.size /\ g.body = f.body
    BY Zenon, <2>2 DEF Cleaner!Twins
  <2>4. /\ g.name = part.StorageName /\ g.size = part.StorageSize
        /\ part.StorageMd5 \in {AnyMd5, g.body}
    BY Zenon, <2>3 DEF ByAttr
  <2>5. g \notin U
    <3>1. SUFFICES ASSUME g \in U PROVE FALSE
      OBVIOUS
    <3>2. /\ g.name.kind = "part"
          /\ ~(Cleaner!SameAttr(g, part) /\ g.body = part.StorageMd5)
      BY Zenon, <3>1, SameInCleaner DEF Cleaner!UnknownParts, Cleaner!OfKind
    <3>3. part.StorageMd5 = AnyMd5 /\ part.StorageName.kind = "part"
      BY Zenon, <2>4, <3>2 DEF Cleaner!SameAttr
    <3> QED
      BY Zenon, <3>3, PartsHaveMd5
  <2>6. g \notin B
    BY Zenon, <2>4, SameInCleaner DEF Cleaner!UnknownBundles, Cleaner!SameAttr
  <2> QED
    BY Zenon, <2>3, <2>4, <2>5, <2>6 DEF ByAttr
<1> HIDE DEF U, B
<1>7. ToRemove' = U \cup D \cup B
  BY <1>1 DEF ToRemove
<1>8. removals' \in [1..3 -> SUBSET listing']
  BY <1>1, <1>2, <1>3
<1> QED
  BY Zenon, <1>5, <1>6, <1>7, <1>8

\* One Trash: one file goes, and it is in the list.
LEMMA RemoveEffects ==
  ASSUME removals \in [1..3 -> SUBSET listing], Cleaner!RemoveNext
  PROVE  /\ \E f \in ToRemove : store' = store \ {f}
         /\ lastId' = lastId /\ removals' \in [1..3 -> SUBSET listing']
         /\ ToRemove' \subseteq ToRemove
<1>1. Cleaner!Section \in 1..3
  <2>1. PICK i \in 1..3 : removals[i] # {}
    BY Zenon DEF Cleaner!RemoveNext
  <2>2. \E j \in 1..3 : removals[j] # {} /\ \A k \in 1..(j - 1) : removals[k] = {}
    <3>1. CASE removals[1] # {}
      BY SMT, <3>1
    <3>2. CASE removals[1] = {} /\ removals[2] # {}
      BY SMT, <3>2
    <3>3. CASE removals[1] = {} /\ removals[2] = {}
      <4>1. removals[3] # {}
        BY SMT, <2>1, <3>3
      <4> QED
        BY SMT, <3>3, <4>1
    <3> QED
      BY Zenon, <3>1, <3>2, <3>3
  <2> QED
    BY Zenon, <2>2 DEF Cleaner!Section
<1>2. PICK s \in 1..3 : s = Cleaner!Section
  BY Zenon, <1>1
<1>3. PICK f \in removals[s] :
        /\ removals' = [removals EXCEPT ![s] = @ \ {f}]
        /\ store' = store \ {f} /\ lastId' = lastId
  BY Zenon, <1>2 DEF Cleaner!RemoveNext, Cleaner!Trash
<1>4. listing' = listing
  BY Zenon DEF Cleaner!RemoveNext
<1>5. /\ removals' \in [1..3 -> SUBSET listing]
      /\ \A i \in 1..3 : removals'[i] \subseteq removals[i]
  BY SMT, <1>2, <1>3
<1>6. ToRemove' \subseteq ToRemove /\ f \in ToRemove
  BY SMT, <1>2, <1>3, <1>5 DEF ToRemove
<1> QED
  BY Zenon, <1>3, <1>4, <1>5, <1>6

\* Nothing is cleaned up, or Clean lists the storage, returns or stops.
LEMMA CleanCalls ==
  ASSUME StoreOK, PublishClean, pubPc' # pubPc PROVE StoreOK' /\ PublisherStep
<1>1. /\ store' = store /\ lastId' = lastId /\ published' = published
      /\ pubPc \in {"clean", "cleaning"}
      /\ \/ pubPc' = "parts"
         \/ pubPc' = "cleaning" /\ Cleaner!CallClean(Versions[published])
  BY Zenon DEF PublishClean, CleanedVersion, storageVars, Cleaner!storageVars,
     Cleaner!CallClean, Cleaner!CleanReturn, Cleaner!CleanAbort
<1>2. CountersOK'
  <2>1. pubPc' \in {"parts", "trash", "save", "clean", "cleaning"}
    BY Zenon, <1>1
  <2> QED
    BY Zenon, <1>1, <2>1 DEF StoreOK, CountersOK
<1>3. IndexOK'
  BY Zenon, <1>1 DEF StoreOK, IndexOK
<1>4. /\ published \in 1..Len(Versions)
      /\ \A f \in Indexes(store) : f.body.db = Versions[published]
  BY Zenon, <1>1 DEF StoreOK, OrderOK
<1>5. OrderOK'
  BY SMT, <1>1, <1>4 DEF OrderOK
<1>6. CleaningOK'
  <2>1. CASE pubPc' = "parts"
    BY SMT, <2>1 DEF CleaningOK
  <2>2. CASE pubPc' = "cleaning" /\ Cleaner!CallClean(Versions[published])
    <3> DEFINE db == Versions[published]
    <3>1. db \in Version
      BY Zenon, <1>4 DEF Version
    <3>2. db' = db
      BY Zenon, <1>1
    <3> HIDE DEF db
    <3>3. /\ removals' \in [1..3 -> SUBSET listing']
          /\ \A f \in ToRemove' : f.name # IndexName
          /\ \A part \in AllDbParts(db) :
               ByAttr(store, part) # {} => ByAttr(store, part) \ ToRemove' # {}
      BY Zenon, <2>2, <3>1, ListSpares DEF db
    <3>4. Spared(db, store)'
      BY Zenon, <1>1, <3>2, <3>3 DEF Spared
    <3> QED
      BY Zenon, <3>3, <3>4 DEF CleaningOK, db
  <2> QED
    BY Zenon, <1>1, <2>1, <2>2
<1>7. PublisherStep
  <2>1. Indexes(store') = Indexes(store)
    BY Zenon, <1>1
  <2> QED
    BY SMT, <1>1, <2>1 DEF PublisherStep, StoreOK, CountersOK
<1> QED
  BY Zenon, <1>2, <1>3, <1>5, <1>6, <1>7 DEF StoreOK

\* Clean trashes one file: what the index names stays, and will stay.
LEMMA CleanRemoves ==
  ASSUME StoreOK, PublishClean, pubPc' = pubPc PROVE StoreOK' /\ PublisherStep
<1> DEFINE db == Versions[published]
<1>1. published' = published /\ pubPc = "cleaning" /\ Cleaner!RemoveNext
  BY SMT DEF PublishClean
<1>2. /\ removals \in [1..3 -> SUBSET listing]
      /\ \A f \in ToRemove : f.name # IndexName
      /\ Spared(db, store)
      /\ published \in 1..Len(Versions)
      /\ \A f \in Indexes(store) : f.body.db = db /\ Whole(f, store)
  BY Zenon, <1>1 DEF StoreOK, OrderOK, IndexOK, CleaningOK
<1>3. PICK f \in ToRemove : store' = store \ {f}
  BY Zenon, <1>1, <1>2, RemoveEffects
<1>4. /\ lastId' = lastId /\ removals' \in [1..3 -> SUBSET listing']
      /\ ToRemove' \subseteq ToRemove
  BY Zenon, <1>1, <1>2, RemoveEffects
<1>5. db' = db
  BY Zenon, <1>1
<1> HIDE DEF db
<1>6. Indexes(store') = Indexes(store)
  BY Zenon, <1>2, <1>3 DEF Indexes, Named
<1>7. ASSUME NEW part \in AllDbParts(db), ByAttr(store, part) # {}
      PROVE  ByAttr(store', part) # {} /\ ByAttr(store', part) \ ToRemove' # {}
  <2>1. PICK g \in ByAttr(store, part) : g \notin ToRemove
    BY Zenon, <1>2, <1>7 DEF Spared
  <2>2. g \in ByAttr(store', part) /\ g \notin ToRemove'
    BY Zenon, <1>3, <1>4, <2>1 DEF ByAttr
  <2> QED
    BY Zenon, <2>2
<1>8. CountersOK'
  <2>1. \A g \in store' : g \in store
    BY Zenon, <1>3
  <2>2. IsFiniteSet(store')
    BY Zenon, <1>3, FS_RemoveElement DEF StoreOK, CountersOK
  <2> QED
    BY Zenon, <1>1, <1>4, <2>1, <2>2 DEF StoreOK, CountersOK
<1>9. IndexOK'
  <2>1. ASSUME NEW g \in Indexes(store) PROVE Whole(g, store')
    <3>1. g.body.db = db /\ db \in Version /\ Covered(db, store)
      BY Zenon, <1>2 DEF Whole
    <3>2. Covered(db, store')
      BY Zenon, <1>7, <3>1 DEF Covered
    <3> QED
      BY Zenon, <3>1, <3>2 DEF Whole
  <2> QED
    BY Zenon, <1>6, <2>1 DEF StoreOK, IndexOK
<1>10. OrderOK'
  BY SMT, <1>1, <1>2, <1>6 DEF OrderOK, db
<1>11. CleaningOK'
  <2>1. \A g \in ToRemove' : g.name # IndexName
    BY Zenon, <1>2, <1>4
  <2>2. \A part \in AllDbParts(db) : ByAttr(store', part) # {} => ByAttr(store, part) # {}
    BY Zenon, <1>3 DEF ByAttr
  <2>3. Spared(db, store)'
    BY Zenon, <1>5, <1>7, <2>2 DEF Spared
  <2> QED
    BY Zenon, <1>4, <2>1, <2>3 DEF CleaningOK, db
<1>12. PublisherStep
  BY SMT, <1>4, <1>6 DEF PublisherStep, StoreOK, CountersOK
<1> QED
  BY Zenon, <1>8, <1>9, <1>10, <1>11, <1>12 DEF StoreOK

LEMMA CleanKeeps == ASSUME StoreOK, PublishClean PROVE StoreOK' /\ PublisherStep
<1>1. CASE pubPc' = pubPc
  BY Zenon, <1>1, CleanRemoves
<1>2. CASE pubPc' # pubPc
  BY Zenon, <1>2, CleanCalls
<1> QED
  BY Zenon, <1>1, <1>2

LEMMA PublisherKeeps == ASSUME IInv, Publisher PROVE IInv'
<1>1. StoreOK' /\ PublisherStep
  <2>1. PublishIndex => pubPc \in {"trash", "save"}
    BY Zenon DEF PublishIndex
  <2> QED
    BY Zenon, <2>1, PartKeeps, TrashKeeps, SaveKeeps, CleanKeeps DEF Publisher, IInv
<1>2. /\ files' = files /\ vFiles' = vFiles /\ vBundles' = vBundles
      /\ dbFileId' = dbFileId /\ dbMux' = dbMux /\ pc' = pc
      /\ indexFile' = indexFile /\ tries' = tries /\ handles' = handles
  BY Zenon DEF Publisher, dbVars, loopVars
<1>3. Indexes(files') = Indexes(files)
  BY Zenon, <1>2
<1>4. /\ lastId \in Nat /\ lastId' \in Nat /\ lastId <= lastId'
      /\ \A f \in Indexes(store') : f \in Indexes(store) \/ f.id > lastId
  BY Zenon, <1>1 DEF PublisherStep, IInv, StoreOK, CountersOK
<1>5. \A f \in Indexes(store') : f.id \in Nat
  <2>1. \A f \in Indexes(store') : f \in store'
    BY Zenon DEF Indexes, Named
  <2> QED
    BY SMT, <1>1, <2>1 DEF StoreOK, CountersOK
<1>6. FilesOK'
  <2>1. \A f \in Indexes(files) : f.id \in 1..lastId
    BY Zenon DEF IInv, FilesOK, Indexes, Named
  <2>2. \A f \in files' : f.id \in 1..lastId'
    BY SMT, <1>2, <1>4 DEF IInv, FilesOK
  <2>3. \A f \in Indexes(files), i \in Indexes(store') :
          f.id <= i.id /\ (f.id = i.id => f = i)
    BY SMT, <1>4, <1>5, <2>1 DEF IInv, FilesOK
  <2> QED
    BY Zenon, <1>2, <2>2, <2>3 DEF IInv, FilesOK
<1>7. DbOK'
  <2>1. Mid' = Mid /\ Torn' = Torn
    BY Zenon, <1>2 DEF Mid, Torn
  <2> QED
    BY SMT, <1>2, <1>3, <1>4, <1>5, <2>1 DEF IInv, DbOK
<1>8. LoopOK'
  <2>1. ASSUME NEW g \in Loop, Holds(g) PROVE Holds(g)'
    <3>1. \A f \in Indexes(store') \cup Indexes(files') :
            indexFile[g].id <= f.id /\ (indexFile[g].id = f.id => f = indexFile[g])
      BY SMT, <1>3, <1>4, <1>5, <2>1 DEF Holds
    <3>2. indexFile[g].id \in 1..lastId'
      BY SMT, <1>4, <2>1 DEF Holds
    <3> QED
      BY Zenon, <1>2, <2>1, <3>1, <3>2 DEF Holds
  <2> QED
    BY Zenon, <1>2, <2>1 DEF IInv, LoopOK
<1>9. HandlesOK'
  BY Zenon, <1>2 DEF IInv, HandlesOK
<1> QED
  BY Zenon, <1>1, <1>6, <1>7, <1>8, <1>9 DEF IInv

-----------------------------------------------------------------------------
\* A goroutine at work holds the lock, so it is the only one.
LEMMA Alone ==
  ASSUME LoopOK, NEW g \in Loop, pc[g] \in Busy
  PROVE  Holds(g) /\ \A o \in Loop \ {g} : pc[o] \notin Busy
  BY Zenon DEF LoopOK, Holds

LEMMA FreeIdle ==
  ASSUME LoopOK, Free PROVE ~Mid /\ \A o \in Loop : pc[o] \notin Busy
<1>1. "free" \notin Loop
  BY SMT DEF Loop
<1>2. \A o \in Loop : pc[o] \notin Busy
  BY Zenon, <1>1 DEF LoopOK, Holds, Free
<1> QED
  BY Zenon, <1>2 DEF Mid, Busy

\* checkDb returns.
LEMMA Returns ==
  ASSUME LoopOK, NEW g \in Loop, NEW success \in BOOLEAN,
         pc[g] \in {"check"} \cup Busy, \A o \in Loop \ {g} : pc[o] \notin Busy,
         AfterCheck(g, success)
  PROVE  LoopOK' /\ ~Mid'
<1>1. /\ pc \in [Loop -> {"update", "check", "download", "set", "set2", "end"}]
      /\ tries \in 0..InitTries /\ InitTries \in Nat \ {0}
      /\ pc["init"] \in {"check"} \cup Busy => tries < InitTries
  BY Zenon, WebdavAssumption DEF LoopOK
<1>2. \E s \in {"update", "check", "end"} : pc' = [pc EXCEPT ![g] = s]
  BY Zenon DEF AfterCheck
<1>3. pc' \in [Loop -> {"update", "check", "download", "set", "set2", "end"}]
  BY SMT, <1>1, <1>2
<1>4. \A o \in Loop : pc'[o] \notin Busy
  BY SMT, <1>1, <1>2 DEF Busy
<1>5. ~Mid'
  BY Zenon, <1>4 DEF Mid, Busy
<1>6. dbMux' \in Loop \cup {"free"}
  BY Zenon DEF AfterCheck
<1>7. indexFile' = [o \in Loop |-> indexFile'[o]]
  BY SMT DEF AfterCheck, LoopOK
<1>8. /\ tries' \in 0..InitTries
      /\ pc'["init"] \in {"check"} \cup Busy => tries' < InitTries
  <2>1. CASE g = "update"
    <3>1. tries' = tries /\ pc'["init"] = pc["init"]
      BY SMT, <1>1, <2>1 DEF AfterCheck, Loop
    <3> QED
      BY SMT, <1>1, <3>1
  <2>2. CASE g = "init"
    <3>1. tries < InitTries
      BY Zenon, <1>1, <2>2
    <3>2. tries' = tries + 1 /\ pc'["init"] \in {"end", "check"}
      BY SMT, <1>1, <2>2 DEF AfterCheck, Loop
    <3>3. pc'["init"] = "check" => tries + 1 < InitTries
      BY SMT, <1>1, <2>2 DEF AfterCheck, Loop, TriesUsedUp
    <3> QED
      BY SMT, <1>1, <1>4, <3>1, <3>2, <3>3 DEF Loop
  <2> QED
    BY Zenon, <2>1, <2>2 DEF Loop
<1> QED
  BY Zenon, <1>3, <1>4, <1>5, <1>6, <1>7, <1>8 DEF LoopOK

\* A goroutine takes a step inside checkDb.
LEMMA StaysBusy ==
  ASSUME LoopOK, NEW g \in Loop, NEW s \in Busy,
         pc[g] \in {"check"} \cup Busy, \A o \in Loop \ {g} : pc[o] \notin Busy,
         pc' = [pc EXCEPT ![g] = s], indexFile' = [o \in Loop |-> indexFile'[o]],
         dbMux' = g, tries' = tries, Holds(g)'
  PROVE  LoopOK' /\ (s = "set2" => Mid') /\ (Mid' => s = "set2")
<1>1. pc \in [Loop -> {"update", "check", "download", "set", "set2", "end"}]
  BY Zenon DEF LoopOK
<1>2. /\ pc' \in [Loop -> {"update", "check", "download", "set", "set2", "end"}]
      /\ pc'[g] = s /\ \A o \in Loop \ {g} : pc'[o] = pc[o]
  BY SMT, <1>1 DEF Busy
<1>3. \A o \in Loop : pc'[o] \in Busy => Holds(o)'
  BY Zenon, <1>2
<1>4. pc'["init"] \in {"check"} \cup Busy => pc["init"] \in {"check"} \cup Busy
  BY Zenon, <1>2 DEF Loop
<1>5. LoopOK'
  BY Zenon, <1>2, <1>3, <1>4 DEF LoopOK
<1>6. (s = "set2" => Mid') /\ (Mid' => s = "set2")
  BY Zenon, <1>2 DEF Mid, Busy
<1> QED
  BY Zenon, <1>5, <1>6

\* What a step leaves alone stays right.
LEMMA PublisherStays ==
  ASSUME StoreOK, UNCHANGED pubVars
  PROVE  store' = store /\ lastId' = lastId /\ StoreOK'
<1>1. /\ store' = store /\ lastId' = lastId /\ published' = published
      /\ pubPc' = pubPc /\ removals' = removals /\ listing' = listing
  BY Zenon DEF pubVars, storageVars, cleanVars
<1>2. CountersOK' /\ IndexOK'
  BY Zenon, <1>1 DEF StoreOK, CountersOK, IndexOK
<1>3. OrderOK'
  BY Zenon, <1>1 DEF StoreOK, OrderOK
<1>4. CleaningOK'
  BY Zenon, <1>1 DEF StoreOK, CleaningOK, Spared, ToRemove
<1> QED
  BY Zenon, <1>1, <1>2, <1>3, <1>4 DEF StoreOK

LEMMA StorageStays ==
  ASSUME StoreOK, FilesOK, UNCHANGED <<pubVars, files>> PROVE StoreOK' /\ FilesOK'
<1>1. files' = files
  OBVIOUS
<1>2. /\ store' = store /\ lastId' = lastId
      /\ StoreOK'
  BY Zenon, PublisherStays
<1>3. FilesOK'
  BY Zenon, <1>1, <1>2 DEF FilesOK
<1> QED
  BY Zenon, <1>2, <1>3

-----------------------------------------------------------------------------
\* service.Update() replaces the list by the storage, or fails.
LEMMA UpdateKeeps ==
  ASSUME IInv, NEW ok \in BOOLEAN, Update(ok) PROVE IInv' /\ dbFileId' = dbFileId
<1>1. /\ store' = store /\ lastId' = lastId /\ published' = published
      /\ pubPc' = pubPc /\ vFiles' = vFiles /\ vBundles' = vBundles
      /\ dbFileId' = dbFileId /\ dbMux' = dbMux /\ indexFile' = indexFile
      /\ tries' = tries /\ handles' = handles
  BY Zenon DEF Update, pubVars, storageVars, dbVars
<1>2. files' = files \/ files' = store
  BY Zenon DEF Update
<1>3. pc["update"] = "update" /\ pc' = [pc EXCEPT !["update"] = "check"]
  BY Zenon DEF Update
<1>4. StoreOK'
  BY Zenon, PublisherStays DEF IInv, Update
<1>5. FilesOK'
  <2>1. CASE files' = files
    BY Zenon, <1>1, <2>1 DEF IInv, FilesOK
  <2>2. CASE files' = store
    <3>1. /\ \A f \in store : f.id \in 1..lastId
          /\ \A f, g \in Indexes(store) : f = g
          /\ \A f \in Indexes(store) : Whole(f, store)
      BY Zenon DEF IInv, StoreOK, CountersOK, IndexOK
    <3>2. \A f \in Indexes(store) : f.id \in 1..lastId
      BY Zenon, <3>1 DEF Indexes, Named
    <3>3. \A f, i \in Indexes(store) : f.id <= i.id /\ (f.id = i.id => f = i)
      BY SMT, <3>1, <3>2
    <3> QED
      BY Zenon, <1>1, <2>2, <3>1, <3>3 DEF FilesOK
  <2> QED
    BY Zenon, <1>2, <2>1, <2>2
<1>6. pc \in [Loop -> {"update", "check", "download", "set", "set2", "end"}]
  BY Zenon DEF IInv, LoopOK
<1>7. /\ pc' \in [Loop -> {"update", "check", "download", "set", "set2", "end"}]
      /\ pc'["init"] = pc["init"] /\ pc'["update"] = "check"
  BY SMT, <1>3, <1>6 DEF Loop
<1>8. \A g \in Loop : pc'[g] \in Busy => pc'[g] = pc[g]
  BY SMT, <1>7 DEF Loop, Busy
<1>9. \A f \in Indexes(store') \cup Indexes(files') :
        f \in Indexes(store) \cup Indexes(files)
  BY Zenon, <1>1, <1>2
<1>10. DbOK'
  <2>1. Torn' = Torn
    BY Zenon, <1>1 DEF Torn
  <2>2. Mid => Mid'
    BY SMT, <1>3, <1>7 DEF Mid, Loop
  <2> QED
    BY Zenon, <1>1, <1>9, <2>1, <2>2 DEF IInv, DbOK
<1>11. LoopOK'
  <2>1. ASSUME NEW g \in Loop, pc'[g] \in Busy PROVE Holds(g)'
    <3>1. Holds(g) /\ pc'[g] = pc[g]
      BY Zenon, <1>8, <2>1 DEF IInv, LoopOK
    <3> QED
      BY Zenon, <1>1, <1>9, <3>1 DEF Holds
  <2> QED
    BY Zenon, <1>1, <1>7, <2>1 DEF IInv, LoopOK
<1>12. HandlesOK'
  BY Zenon, <1>1 DEF IInv, HandlesOK
<1> QED
  BY Zenon, <1>1, <1>4, <1>5, <1>10, <1>11, <1>12 DEF IInv

\* checkDb takes the lock and finds nothing new, or the index of the list.
LEMMA CheckDbKeeps ==
  ASSUME IInv, NEW g \in Loop, CheckDb(g) PROVE IInv' /\ dbFileId' = dbFileId
<1>1. StoreOK' /\ FilesOK'
  BY Zenon, StorageStays DEF IInv, CheckDb
<1>2. /\ store' = store /\ lastId' = lastId /\ files' = files /\ vFiles' = vFiles
      /\ vBundles' = vBundles /\ dbFileId' = dbFileId /\ handles' = handles
  BY Zenon DEF CheckDb, pubVars, storageVars, dbVars
<1>3. HandlesOK'
  BY Zenon, <1>2 DEF IInv, HandlesOK
<1>4. ~Mid /\ \A o \in Loop : pc[o] \notin Busy
  BY Zenon, FreeIdle DEF IInv, CheckDb, CanLock, Free
<1>5. DbOK'
  <2>1. Torn' = Torn
    BY Zenon, <1>2 DEF Torn
  <2> QED
    BY Zenon, <1>2, <1>4, <2>1 DEF IInv, DbOK
<1>6. pc[g] \in {"check"} \cup Busy
  BY Zenon DEF CheckDb
<1>7. LoopOK'
  <2>1. CASE NothingNew
    BY Zenon, <1>4, <1>6, <2>1, Returns DEF IInv, CheckDb
  <2>2. CASE ~NothingNew
    <3> DEFINE index == ByName(files, IndexName)
    <3>1. /\ dbMux' = g /\ indexFile' = [indexFile EXCEPT ![g] = index]
          /\ pc' = [pc EXCEPT ![g] = "download"] /\ tries' = tries
      BY Zenon, <2>2 DEF CheckDb
    <3>2. index \in Indexes(files)
      <4>1. PICK f : f \in Indexes(files)
        BY Zenon, <2>2 DEF NothingNew, Indexes
      <4>2. \A i \in Indexes(files) : i.id <= f.id
        <5>1. f.id \in Nat
          BY SMT, <4>1 DEF IInv, FilesOK, Indexes, Named
        <5>2. \A i \in Indexes(files) : i = f
          BY Zenon, <4>1 DEF IInv, FilesOK
        <5> QED
          BY SMT, <5>1, <5>2
      <4> QED
        BY Zenon, <4>1, <4>2 DEF ByName, Indexes
    <3> HIDE DEF index
    <3>9. index.id # dbFileId
      BY Zenon, <2>2 DEF NothingNew, index
    <3>3. /\ index.id \in 1..lastId /\ dbFileId <= index.id
          /\ index.body.db \in Version
          /\ \A i \in Indexes(store) :
               index.id <= i.id /\ (index.id = i.id => i = index)
          /\ \A i \in Indexes(files) : i = index
      <4>1. index \in files
        BY Zenon, <3>2 DEF Indexes, Named
      <4> QED
        BY Zenon, <3>2, <4>1 DEF IInv, FilesOK, DbOK, Whole
    <3>4. \A i \in Indexes(store) \cup Indexes(files) :
            index.id <= i.id /\ (index.id = i.id => i = index)
      BY SMT, <3>3
    <3>5. /\ indexFile' = [o \in Loop |-> indexFile'[o]]
          /\ indexFile'[g] = index
      BY SMT, <3>1 DEF IInv, LoopOK
    <3>6. pc'[g] = "download"
      BY SMT, <3>1 DEF IInv, LoopOK
    <3>10. dbFileId < index.id
      BY SMT, <3>3, <3>9 DEF IInv, DbOK, StoreOK, CountersOK
    <3>7. Holds(g)'
      BY SMT, <1>2, <3>1, <3>3, <3>4, <3>5, <3>6, <3>10 DEF Holds
    <3>8. "download" \in Busy
      BY Zenon DEF Busy
    <3> QED
      BY Zenon, <1>4, <1>6, <3>1, <3>5, <3>7, <3>8, StaysBusy DEF IInv
  <2> QED
    BY Zenon, <2>1, <2>2
<1> QED
  BY Zenon, <1>1, <1>2, <1>3, <1>5, <1>7 DEF IInv

\* The download: only the place of the goroutine changes, or it returns.
LEMMA DownloadKeeps ==
  ASSUME IInv, NEW g \in Loop, NEW ok \in BOOLEAN, Download(g, ok)
  PROVE  IInv' /\ dbFileId' = dbFileId
<1>1. StoreOK' /\ FilesOK'
  BY Zenon, StorageStays DEF IInv, Download
<1>2. /\ store' = store /\ lastId' = lastId /\ files' = files /\ vFiles' = vFiles
      /\ vBundles' = vBundles /\ dbFileId' = dbFileId /\ handles' = handles
  BY Zenon DEF Download, pubVars, storageVars, dbVars
<1>3. HandlesOK'
  BY Zenon, <1>2 DEF IInv, HandlesOK
<1>4. pc[g] = "download" /\ pc[g] \in Busy
  BY Zenon DEF Download, Busy
<1>5. Holds(g) /\ \A o \in Loop \ {g} : pc[o] \notin Busy
  BY Zenon, <1>4, Alone DEF IInv
<1>6. ~Mid
  BY SMT, <1>4, <1>5 DEF Mid, Busy
<1>7. DbOK'
  <2>1. Torn' = Torn
    BY Zenon, <1>2 DEF Torn
  <2> QED
    BY Zenon, <1>2, <1>6, <2>1 DEF IInv, DbOK
<1>8. LoopOK'
  <2>1. CASE ok
    <3>1. /\ pc' = [pc EXCEPT ![g] = "set"]
          /\ dbMux' = dbMux /\ indexFile' = indexFile /\ tries' = tries
      BY Zenon, <2>1 DEF Download
    <3>2. pc'[g] = "set"
      BY SMT, <3>1 DEF IInv, LoopOK
    <3>3. Holds(g)'
      BY SMT, <1>2, <1>5, <3>1, <3>2 DEF Holds
    <3>4. indexFile' = [o \in Loop |-> indexFile'[o]]
      BY Zenon, <3>1 DEF IInv, LoopOK
    <3>5. "set" \in Busy /\ pc[g] \in {"check"} \cup Busy /\ dbMux' = g
      BY Zenon, <1>4, <1>5, <3>1 DEF Busy, Holds
    <3> QED
      BY Zenon, <1>5, <3>1, <3>3, <3>4, <3>5, StaysBusy DEF IInv
  <2>2. CASE ~ok
    <3>1. AfterCheck(g, FALSE)
      BY Zenon, <2>2 DEF Download
    <3> QED
      BY Zenon, <1>4, <1>5, <3>1, Returns DEF IInv
  <2> QED
    BY Zenon, <2>1, <2>2
<1> QED
  BY Zenon, <1>1, <1>2, <1>3, <1>7, <1>8 DEF IInv

\* The first half of the assignment.
LEMMA SetVFilesKeeps ==
  ASSUME IInv, NEW g \in Loop, SetVFiles(g) PROVE IInv' /\ dbFileId' = dbFileId
<1>1. StoreOK' /\ FilesOK'
  BY Zenon, StorageStays DEF IInv, SetVFiles
<1>2. /\ store' = store /\ lastId' = lastId /\ files' = files
      /\ vBundles' = vBundles /\ dbFileId' = dbFileId /\ handles' = handles
      /\ dbMux' = dbMux /\ indexFile' = indexFile /\ tries' = tries
  BY Zenon DEF SetVFiles, pubVars, storageVars
<1>3. /\ pc[g] = "set" /\ pc' = [pc EXCEPT ![g] = "set2"]
      /\ vFiles' = indexFile[g].body.db.VFiles
  BY Zenon DEF SetVFiles
<1>4. HandlesOK'
  BY Zenon, <1>2 DEF IInv, HandlesOK
<1>5. pc[g] \in Busy /\ "set2" \in Busy
  BY Zenon, <1>3 DEF Busy
<1>6. Holds(g) /\ \A o \in Loop \ {g} : pc[o] \notin Busy
  BY Zenon, <1>5, Alone DEF IInv
<1>7. Holds(g)'
  BY SMT, <1>2, <1>3, <1>6 DEF Holds
<1>8. LoopOK' /\ Mid'
  <2>1. /\ indexFile' = [o \in Loop |-> indexFile'[o]] /\ dbMux' = g
        /\ pc[g] \in {"check"} \cup Busy
    BY Zenon, <1>2, <1>5, <1>6 DEF IInv, LoopOK, Holds
  <2> QED
    BY Zenon, <1>2, <1>3, <1>5, <1>6, <1>7, <2>1, StaysBusy DEF IInv
<1>9. DbOK'
  BY Zenon, <1>2, <1>8 DEF IInv, DbOK
<1> QED
  BY Zenon, <1>1, <1>2, <1>4, <1>8, <1>9 DEF IInv

\* The second half, and the id: the db is now that of the index.
LEMMA SetBundlesKeeps ==
  ASSUME IInv, NEW g \in Loop, SetBundles(g) PROVE IInv' /\ dbFileId' >= dbFileId
<1>1. StoreOK' /\ FilesOK'
  BY Zenon, StorageStays DEF IInv, SetBundles
<1>2. /\ store' = store /\ lastId' = lastId /\ files' = files
      /\ vFiles' = vFiles /\ handles' = handles
  BY Zenon DEF SetBundles, pubVars, storageVars
<1>3. /\ pc[g] = "set2" /\ vBundles' = indexFile[g].body.db.Bundles
      /\ dbFileId' = indexFile[g].id /\ AfterCheck(g, TRUE)
  BY Zenon DEF SetBundles, IdOfDb
<1>4. HandlesOK'
  BY Zenon, <1>2 DEF IInv, HandlesOK
<1>5. pc[g] \in Busy
  BY Zenon, <1>3 DEF Busy
<1>6. Holds(g) /\ \A o \in Loop \ {g} : pc[o] \notin Busy
  BY Zenon, <1>5, Alone DEF IInv
<1>7. LoopOK'
  BY Zenon, <1>3, <1>5, <1>6, Returns DEF IInv
<1>8. Torn' = indexFile[g].body.db
  <2>1. vFiles' = indexFile[g].body.db.VFiles /\ indexFile[g].body.db \in Version
    BY Zenon, <1>2, <1>3, <1>6 DEF Holds
  <2> QED
    BY Zenon, <1>3, <2>1, VersionOK DEF Torn
<1>9. /\ dbFileId' >= dbFileId
      /\ dbFileId' \in 0..lastId'
  BY SMT, <1>2, <1>3, <1>6 DEF Holds, IInv, DbOK, StoreOK, CountersOK
<1>10. DbOK'
  <2>1. ASSUME NEW f \in Indexes(store') \cup Indexes(files')
        PROVE  dbFileId' <= f.id /\ (f.id = dbFileId' => f.body.db = Torn')
    <3>1. indexFile[g].id <= f.id /\ (indexFile[g].id = f.id => f = indexFile[g])
      BY Zenon, <1>2, <1>6, <2>1 DEF Holds
    <3> QED
      BY Zenon, <1>3, <1>8, <3>1
  <2> QED
    BY Zenon, <1>9, <2>1 DEF DbOK
<1> QED
  BY Zenon, <1>1, <1>4, <1>7, <1>9, <1>10 DEF IInv

\* A request changes one handle.
LEMMA RequestKeeps ==
  ASSUME IInv, NEW h \in Handle, Request(h) PROVE IInv' /\ dbFileId' = dbFileId
<1>1. UNCHANGED <<pubVars, files, dbVars, loopVars>>
  BY Zenon DEF Request, OpenHandle, FirstRead, CloseHandle
<1>2. StoreOK' /\ FilesOK'
  BY Zenon, <1>1, StorageStays DEF IInv
<1>3. /\ store' = store /\ lastId' = lastId /\ files' = files /\ vFiles' = vFiles
      /\ vBundles' = vBundles /\ dbFileId' = dbFileId /\ dbMux' = dbMux
      /\ pc' = pc /\ indexFile' = indexFile /\ tries' = tries
  BY Zenon, <1>1 DEF pubVars, storageVars, dbVars, loopVars
<1>4. DbOK'
  BY Zenon, <1>3 DEF IInv, DbOK, Mid, Torn
<1>5. LoopOK'
  <2>1. ASSUME NEW g \in Loop, Holds(g) PROVE Holds(g)'
    BY Zenon, <1>3, <2>1 DEF Holds
  <2> QED
    BY Zenon, <1>3, <2>1 DEF IInv, LoopOK
<1>6. \E r : /\ handles' = [handles EXCEPT ![h] = r]
             /\ r.state \in {"closed", "open", "read"}
  <2>1. CASE \E p \in Path : OpenHandle(h, p)
    <3>1. PICK p \in Path : OpenHandle(h, p)
      BY Zenon, <2>1
    <3> DEFINE r == [state |-> "open", path |-> p, virtFile |-> vFiles[p],
                     from |-> dbFileId]
    <3>2. handles' = [handles EXCEPT ![h] = r]
      BY Zenon, <3>1 DEF OpenHandle
    <3>3. r.state = "open"
      BY SMT
    <3> HIDE DEF r
    <3> QED
      BY Zenon, <3>2, <3>3
  <2>2. CASE FirstRead(h)
    <3>1. PICK got :
            handles' = [handles EXCEPT ![h] =
              [state |-> "read", path |-> handles[h].path,
               virtFile |-> handles[h].virtFile, from |-> handles[h].from,
               same |-> handles[h].from = dbFileId /\ dbMux = "free", got |-> got]]
      BY Zenon, <2>2 DEF FirstRead
    <3> DEFINE r ==
          [state |-> "read", path |-> handles[h].path,
           virtFile |-> handles[h].virtFile, from |-> handles[h].from,
           same |-> handles[h].from = dbFileId /\ dbMux = "free", got |-> got]
    <3>2. handles' = [handles EXCEPT ![h] = r]
      BY Zenon, <3>1
    <3>3. r.state = "read"
      BY SMT
    <3> HIDE DEF r
    <3> QED
      BY Zenon, <3>2, <3>3
  <2>3. CASE CloseHandle(h)
    <3>1. Closed.state = "closed"
      BY SMT DEF Closed
    <3> QED
      BY Zenon, <2>3, <3>1 DEF CloseHandle
  <2> QED
    BY Zenon, <2>1, <2>2, <2>3 DEF Request
<1>7. HandlesOK'
  <2>1. PICK r : /\ handles' = [handles EXCEPT ![h] = r]
                 /\ r.state \in {"closed", "open", "read"}
    BY Zenon, <1>6
  <2> QED
    BY SMT, <2>1 DEF IInv, HandlesOK
<1> QED
  BY Zenon, <1>2, <1>3, <1>4, <1>5, <1>7 DEF IInv

-----------------------------------------------------------------------------
\* One step per action; the id of the db grows or stays.
LEMMA NextKeeps ==
  ASSUME IInv, [Next]_vars PROVE IInv' /\ dbFileId' >= dbFileId
<1>1. dbFileId \in Nat
  BY SMT DEF IInv, DbOK, StoreOK, CountersOK
<1>2. dbFileId' = dbFileId => dbFileId' >= dbFileId
  BY SMT, <1>1
<1>3. CASE Publisher
  <2>1. dbFileId' = dbFileId
    BY Zenon, <1>3 DEF Publisher, dbVars
  <2> QED
    BY Zenon, <1>2, <1>3, <2>1, PublisherKeeps
<1>4. ASSUME NEW g \in Loop, LoopStep(g) PROVE IInv' /\ dbFileId' >= dbFileId
  BY Zenon, <1>2, <1>4, UpdateKeeps, CheckDbKeeps, DownloadKeeps, SetVFilesKeeps,
     SetBundlesKeeps DEF LoopStep
<1>5. ASSUME NEW h \in Handle, Request(h) PROVE IInv' /\ dbFileId' >= dbFileId
  BY Zenon, <1>2, <1>5, RequestKeeps
<1>6. CASE UNCHANGED vars
  <2>1. UNCHANGED <<pubVars, files, dbVars, loopVars, handles>>
    BY Zenon, <1>6 DEF vars
  <2>2. StoreOK' /\ FilesOK'
    BY Zenon, <2>1, StorageStays DEF IInv
  <2>3. /\ store' = store /\ lastId' = lastId /\ files' = files
        /\ vFiles' = vFiles /\ vBundles' = vBundles /\ dbFileId' = dbFileId
        /\ dbMux' = dbMux /\ pc' = pc /\ indexFile' = indexFile /\ tries' = tries
        /\ handles' = handles
    BY Zenon, <2>1 DEF pubVars, storageVars, dbVars, loopVars
  <2>4. DbOK' /\ HandlesOK'
    BY Zenon, <2>3 DEF IInv, DbOK, Mid, Torn, HandlesOK
  <2>5. ASSUME NEW g \in Loop, Holds(g) PROVE Holds(g)'
    BY Zenon, <2>3, <2>5 DEF Holds
  <2>6. LoopOK'
    BY Zenon, <2>3, <2>5 DEF IInv, LoopOK
  <2> QED
    BY Zenon, <1>2, <2>2, <2>3, <2>4, <2>6 DEF IInv
<1> QED
  BY Zenon, <1>3, <1>4, <1>5, <1>6 DEF Next

\* The inductive invariant holds in every state.
THEOREM Invariant == Spec => []IInv
<1>1. Init => IInv
  BY InitIInv
<1>2. IInv /\ [Next]_vars => IInv'
  BY NextKeeps
<1> QED
  BY <1>1, <1>2, PTL DEF Spec

\* The variables keep their types: the ids of the list and of the db are ids
\* that were given out, and the init loop does not exceed its rounds.
THEOREM TypeCorrect == Spec => []TypeOK
<1>1. IInv => TypeOK
  BY Zenon DEF IInv, StoreOK, CountersOK, FilesOK, DbOK, LoopOK, HandlesOK, TypeOK
<1> QED
  BY <1>1, Invariant, PTL

\* checkDb: outside the lock, both halves of the db belong to the id kept with it.
THEOREM DbBelongsToId == Spec => []DbMatchesId
<1>1. IInv => DbMatchesId
  <2>1. SUFFICES ASSUME IInv, Free, NEW f \in Indexes(store \cup files),
                        f.id = dbFileId
                 PROVE  f.body.db = Torn
    BY Zenon DEF DbMatchesId
  <2>2. ~Mid
    BY Zenon, <2>1, FreeIdle DEF IInv
  <2>3. f \in Indexes(store) \cup Indexes(files)
    BY Zenon, <2>1 DEF Indexes, Named
  <2> QED
    BY Zenon, <2>1, <2>2, <2>3 DEF IInv, DbOK
<1> QED
  BY <1>1, Invariant, PTL

\* What the db names is in the storage while its index is, and in each list that
\* has that index: it is published after all it names, and no Trash of Clean takes
\* the last copy of anything it names, whichever file comes next.
THEOREM ServedData == Spec => []ServedIsComplete
<1>1. IInv => ServedIsComplete
  <2>1. SUFFICES ASSUME IInv, Free, NEW fs \in {store, files},
                        NEW f \in Indexes(fs), f.id = dbFileId,
                        NEW part \in AllDbParts(Torn)
                 PROVE  ByAttr(fs, part) # {}
    BY Zenon DEF ServedIsComplete
  <2>2. ~Mid
    BY Zenon, <2>1, FreeIdle DEF IInv
  <2>3. f.body.db = Torn
    BY Zenon, <2>1, <2>2 DEF IInv, DbOK
  <2>4. Covered(f.body.db, fs)
    BY Zenon, <2>1 DEF IInv, StoreOK, IndexOK, FilesOK, Whole
  <2> QED
    BY Zenon, <2>1, <2>3, <2>4 DEF Covered
<1> QED
  BY <1>1, Invariant, PTL

\* Whatever the two goroutines download and however long it takes, the server
\* never goes back to an older index.
THEOREM NeverGoesBack == Spec => NeverOlder
<1>1. IInv /\ [Next]_vars => [dbFileId' >= dbFileId]_vars
  BY NextKeeps
<1> QED
  BY <1>1, Invariant, PTL DEF Spec, NeverOlder


-----------------------------------------------------------------------------
(***************************************************************************)
(* What a request reads.  Bundles hold what their names say, wherever they *)
(* are listed; an open file belongs to the db whose id it remembers; and a *)
(* new id is never one that an open file remembers.                        *)
(***************************************************************************)
TornOK == Mid \/ Torn \in Version \/ DOMAIN vFiles = {}

OpenOK(h) ==
  handles[h].state = "open" =>
    /\ handles[h].from \in 0..dbFileId
    /\ handles[h].from = dbFileId /\ ~Mid =>
         /\ handles[h].path \in DOMAIN vFiles
         /\ handles[h].virtFile = vFiles[handles[h].path]

ReadOK(h) ==
  (handles[h].state = "read" /\ handles[h].same)
    => handles[h].got = ScannedContent(handles[h].virtFile)

RInv == /\ RightStored(store) /\ RightStored(files) /\ TornOK
        /\ \A h \in Handle : OpenOK(h) /\ ReadOK(h)

\* What the publisher saves under the name of a bundle.
LEMMA BodyIsRight ==
  ASSUME NEW db \in Version, NEW part \in AllDbParts(db),
         part.StorageName.kind = "bundle"
  PROVE  BodyOf(db, part) = Stored(RightBytes(part.StorageName.plain))
<1>1. WellFormed(db)
  BY Zenon, VersionOK
<1>2. ~(\E p \in DOMAIN db.VFiles : part \in ToSet(db.VFiles[p].Parts))
  <2>1. SUFFICES ASSUME NEW p \in DOMAIN db.VFiles, part \in ToSet(db.VFiles[p].Parts)
                 PROVE  FALSE
    BY Zenon
  <2>2. PICK content \in Seq(Chunk) : ScanOf(db.VFiles[p], content)
    BY Zenon, <1>1 DEF WellFormed
  <2>3. PICK i \in 1..Len(content) :
          part = VFilePart(content[i], UseCompression(content))
    BY <2>1, <2>2, ScanParts DEF ToSet
  <2>4. part.StorageName = PartName(content[i])
    BY <2>3 DEF VFilePart
  <2> QED
    BY <2>4 DEF PartName
<1>3. PICK id \in DOMAIN db.Bundles : part = AsPart(db.Bundles[id])
  BY Zenon, <1>2 DEF AllDbParts
<1>4. /\ part.StorageName = db.Bundles[id].StorageName
      /\ part.StorageMd5 = db.Bundles[id].StorageMd5
  BY SMT, <1>3 DEF AsPart
<1>5. part.StorageName = id /\ part.StorageMd5 = AnyMd5
  BY Zenon, <1>1, <1>4 DEF WellFormed
<1>6. GroupBytes(db.VFiles, db.Bundles[id].Content)
        = RightBytes(db.Bundles[id].StorageName.plain)
  BY Zenon, <1>1, BundleBytes
<1> QED
  BY Zenon, <1>4, <1>5, <1>6 DEF BodyOf

LEMMA PublisherSavesRight ==
  ASSUME IInv, RightStored(store), Publisher PROVE RightStored(store')
<1>1. CASE PublishPart
  <2> DEFINE db == Versions[published + 1]
             part == CHOOSE part \in Missing(db) : TRUE
  <2>1. db \in Version
    BY SMT, <1>1, WebdavAssumption
       DEF IInv, StoreOK, CountersOK, PublishPart, Version
  <2>2. CASE Missing(db) = {}
    BY Zenon, <1>1, <2>2 DEF PublishPart, storageVars
  <2>3. CASE Missing(db) # {}
    <3>1. Save(part.StorageName, part.StorageSize, BodyOf(db, part))
      BY Zenon, <1>1, <2>3 DEF PublishPart
    <3>2. part \in AllDbParts(db)
      BY Zenon, <2>3 DEF Missing
    <3> HIDE DEF db, part
    <3>3. part.StorageName.kind = "bundle"
            => BodyOf(db, part) = Stored(RightBytes(part.StorageName.plain))
      BY Zenon, <2>1, <3>2, BodyIsRight
    <3> QED
      BY Zenon, <3>1, <3>3, SavedIsRight
  <2> QED
    BY Zenon, <2>2, <2>3
<1>2. CASE PublishIndex
  <2>1. CASE pubPc = "trash"
    <3>1. store' \subseteq store
      BY SMT, <1>2, <2>1 DEF PublishIndex
    <3> QED
      BY Zenon, <3>1 DEF RightStored
  <2>2. CASE pubPc # "trash"
    <3>1. Save(IndexName, 1, [nonce |-> lastId + 1, db |-> Versions[published + 1]])
      BY Zenon, <1>2, <2>2 DEF PublishIndex
    <3>2. IndexName.kind # "bundle"
      BY SMT DEF IndexName
    <3> QED
      BY Zenon, <3>1, <3>2, SavedIsRight
  <2> QED
    BY Zenon, <2>1, <2>2
<1>3. CASE PublishClean
  <2>1. store' \subseteq store
    BY Zenon, <1>3 DEF PublishClean, storageVars, Cleaner!CallClean,
       Cleaner!RemoveNext, Cleaner!Trash, Cleaner!CleanReturn, Cleaner!CleanAbort,
       Cleaner!storageVars
  <2> QED
    BY Zenon, <2>1 DEF RightStored
<1> QED
  BY Zenon, <1>1, <1>2, <1>3 DEF Publisher


\* A step that leaves the db and the handles alone, and does not end an
\* assignment.
LEMMA ReadsStay ==
  ASSUME RInv, UNCHANGED <<dbVars, handles>>, Mid => Mid',
         RightStored(store'), RightStored(files')
  PROVE  RInv'
<1>1. /\ vFiles' = vFiles /\ vBundles' = vBundles /\ dbFileId' = dbFileId
      /\ handles' = handles
  BY Zenon DEF dbVars
<1>2. TornOK'
  BY Zenon, <1>1 DEF RInv, TornOK, Torn
<1>3. \A h \in Handle : OpenOK(h)' /\ ReadOK(h)'
  BY Zenon, <1>1 DEF RInv, OpenOK, ReadOK
<1> QED
  BY Zenon, <1>2, <1>3 DEF RInv

\* The steps of the goroutines before the assignment.
LEMMA LoopReads ==
  ASSUME IInv, RInv, NEW g \in Loop, NEW ok \in BOOLEAN,
         (g = "update" /\ Update(ok)) \/ CheckDb(g) \/ Download(g, ok)
  PROVE  RInv'
<1>1. UNCHANGED <<dbVars, handles>> /\ UNCHANGED store
  BY Zenon DEF Update, CheckDb, Download, pubVars, storageVars
<1>2. files' = files \/ files' = store
  BY Zenon DEF Update, CheckDb, Download
<1>3. RightStored(store') /\ RightStored(files')
  BY Zenon, <1>1, <1>2 DEF RInv
<1>4. Mid => Mid'
  <2>1. CASE g = "update" /\ Update(ok)
    BY SMT, <2>1 DEF Update, Mid, Loop, IInv, LoopOK
  <2>2. CASE CheckDb(g)
    BY Zenon, <2>2, FreeIdle DEF IInv, CheckDb, CanLock, Free
  <2>3. CASE Download(g, ok)
    <3>1. pc[g] = "download" /\ pc[g] \in Busy
      BY Zenon, <2>3 DEF Download, Busy
    <3>2. \A o \in Loop \ {g} : pc[o] \notin Busy
      BY Zenon, <3>1, Alone DEF IInv
    <3> QED
      BY SMT, <3>1, <3>2 DEF Mid, Busy
  <2> QED
    BY Zenon, <2>1, <2>2, <2>3
<1> QED
  BY Zenon, <1>1, <1>3, <1>4, ReadsStay

\* The assignment: torn in the middle, another id at its end.
LEMMA AssignReads ==
  ASSUME IInv, IInv', RInv, NEW g \in Loop, SetVFiles(g) \/ SetBundles(g)
  PROVE  RInv'
<1>1. UNCHANGED <<store, files, handles>>
  BY Zenon DEF SetVFiles, SetBundles, pubVars, storageVars
<1>2. RightStored(store') /\ RightStored(files')
  BY Zenon, <1>1 DEF RInv
<1>3. \A h \in Handle : ReadOK(h)'
  BY Zenon, <1>1 DEF RInv, ReadOK
<1>4. CASE SetVFiles(g)
  <2>1. pc' = [pc EXCEPT ![g] = "set2"] /\ dbFileId' = dbFileId
    BY Zenon, <1>4 DEF SetVFiles
  <2>2. Mid'
    BY SMT, <2>1 DEF Mid, IInv, LoopOK
  <2>3. \A h \in Handle : OpenOK(h)'
    BY Zenon, <1>1, <2>1, <2>2 DEF RInv, OpenOK
  <2> QED
    BY Zenon, <1>2, <1>3, <2>2, <2>3 DEF RInv, TornOK
<1>5. CASE SetBundles(g)
  <2>1. /\ pc[g] = "set2" /\ vBundles' = indexFile[g].body.db.Bundles
        /\ dbFileId' = indexFile[g].id /\ vFiles' = vFiles
    BY Zenon, <1>5 DEF SetBundles, IdOfDb
  <2>2. Holds(g)
    BY Zenon, <2>1, Alone DEF IInv, Busy
  <2>3. Torn' \in Version
    <3>1. vFiles' = indexFile[g].body.db.VFiles /\ indexFile[g].body.db \in Version
      BY Zenon, <2>1, <2>2 DEF Holds
    <3>2. Torn' = indexFile[g].body.db
      BY Zenon, <2>1, <3>1, VersionOK DEF Torn
    <3> QED
      BY Zenon, <3>1, <3>2
  <2>4. dbFileId < dbFileId' /\ dbFileId \in Nat /\ dbFileId' \in Nat
    BY SMT, <2>1, <2>2 DEF Holds, IInv, DbOK, StoreOK, CountersOK
  <2>5. ASSUME NEW h \in Handle PROVE OpenOK(h)'
    <3>1. handles[h].state = "open" => handles[h].from \in 0..dbFileId
      BY Zenon DEF RInv, OpenOK
    <3>2. handles[h].state = "open"
            => handles[h].from \in 0..dbFileId' /\ handles[h].from # dbFileId'
      BY SMT, <2>4, <3>1
    <3> QED
      BY Zenon, <1>1, <3>2 DEF OpenOK
  <2> QED
    BY Zenon, <1>2, <1>3, <2>3, <2>5 DEF RInv, TornOK
<1> QED
  BY Zenon, <1>4, <1>5

\* The first Read: with the db of the handle, Open gives the file's content.
LEMMA ReadStep ==
  ASSUME IInv, RInv, NEW h \in Handle, OpenOK(h), handles[h].state = "open",
         handles[h].from = dbFileId, Free,
         NEW got \in Open(handles[h].path, handles[h].virtFile, Torn, files) \ {Failed}
  PROVE  got = ScannedContent(handles[h].virtFile)
<1> DEFINE p == handles[h].path
<1>1. ~Mid
  BY Zenon, FreeIdle DEF IInv
<1>2. p \in DOMAIN vFiles /\ handles[h].virtFile = vFiles[p]
  BY Zenon, <1>1 DEF OpenOK
<1>3. Torn \in Version
  BY Zenon, <1>1, <1>2 DEF RInv, TornOK
<1>4. WellFormed(Torn) /\ RightStored(files)
  BY Zenon, <1>3, VersionOK DEF RInv
<1>5. Torn.VFiles = vFiles
  BY SMT DEF Torn
<1> HIDE DEF p
<1>6. p \in DOMAIN Torn.VFiles /\ handles[h].virtFile = Torn.VFiles[p]
  BY Zenon, <1>2, <1>5
<1>7. Open(p, Torn.VFiles[p], Torn, files)
        \subseteq {Failed, ScannedContent(Torn.VFiles[p])}
  BY Zenon, <1>4, <1>6, OpenIsRight
<1> QED
  BY Zenon, <1>6, <1>7 DEF p

LEMMA RequestReads ==
  ASSUME IInv, RInv, NEW h \in Handle, Request(h) PROVE RInv'
<1>1. UNCHANGED <<store, files, dbVars, pc>>
  BY Zenon DEF Request, OpenHandle, FirstRead, CloseHandle, pubVars, storageVars,
     loopVars
<1>2. /\ vFiles' = vFiles /\ vBundles' = vBundles /\ dbFileId' = dbFileId
      /\ pc' = pc /\ Mid' = Mid /\ TornOK'
  BY Zenon, <1>1 DEF dbVars, Mid, RInv, TornOK, Torn
<1>3. RightStored(store') /\ RightStored(files')
  BY Zenon, <1>1 DEF RInv
<1>4. \E r : handles' = [handles EXCEPT ![h] = r]
  BY Zenon DEF Request, OpenHandle, FirstRead, CloseHandle
<1>5. \A o \in Handle \ {h} : handles'[o] = handles[o]
  BY SMT, <1>4 DEF IInv, HandlesOK
<1>6. OpenOK(h)' /\ ReadOK(h)'
  <2>1. CASE \E p \in Path : OpenHandle(h, p)
    <3>1. PICK p \in Path : OpenHandle(h, p)
      BY Zenon, <2>1
    <3>2. /\ handles'[h].state = "open" /\ handles'[h].path = p
          /\ handles'[h].virtFile = vFiles[p] /\ handles'[h].from = dbFileId
      BY SMT, <3>1 DEF OpenHandle, IInv, HandlesOK
    <3>3. dbFileId \in 0..dbFileId /\ p \in DOMAIN vFiles
      BY SMT, <3>1 DEF OpenHandle, IInv, DbOK, StoreOK, CountersOK
    <3>4. handles'[h].state # "read"
      BY SMT, <3>2
    <3> QED
      BY Zenon, <1>2, <3>2, <3>3, <3>4 DEF OpenOK, ReadOK
  <2>2. CASE FirstRead(h)
    <3>1. PICK got \in Open(handles[h].path, handles[h].virtFile, Torn, files) \ {Failed} :
            handles' = [handles EXCEPT ![h] =
              [state |-> "read", path |-> handles[h].path,
               virtFile |-> handles[h].virtFile, from |-> handles[h].from,
               same |-> handles[h].from = dbFileId /\ dbMux = "free", got |-> got]]
      BY Zenon, <2>2 DEF FirstRead
    <3>2. /\ handles'[h].state = "read" /\ handles'[h].virtFile = handles[h].virtFile
          /\ handles'[h].same = (handles[h].from = dbFileId /\ dbMux = "free")
          /\ handles'[h].got = got
      BY SMT, <3>1 DEF IInv, HandlesOK
    <3>3. handles[h].state = "open"
      BY Zenon, <2>2 DEF FirstRead
    <3>4. handles'[h].same => got = ScannedContent(handles[h].virtFile)
      BY Zenon, <3>2, <3>3, ReadStep DEF RInv, Free
    <3>5. handles'[h].state # "open"
      BY SMT, <3>2
    <3> QED
      BY Zenon, <3>2, <3>4, <3>5 DEF OpenOK, ReadOK
  <2>3. CASE CloseHandle(h)
    <3>1. handles'[h] = Closed
      BY SMT, <2>3 DEF CloseHandle, IInv, HandlesOK
    <3>2. Closed.state # "open" /\ Closed.state # "read"
      BY SMT DEF Closed
    <3> QED
      BY Zenon, <3>1, <3>2 DEF OpenOK, ReadOK
  <2> QED
    BY Zenon, <2>1, <2>2, <2>3 DEF Request
<1>7. ASSUME NEW o \in Handle \ {h} PROVE OpenOK(o)' /\ ReadOK(o)'
  BY Zenon, <1>2, <1>5 DEF RInv, OpenOK, ReadOK
<1> QED
  BY Zenon, <1>2, <1>3, <1>6, <1>7 DEF RInv

LEMMA InitReads == Init => RInv
<1> SUFFICES ASSUME Init PROVE RInv
  OBVIOUS
<1>1. RightStored(store) /\ RightStored(files)
  BY Zenon DEF Init, RightStored
<1>2. DOMAIN vFiles = {}
  BY SMT DEF Init
<1>3. \A h \in Handle : handles[h].state # "open" /\ handles[h].state # "read"
  BY SMT DEF Init, Closed
<1> QED
  BY Zenon, <1>1, <1>2, <1>3 DEF RInv, TornOK, OpenOK, ReadOK

LEMMA ReadsKeep == ASSUME IInv, IInv', RInv, [Next]_vars PROVE RInv'
<1>1. CASE Publisher
  <2>1. UNCHANGED <<files, dbVars, pc, handles>>
    BY Zenon, <1>1 DEF Publisher, loopVars
  <2>2. RightStored(store') /\ RightStored(files')
    BY Zenon, <1>1, <2>1, PublisherSavesRight DEF RInv
  <2>3. Mid => Mid'
    BY Zenon, <2>1 DEF Mid
  <2> QED
    BY Zenon, <2>1, <2>2, <2>3, ReadsStay
<1>2. ASSUME NEW g \in Loop, LoopStep(g) PROVE RInv'
  <2>1. TRUE \in BOOLEAN
    OBVIOUS
  <2> QED
    BY Zenon, <1>2, <2>1, LoopReads, AssignReads DEF LoopStep
<1>3. ASSUME NEW h \in Handle, Request(h) PROVE RInv'
  BY Zenon, <1>3, RequestReads
<1>4. CASE UNCHANGED vars
  <2>1. UNCHANGED <<store, files, dbVars, pc, handles>>
    BY Zenon, <1>4 DEF vars, pubVars, storageVars, loopVars
  <2>2. RightStored(store') /\ RightStored(files') /\ (Mid => Mid')
    BY Zenon, <2>1 DEF RInv, Mid
  <2> QED
    BY Zenon, <2>1, <2>2, ReadsStay
<1> QED
  BY Zenon, <1>1, <1>2, <1>3, <1>4 DEF Next

\* A file that is opened and first read under the same db is read right or not
\* at all, whichever versions were published meanwhile and after any number of
\* Clean's removals, for any number of files, bundles and handles, and with any
\* old list.
THEOREM FreshReadsAreRight == Spec => []FreshReadIsRight
<1>1. RInv => FreshReadIsRight
  BY Zenon DEF RInv, ReadOK, FreshReadIsRight
<1>2. IInv /\ IInv' /\ RInv /\ [Next]_vars => RInv'
  BY ReadsKeep
<1> QED
  BY <1>1, <1>2, InitReads, Invariant, PTL DEF Spec

=============================================================================

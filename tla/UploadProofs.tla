---------------------------- MODULE UploadProofs ----------------------------
(***************************************************************************)
(* Proofs about Upload, for all values of its constants.                   *)
(***************************************************************************)
EXTENDS PublishedReads, OpenFileProofs

\* The parts of the file at a path are those of a scan of the content.
Scanned(p, content) ==
  /\ Len(vDB.VFiles[p].Parts) = Len(content)
  /\ \A i \in 1..Len(content) :
       vDB.VFiles[p].Parts[i] = VFilePart(content[i], vDB.VFiles[p].UseCompression)

HandleOK ==
  pc = "part" => /\ file \in todo
                 /\ partNo \in 1..Len(vFile.Parts)
                 /\ file \notin touched => Scanned(file, fh)

FilesUnchanged ==
  Running => \A p \in DOMAIN vDB.VFiles \ touched :
               p \in DOMAIN disk /\ Scanned(p, disk[p])

NotIndex(db) == \A part \in AllDbParts(db) : part.StorageName # IndexName

Here(part) == Present(part, vDB, touched)

StoreOK ==
  /\ \A f \in Named(store, IndexName) : f.id \in DOMAIN excuse /\ NotIndex(f.body.db)
  /\ \A f \in listing : f \in store \/ f.name = IndexName
  /\ \A f \in oldDbs : f.name = IndexName

BundlesOK ==
  \A id \in DOMAIN vDB.Bundles : /\ vDB.Bundles[id].StorageMd5 = AnyMd5
                                 /\ vDB.Bundles[id].StorageName # IndexName

Progress ==
  /\ \A part \in uploadedParts : Here(part) /\ part.StorageName # IndexName
  /\ \A p \in DOMAIN vDB.VFiles \ todo :
       \A i \in 1..Len(vDB.VFiles[p].Parts) : Here(vDB.VFiles[p].Parts[i])
  /\ pc = "part" => \A i \in 1..(partNo - 1) : Here(vFile.Parts[i])
  /\ \A id \in DOMAIN vDB.Bundles \ bundles : Here(AsPart(vDB.Bundles[id]))
  /\ pc \in {"bundle", "build", "db"} => todo = {}
  /\ pc = "build" => building \in bundles
  /\ pc = "db" => bundles = {}

IInv == /\ TypeOK /\ HandleOK /\ FilesUnchanged /\ StoreOK /\ BundlesOK
        /\ Progress /\ IndexComplete

-----------------------------------------------------------------------------
(***************************************************************************)
(* What a scan and MakeBundles return.                                     *)
(***************************************************************************)
LEMMA ScanFacts ==
  ASSUME NEW content \in Seq(Chunk)
  PROVE  LET f == ScanFile(content)
         IN  /\ f.Parts \in Seq(Part)
             /\ Len(f.Parts) = Len(content)
             /\ \A i \in 1..Len(content) :
                  f.Parts[i] = VFilePart(content[i], f.UseCompression)
<1> DEFINE compr == UseCompression(content)
<1>1. compr \in BOOLEAN
  BY DEF UseCompression
<1>2. \A i \in 1..Len(content) : VFilePart(content[i], compr) \in Part
  BY <1>1 DEF Part
<1> HIDE DEF compr
<1>3. [i \in 1..Len(content) |-> VFilePart(content[i], compr)] \in Seq(Part)
  BY <1>2
<1>4. QED
  BY <1>3 DEF ScanFile, compr

\* Parts and bundles are never named like the index.
LEMMA PartFacts ==
  ASSUME NEW part \in Part
  PROVE  part.StorageName # IndexName /\ AsPart(part) = part
<1>1. PICK c \in Chunk, compr \in BOOLEAN : part = VFilePart(c, compr)
  BY DEF Part
<1>2. part.StorageName = PartName(c)
  BY <1>1 DEF VFilePart
<1>3. part.StorageName # IndexName
  BY <1>2 DEF PartName, IndexName
<1>4. AsPart(part) = part
  BY <1>1 DEF VFilePart, AsPart
<1>5. QED
  BY <1>3, <1>4

LEMMA NotIndexNow ==
  ASSUME TypeOK, BundlesOK
  PROVE  NotIndex(vDB)
<1>1. SUFFICES ASSUME NEW part \in AllDbParts(vDB)
               PROVE  part.StorageName # IndexName
  BY DEF NotIndex
<1>2. CASE \E p \in DOMAIN vDB.VFiles : part \in ToSet(vDB.VFiles[p].Parts)
  <2>1. PICK p \in DOMAIN vDB.VFiles : part \in ToSet(vDB.VFiles[p].Parts)
    BY <1>2
  <2>2. vDB.VFiles[p].Parts \in Seq(Part)
    BY DEF TypeOK
  <2>3. part \in Part
    BY <2>1, <2>2 DEF ToSet
  <2>4. QED
    BY <2>3, PartFacts
<1>3. CASE \E id \in DOMAIN vDB.Bundles : part = AsPart(vDB.Bundles[id])
  BY <1>3 DEF BundlesOK, AsPart
<1>4. QED
  BY <1>2, <1>3 DEF AllDbParts

\* What is present stays so when no file of its name is taken away and when
\* more edits are excused.
LEMMA PresentKept ==
  ASSUME NEW part, NEW db, NEW T, NEW U, T \subseteq U,
         \A f \in store : f.name = part.StorageName => f \in store',
         Present(part, db, T)
  PROVE  Present(part, db, U)'
  BY DEF Present, ByAttr

LEMMA HereKept ==
  ASSUME NEW part, touched \subseteq touched', UNCHANGED vDB,
         \A f \in store : f.name = part.StorageName => f \in store',
         Here(part)
  PROVE  Here(part)'
  BY DEF Here, Present, ByAttr

\* What exists answers for the parts and bundles of a db.
LEMMA ExistsIsHere ==
  ASSUME StoreOK, NEW part, part.StorageName # IndexName,
         \A p \in uploadedParts : Here(p),
         AsPart(part) = part \/ part.StorageMd5 = AnyMd5,
         Exists(part)
  PROVE  Here(AsPart(part))
<1>1. CASE AsPart(part) \in uploadedParts
  BY <1>1
<1>2. CASE ByAttr(listing, part) # {}
  <2>1. PICK f \in listing : /\ f.name = part.StorageName
                             /\ f.size = part.StorageSize
                             /\ part.StorageMd5 \in {AnyMd5, f.body}
    BY <1>2 DEF ByAttr
  <2>2. f \in store
    BY <2>1 DEF StoreOK
  <2>3. QED
    BY <2>1, <2>2 DEF Here, Present, ByAttr, AsPart
<1>3. QED
  BY <1>1, <1>2 DEF Exists

-----------------------------------------------------------------------------
(***************************************************************************)
(* Type correctness.                                                       *)
(***************************************************************************)
LEMMA TypeInit == Init => TypeOK
<1> SUFFICES ASSUME Init PROVE TypeOK
  OBVIOUS
<1>1. PICK D \in SUBSET Path : disk \in [D -> Contents]
  BY DEF Init
<1>2. DOMAIN disk = D
  BY <1>1
<1>3. DOMAIN vDB.VFiles = {} /\ DOMAIN vDB.Bundles = {} /\ DOMAIN excuse = {}
  BY DEF Init
<1>4. QED
  BY <1>1, <1>2, <1>3 DEF Init, TypeOK

\* What is true of the folder and the storage whether a call runs or not.
FolderOK ==
  /\ DOMAIN disk \subseteq Path /\ disk \in [DOMAIN disk -> Contents]

IdsOK ==
  /\ lastId \in Nat /\ \A f \in store : f.id \in 1..lastId
  /\ DOMAIN excuse \subseteq 1..lastId
  /\ excuse \in [DOMAIN excuse -> SUBSET Path]

IndexesOK ==
  /\ \A f \in Named(store, IndexName) :
       f.id \in DOMAIN excuse /\ NotIndex(f.body.db)
  /\ IndexComplete

\* The scan of a call.
LEMMA CallFacts ==
  ASSUME FolderOK, Call
  PROVE  /\ DOMAIN vDB'.VFiles = DOMAIN disk
         /\ \A p \in DOMAIN disk :
              /\ vDB'.VFiles[p].Parts \in Seq(Part)
              /\ Scanned(p, disk[p])'
         /\ BundlesOK'
<1> DEFINE vFiles == [p \in DOMAIN disk |-> ScanFile(disk[p])]
<1>1. PICK groups : vDB' = MakeBundles(vFiles, groups)
  BY DEF Call
<1>2. /\ DOMAIN vDB'.VFiles = DOMAIN disk
      /\ \A p \in DOMAIN disk :
           /\ vDB'.VFiles[p].Parts = ScanFile(disk[p]).Parts
           /\ vDB'.VFiles[p].UseCompression = ScanFile(disk[p]).UseCompression
      /\ \A id \in DOMAIN vDB'.Bundles :
           /\ vDB'.Bundles[id].StorageMd5 = AnyMd5
           /\ vDB'.Bundles[id].StorageName # IndexName
  BY <1>1, MakeBundlesFacts
<1>3. UNCHANGED disk
  BY DEF Call
<1>4. ASSUME NEW p \in DOMAIN disk
      PROVE  vDB'.VFiles[p].Parts \in Seq(Part) /\ Scanned(p, disk[p])'
  <2>1. disk[p] \in Seq(Chunk)
    BY UploadAssumption DEF FolderOK
  <2>2. QED
    BY <1>2, <1>3, <2>1, ScanFacts DEF Scanned
<1>5. QED
  BY <1>2, <1>4 DEF BundlesOK

LEMMA CallType ==
  ASSUME FolderOK, IdsOK, Call
  PROVE  TypeOK'
<1>1. UNCHANGED <<store, lastId, disk, excuse>>
  BY DEF Call, storageVars
<1>2. /\ pc' = "file" /\ partNo' = 1 /\ file' = 0 /\ touched' = {}
      /\ todo' = DOMAIN disk /\ bundles' = DOMAIN vDB'.Bundles
  BY DEF Call, StartLoops
<1>3. QED
  BY <1>1, <1>2, CallFacts DEF TypeOK, FolderOK, IdsOK

LEMMA TypeStep == TypeOK /\ [Next]_vars => TypeOK'
<1> SUFFICES ASSUME TypeOK, [Next]_vars PROVE TypeOK'
  OBVIOUS
<1> USE DEF storageVars, env, call, fileLoop, bundleLoop
<1>1. CASE Edit
  <2>1. disk' \in [DOMAIN disk' -> Contents] /\ DOMAIN disk' \subseteq Path
    BY <1>1 DEF Edit, TypeOK
  <2>2. touched' \subseteq Path
    BY <1>1 DEF Edit, TypeOK
  <2>3. QED
    BY <1>1, <2>1, <2>2 DEF Edit, TypeOK
<1>2. CASE Call
  BY <1>2, CallType DEF TypeOK, FolderOK, IdsOK
<1>3. CASE Abort
  BY <1>3 DEF Abort, TypeOK
<1>4. CASE SkipFile
  BY <1>4 DEF SkipFile, TypeOK
<1>5. CASE OpenFile
  BY <1>5, PathAssumption DEF OpenFile, TypeOK
<1>6. CASE SkipPart
  BY <1>6 DEF SkipPart, NextPart, TypeOK
<1>7. CASE UploadPart
  BY <1>7 DEF UploadPart, NextPart, Save, TypeOK
<1>8. CASE FilesDone
  BY <1>8 DEF FilesDone, TypeOK
<1>9. CASE SkipBundle
  BY <1>9 DEF SkipBundle, TypeOK
<1>10. CASE BeginBundle
  BY <1>10 DEF BeginBundle, TypeOK
<1>11. CASE AddToBundle
  BY <1>11 DEF AddToBundle, TypeOK
<1>12. CASE SaveBundle
  BY <1>12 DEF SaveBundle, Save, TypeOK
<1>13. CASE BundlesDone
  BY <1>13 DEF BundlesDone, TypeOK
<1>14. CASE TrashDb
  BY <1>14 DEF TrashDb, Trash, TypeOK
<1>15. CASE SaveDb
  BY <1>15 DEF SaveDb, Save, TypeOK
<1>16. CASE UNCHANGED vars
  BY <1>16 DEF vars, TypeOK
<1>17. QED
  BY <1>1, <1>2, <1>3, <1>4, <1>5, <1>6, <1>7, <1>8, <1>9, <1>10, <1>11, <1>12,
     <1>13, <1>14, <1>15, <1>16 DEF Next, UploadStep

\* The variables of Upload have their types, for all folders, contents and
\* bounds: a call's lists hold files and bundles of its db, its parts have the
\* form ScanFile gives them, and ids never exceed the last one given out.
THEOREM TypeCorrect == Spec => []TypeOK
<1>1. QED
  BY TypeInit, TypeStep, PTL DEF Spec

-----------------------------------------------------------------------------
(***************************************************************************)
(* The inductive invariant.  Nothing but index files is ever taken away,   *)
(* so what is present stays present; uploadFile and uploadBundle take a    *)
(* part or a bundle from their lists only when it is present; and uploadDb *)
(* is reached with empty lists.                                            *)
(***************************************************************************)
\* Old indexes stay complete.
LEMMA IndexKept ==
  ASSUME StoreOK, IndexComplete,
         \A f \in store : f.name # IndexName => f \in store',
         \A f \in store' : f.name = IndexName => f \in store /\ UNCHANGED excuse[f.id]
  PROVE  IndexComplete'
<1> SUFFICES ASSUME NEW f \in store', f.name = IndexName,
                    NEW part \in AllDbParts(f.body.db)
             PROVE  Present(part, f.body.db, excuse[f.id])'
  BY DEF IndexComplete, Named
<1>1. f \in Named(store, IndexName)
  BY DEF Named
<1>2. Present(part, f.body.db, excuse[f.id])
  BY <1>1 DEF IndexComplete
<1>3. part.StorageName # IndexName
  BY <1>1 DEF StoreOK, NotIndex
<1>4. excuse'[f.id] = excuse[f.id]
  OBVIOUS
<1>5. QED
  BY <1>2, <1>3, <1>4 DEF Present, ByAttr

\* A step within a call that takes no file away but index files and saves none
\* of that name keeps what has been reached so far.
LEMMA StepKeeps ==
  ASSUME IInv, Running,
         UNCHANGED <<env, call>>,
         oldDbs' \subseteq oldDbs,
         \A f \in store : f.name # IndexName => f \in store',
         \A f \in store' : f.name = IndexName => f \in store
  PROVE  /\ FilesUnchanged' /\ StoreOK' /\ BundlesOK' /\ IndexComplete'
         /\ \A part : part.StorageName # IndexName /\ Here(part) => Here(part)'
<1> USE DEF env, call
<1>1. FilesUnchanged'
  BY DEF IInv, FilesUnchanged, Scanned
<1>2. StoreOK'
  BY DEF IInv, StoreOK, Named
<1>3. BundlesOK'
  BY DEF IInv, BundlesOK
<1>4. IndexComplete'
  BY IndexKept DEF IInv
<1>5. ASSUME NEW part, part.StorageName # IndexName, Here(part)
      PROVE  Here(part)'
  BY <1>5, HereKept
<1>6. QED
  BY <1>1, <1>2, <1>3, <1>4, <1>5

\* The same for a step that leaves the storage alone.
LEMMA QuietStepKeeps ==
  ASSUME IInv, Running, UNCHANGED <<storageVars, env, call, oldDbs>>
  PROVE  /\ FilesUnchanged' /\ StoreOK' /\ BundlesOK' /\ IndexComplete'
         /\ \A part : part.StorageName # IndexName /\ Here(part) => Here(part)'
  BY StepKeeps DEF storageVars

\* The parts and bundles of the db under way have names of their own.
LEMMA Names ==
  ASSUME IInv
  PROVE  /\ \A p \in DOMAIN vDB.VFiles : \A i \in 1..Len(vDB.VFiles[p].Parts) :
              LET part == vDB.VFiles[p].Parts[i]
              IN  part.StorageName # IndexName /\ AsPart(part) = part
         /\ \A id \in DOMAIN vDB.Bundles :
              /\ AsPart(vDB.Bundles[id]).StorageName # IndexName
              /\ vDB.Bundles[id].StorageName # IndexName
              /\ vDB.Bundles[id].StorageMd5 = AnyMd5
<1>1. ASSUME NEW p \in DOMAIN vDB.VFiles, NEW i \in 1..Len(vDB.VFiles[p].Parts)
      PROVE  vDB.VFiles[p].Parts[i] \in Part
  BY DEF IInv, TypeOK
<1>2. QED
  BY <1>1, PartFacts DEF IInv, BundlesOK, AsPart

\* A step of the parts loop, once the part it is at is present.
LEMMA PartsLoop ==
  ASSUME IInv, pc = "part", NextPart, NEW k, k = partNo,
         UNCHANGED <<vDB, touched, file, fh, bundles>>,
         \A part : part.StorageName # IndexName /\ Here(part) => Here(part)',
         Here(vFile.Parts[k])',
         \A part \in uploadedParts' : Here(part)' /\ part.StorageName # IndexName
  PROVE  HandleOK' /\ Progress'
<1>1. /\ file \in todo /\ todo \subseteq DOMAIN vDB.VFiles
      /\ partNo \in 1..Len(vFile.Parts) /\ vFile.Parts \in Seq(Part)
  BY DEF IInv, HandleOK, TypeOK, vFile
<1>2. ASSUME NEW i \in 1..partNo PROVE Here(vFile.Parts[i])'
  <2>1. CASE i = partNo
    <3>1. i = k
      BY <2>1
    <3>2. QED
      BY <3>1
  <2>2. CASE i < partNo
    <3>1. i \in 1..(partNo - 1) /\ i \in 1..Len(vFile.Parts)
      BY <1>1, <2>2
    <3>2. Here(vFile.Parts[i])
      BY <3>1 DEF IInv, Progress
    <3>3. vFile.Parts[i].StorageName # IndexName
      BY <1>1, <3>1, Names DEF vFile
    <3>4. UNCHANGED vFile.Parts[i]
      BY DEF vFile
    <3>5. QED
      BY <3>2, <3>3, <3>4
  <2>3. QED
    BY <1>1, <2>1, <2>2
<1>3. \A p \in DOMAIN vDB.VFiles \ todo :
        \A i \in 1..Len(vDB.VFiles[p].Parts) : Here(vDB.VFiles[p].Parts[i])'
  BY Names DEF IInv, Progress
<1>4. \A id \in DOMAIN vDB.Bundles \ bundles : Here(AsPart(vDB.Bundles[id]))'
  BY Names DEF IInv, Progress
<1>5. CASE partNo < Len(vFile.Parts)
  <2>1. partNo' = partNo + 1 /\ pc' = "part" /\ todo' = todo
    BY <1>5 DEF NextPart
  <2>2. HandleOK'
    BY <1>1, <1>5, <2>1 DEF IInv, HandleOK, Scanned, vFile
  <2>3. Progress'
    BY <1>1, <1>2, <1>3, <1>4, <2>1 DEF Progress, vFile
  <2>4. QED
    BY <2>2, <2>3
<1>6. CASE ~(partNo < Len(vFile.Parts))
  <2>1. pc' = "file" /\ todo' = todo \ {file}
    BY <1>6 DEF NextPart
  <2>2. partNo = Len(vFile.Parts)
    BY <1>1, <1>6
  <2>3. ASSUME NEW p \in DOMAIN vDB.VFiles \ todo',
               NEW i \in 1..Len(vDB.VFiles[p].Parts)
        PROVE  Here(vDB.VFiles[p].Parts[i])'
    <3>1. CASE p = file
      <4>1. i \in 1..partNo
        BY <2>2, <3>1 DEF vFile
      <4>2. UNCHANGED vFile.Parts[i] /\ vFile.Parts[i] = vDB.VFiles[p].Parts[i]
        BY <3>1 DEF vFile
      <4>3. QED
        BY <1>2, <4>1, <4>2
    <3>2. CASE p # file
      BY <1>3, <2>1, <3>2
    <3>3. QED
      BY <3>1, <3>2
  <2>4. HandleOK'
    BY <2>1 DEF HandleOK
  <2>5. Progress'
    BY <1>4, <2>1, <2>3 DEF Progress
  <2>6. QED
    BY <2>4, <2>5
<1>7. QED
  BY <1>5, <1>6

LEMMA EditStep ==
  ASSUME IInv, Edit
  PROVE  HandleOK' /\ FilesUnchanged' /\ StoreOK' /\ BundlesOK' /\ Progress'
           /\ IndexComplete'
<1> USE DEF storageVars, call, bundleLoop
<1>1. PICK e \in Path :
        /\ \A q \in DOMAIN disk : q # e => q \in DOMAIN disk' /\ disk'[q] = disk[q]
        /\ pc = "part" /\ file # e => fh' = fh
        /\ touched' = IF Running THEN touched \cup {e} ELSE touched
  BY DEF Edit
<1>2. UNCHANGED <<storageVars, excuse, runs, call, uploadedParts, pc, todo,
                  partNo, file, bundleLoop, oldDbs>>
  BY DEF Edit
<1>3. HandleOK'
  <2>1. SUFFICES ASSUME pc = "part"
                 PROVE  /\ file \in todo /\ partNo \in 1..Len(vFile.Parts)
                        /\ file \notin touched' => Scanned(file, fh')
    BY <1>2 DEF HandleOK, Scanned, vFile
  <2>2. Running
    BY <2>1 DEF Running
  <2>3. QED
    BY <1>1, <2>1, <2>2 DEF IInv, HandleOK
<1>4. FilesUnchanged'
  BY <1>1, <1>2 DEF IInv, FilesUnchanged, Scanned, Running
<1>5. ASSUME NEW part, Here(part) PROVE Here(part)'
  BY <1>1, <1>2, <1>5, HereKept
<1>6. Progress'
  <2>1. \A part \in uploadedParts : Here(part)' /\ part.StorageName # IndexName
    BY <1>5 DEF IInv, Progress
  <2>2. \A p \in DOMAIN vDB.VFiles \ todo :
          \A i \in 1..Len(vDB.VFiles[p].Parts) : Here(vDB.VFiles[p].Parts[i])'
    BY <1>5, <1>2 DEF IInv, Progress
  <2>3. pc = "part" => \A i \in 1..(partNo - 1) : Here(vFile.Parts[i])'
    BY <1>5, <1>2 DEF IInv, Progress, vFile
  <2>4. \A id \in DOMAIN vDB.Bundles \ bundles : Here(AsPart(vDB.Bundles[id]))'
    BY <1>5, <1>2 DEF IInv, Progress
  <2>5. QED
    BY <1>2, <2>1, <2>2, <2>3, <2>4 DEF IInv, Progress
<1>7. IndexComplete'
  BY <1>2, IndexKept DEF IInv
<1>8. StoreOK' /\ BundlesOK'
  BY <1>2 DEF IInv, StoreOK, BundlesOK, Named
<1>9. QED
  BY <1>3, <1>4, <1>6, <1>7, <1>8

\* A call begins well wherever the one before it was cut short.
LEMMA CallStep ==
  ASSUME FolderOK, IdsOK, IndexesOK, Call
  PROVE  IInv'
<1>1. /\ UNCHANGED <<store, lastId, disk, excuse>>
      /\ listing' = store /\ oldDbs' = Named(store, IndexName)
      /\ uploadedParts' = {} /\ todo' = DOMAIN disk
      /\ bundles' = DOMAIN vDB'.Bundles /\ pc' = "file"
  BY DEF Call, StartLoops, storageVars
<1>2. /\ DOMAIN vDB'.VFiles = DOMAIN disk
      /\ \A p \in DOMAIN disk : Scanned(p, disk[p])'
      /\ BundlesOK'
  BY CallFacts
<1>3. FilesUnchanged'
  BY <1>1, <1>2 DEF FilesUnchanged
<1>4. StoreOK'
  BY <1>1 DEF IndexesOK, StoreOK, Named
<1>5. HandleOK' /\ Progress'
  BY <1>1, <1>2 DEF HandleOK, Progress
<1>6. IndexComplete'
  <2>1. IndexComplete
    BY DEF IndexesOK
  <2>2. QED
    BY <1>1, <2>1 DEF IndexComplete, Named, Present, ByAttr
<1>7. TypeOK'
  BY CallType
<1>8. QED
  BY <1>2, <1>3, <1>4, <1>5, <1>6, <1>7 DEF IInv

LEMMA BetweenCalls == IInv => FolderOK /\ IdsOK /\ IndexesOK
  BY DEF IInv, TypeOK, StoreOK, FolderOK, IdsOK, IndexesOK

\* Steps that leave the storage, the db and the parts that were saved alone,
\* and finish no part.
LEMMA QuietStep ==
  ASSUME IInv,
         Abort \/ SkipFile \/ OpenFile \/ FilesDone \/ SkipBundle \/ BeginBundle
           \/ AddToBundle \/ BundlesDone
  PROVE  HandleOK' /\ FilesUnchanged' /\ StoreOK' /\ BundlesOK' /\ Progress'
           /\ IndexComplete'
<1> USE DEF fileLoop, bundleLoop
<1>1. Running /\ UNCHANGED <<storageVars, env, call, oldDbs, uploadedParts>>
  BY DEF Abort, SkipFile, OpenFile, FilesDone, SkipBundle, BeginBundle,
         AddToBundle, BundlesDone, Running
<1>2. /\ FilesUnchanged' /\ StoreOK' /\ BundlesOK' /\ IndexComplete'
      /\ \A part : part.StorageName # IndexName /\ Here(part) => Here(part)'
  BY <1>1, QuietStepKeeps
<1>3. UNCHANGED <<vDB, touched, disk>>
  BY <1>1 DEF call, env
<1>4. \A part \in uploadedParts : Here(part)' /\ part.StorageName # IndexName
  BY <1>2 DEF IInv, Progress
<1>5. \A p \in DOMAIN vDB.VFiles \ todo :
        \A i \in 1..Len(vDB.VFiles[p].Parts) : Here(vDB.VFiles[p].Parts[i])'
  BY <1>2, <1>3, Names DEF IInv, Progress
<1>6. \A id \in DOMAIN vDB.Bundles \ bundles : Here(AsPart(vDB.Bundles[id]))'
  BY <1>2, <1>3, Names DEF IInv, Progress
<1>7. CASE Abort
  <2>1. pc' = "failed" /\ UNCHANGED <<todo, bundles>>
    BY <1>7 DEF Abort
  <2>2. QED
    BY <1>1, <1>2, <1>3, <1>4, <1>5, <1>6, <2>1 DEF HandleOK, Progress
<1>8. CASE SkipFile
  <2>1. PICK p \in todo : Len(vDB.VFiles[p].Parts) = 0 /\ todo' = todo \ {p}
    BY <1>8 DEF SkipFile
  <2>2. pc' = "file" /\ UNCHANGED bundles
    BY <1>8 DEF SkipFile
  <2>3. \A q \in DOMAIN vDB.VFiles \ todo' :
          \A i \in 1..Len(vDB.VFiles[q].Parts) : Here(vDB.VFiles[q].Parts[i])'
    BY <1>5, <2>1
  <2>4. Progress'
    BY <1>1, <1>3, <1>4, <1>6, <2>2, <2>3 DEF Progress
  <2>5. QED
    BY <1>2, <2>2, <2>4 DEF HandleOK
<1>9. CASE OpenFile
  <2>1. CASE pc' = "failed"
    <3>1. UNCHANGED <<todo, bundles>>
      BY <1>9 DEF OpenFile
    <3>2. QED
      BY <1>1, <1>2, <1>3, <1>4, <1>5, <1>6, <2>1, <3>1 DEF HandleOK, Progress
  <2>2. CASE pc' # "failed"
    <3>1. PICK p \in todo : /\ Len(vDB.VFiles[p].Parts) > 0 /\ pc' = "part"
                            /\ file' = p /\ fh' = disk[p] /\ partNo' = 1
      BY <1>9, <2>2 DEF OpenFile
    <3>2. UNCHANGED <<todo, bundles>> /\ pc = "file"
      BY <1>9 DEF OpenFile
    <3>3. p \in DOMAIN vDB.VFiles /\ vDB.VFiles[p].Parts \in Seq(Part)
      BY DEF IInv, TypeOK
    <3>4. p \notin touched => Scanned(p, disk[p])
      BY <1>1, <3>3 DEF IInv, FilesUnchanged
    <3>5. HandleOK'
      BY <1>3, <3>1, <3>2, <3>3, <3>4 DEF HandleOK, Scanned, vFile
    <3>6. Progress'
      BY <1>1, <1>3, <1>4, <1>5, <1>6, <3>1, <3>2 DEF Progress
    <3>7. QED
      BY <1>2, <3>5, <3>6
  <2>3. QED
    BY <2>1, <2>2
<1>10. CASE FilesDone
  <2>1. pc' = "bundle" /\ todo = {} /\ UNCHANGED <<todo, bundles>>
    BY <1>10 DEF FilesDone
  <2>2. QED
    BY <1>1, <1>2, <1>3, <1>4, <1>5, <1>6, <2>1 DEF HandleOK, Progress
<1>11. CASE SkipBundle
  <2>1. PICK id \in bundles : Exists(vDB.Bundles[id]) /\ bundles' = bundles \ {id}
    BY <1>11 DEF SkipBundle
  <2>2. pc = "bundle" /\ pc' = "bundle" /\ UNCHANGED todo
    BY <1>11 DEF SkipBundle
  <2>3. id \in DOMAIN vDB.Bundles
    BY DEF IInv, TypeOK
  <2>4. Here(AsPart(vDB.Bundles[id]))
    BY <2>1, <2>3, Names, ExistsIsHere DEF IInv, Progress
  <2>5. Here(AsPart(vDB.Bundles[id]))'
    BY <1>2, <1>3, <2>3, <2>4, Names
  <2>6. \A b \in DOMAIN vDB.Bundles \ bundles' : Here(AsPart(vDB.Bundles[b]))'
    BY <1>6, <2>1, <2>5
  <2>7. todo = {}
    BY <2>2 DEF IInv, Progress
  <2>8. Progress'
    BY <1>1, <1>3, <1>4, <1>5, <2>2, <2>6, <2>7 DEF Progress
  <2>9. QED
    BY <1>2, <2>2, <2>8 DEF HandleOK
<1>12. CASE BeginBundle
  <2>1. pc = "bundle" /\ pc' = "build" /\ building' \in bundles
          /\ UNCHANGED <<todo, bundles>>
    BY <1>12 DEF BeginBundle
  <2>2. todo = {}
    BY <2>1 DEF IInv, Progress
  <2>3. QED
    BY <1>1, <1>2, <1>3, <1>4, <1>5, <1>6, <2>1, <2>2 DEF HandleOK, Progress
<1>13. CASE AddToBundle
  <2>1. pc = "build" /\ pc' \in {"build", "failed"}
          /\ UNCHANGED <<todo, bundles, building>>
    BY <1>13 DEF AddToBundle
  <2>2. todo = {} /\ building \in bundles
    BY <2>1 DEF IInv, Progress
  <2>3. QED
    BY <1>1, <1>2, <1>3, <1>4, <1>5, <1>6, <2>1, <2>2 DEF HandleOK, Progress
<1>14. CASE BundlesDone
  <2>1. pc = "bundle" /\ pc' = "db" /\ bundles = {} /\ UNCHANGED <<todo, bundles>>
    BY <1>14 DEF BundlesDone
  <2>2. todo = {}
    BY <2>1 DEF IInv, Progress
  <2>3. QED
    BY <1>1, <1>2, <1>3, <1>4, <1>5, <1>6, <2>1, <2>2 DEF HandleOK, Progress
<1>15. QED
  BY <1>7, <1>8, <1>9, <1>10, <1>11, <1>12, <1>13, <1>14

\* A part the storage has, or has now got.
LEMMA SkipPartStep ==
  ASSUME IInv, SkipPart
  PROVE  HandleOK' /\ FilesUnchanged' /\ StoreOK' /\ BundlesOK' /\ Progress'
           /\ IndexComplete'
<1>1. /\ pc = "part" /\ Exists(vFile.Parts[partNo]) /\ NextPart
      /\ UNCHANGED <<storageVars, env, call, uploadedParts, file, fh, bundles,
                     oldDbs>>
  BY DEF SkipPart, bundleLoop
<1>2. /\ FilesUnchanged' /\ StoreOK' /\ BundlesOK' /\ IndexComplete'
      /\ \A part : part.StorageName # IndexName /\ Here(part) => Here(part)'
  BY <1>1, QuietStepKeeps DEF Running
<1>3. UNCHANGED <<vDB, touched>>
  BY <1>1 DEF call, env
<1>4. PICK part : part = vFile.Parts[partNo]
  OBVIOUS
<1>5. part.StorageName # IndexName /\ AsPart(part) = part
  BY <1>1, <1>4, Names DEF IInv, HandleOK, TypeOK, vFile
<1>6. Here(part)
  BY <1>1, <1>4, <1>5, ExistsIsHere DEF IInv, Progress
<1>7. PICK k : k = partNo
  OBVIOUS
<1>8. UNCHANGED vFile.Parts[k]
  BY <1>1, <1>3 DEF vFile
<1>9. Here(vFile.Parts[k])'
  BY <1>2, <1>4, <1>5, <1>6, <1>7, <1>8
<1>10. \A p \in uploadedParts' : Here(p)' /\ p.StorageName # IndexName
  BY <1>1, <1>2 DEF IInv, Progress
<1>11. HandleOK' /\ Progress'
  BY <1>1, <1>2, <1>3, <1>7, <1>9, <1>10, PartsLoop
<1>12. QED
  BY <1>2, <1>11

LEMMA UploadPartStep ==
  ASSUME IInv, UploadPart
  PROVE  HandleOK' /\ FilesUnchanged' /\ StoreOK' /\ BundlesOK' /\ Progress'
           /\ IndexComplete'
<1>1. /\ pc = "part"
      /\ UNCHANGED <<env, call, file, fh, bundles, oldDbs>>
      /\ UNCHANGED <<vDB, touched>>
  BY DEF UploadPart, bundleLoop, env, call
<1>2. PICK part, k : part = vFile.Parts[partNo] /\ k = partNo
  OBVIOUS
<1>3. /\ file \in DOMAIN vDB.VFiles /\ k \in 1..Len(vFile.Parts)
      /\ file \in todo /\ vFile.Parts \in Seq(Part)
      /\ part.StorageName # IndexName /\ AsPart(part) = part
  BY <1>1, <1>2, Names DEF IInv, HandleOK, TypeOK, vFile
<1>4. CASE PartRefused
  <2>1. pc' = "failed" /\ UNCHANGED <<storageVars, uploadedParts, todo, partNo>>
    BY <1>4 DEF UploadPart
  <2>2. /\ FilesUnchanged' /\ StoreOK' /\ BundlesOK' /\ IndexComplete'
        /\ \A p : p.StorageName # IndexName /\ Here(p) => Here(p)'
    BY <1>1, <2>1, QuietStepKeeps DEF Running
  <2>3. HandleOK'
    BY <2>1 DEF HandleOK
  <2>4. Progress'
    BY <1>1, <2>1, <2>2, Names DEF IInv, Progress
  <2>5. QED
    BY <2>2, <2>3, <2>4
<1>5. CASE ~PartRefused
  <2>1. /\ Save(part.StorageName, PartLength, Stored(PartBytes))
        /\ uploadedParts' = uploadedParts \cup {part} /\ NextPart
    BY <1>2, <1>5 DEF UploadPart
  <2> DEFINE new == [id |-> lastId + 1, name |-> part.StorageName,
                     size |-> PartLength, body |-> Stored(PartBytes)]
  <2>2. store' = store \cup {new}
    BY <2>1 DEF Save
  <2>3. /\ FilesUnchanged' /\ StoreOK' /\ BundlesOK' /\ IndexComplete'
        /\ \A p : p.StorageName # IndexName /\ Here(p) => Here(p)'
    BY <1>1, <1>3, <2>2, StepKeeps DEF Running
  <2>4. Here(part)'
    <3>1. CASE file \in touched
      <4>1. part \in ToSet(vDB.VFiles[file].Parts)
        BY <1>2, <1>3 DEF ToSet, vFile
      <4>2. QED
        BY <1>1, <1>3, <3>1, <4>1 DEF Here, Present
    <3>2. CASE file \notin touched
      <4>1. Scanned(file, fh)
        BY <1>1, <3>2 DEF IInv, HandleOK
      <4>2. k <= Len(fh) /\ part = VFilePart(fh[k], vFile.UseCompression)
        BY <1>2, <1>3, <4>1 DEF Scanned, vFile
      <4>3. new.size = part.StorageSize /\ new.body = part.StorageMd5
        BY <1>2, <4>2 DEF PartLength, PartBytes, VFilePart
      <4>4. new \in store' /\ new.name = part.StorageName
        BY <2>2
      <4>5. ByAttr(store, part)' # {}
        BY <4>3, <4>4 DEF ByAttr
      <4>6. QED
        BY <4>5 DEF Here, Present
    <3>3. QED
      BY <3>1, <3>2
  <2>5. UNCHANGED vFile.Parts[k]
    BY <1>1 DEF vFile
  <2>6. Here(vFile.Parts[k])'
    BY <1>2, <2>4, <2>5
  <2>7. \A p \in uploadedParts' : Here(p)' /\ p.StorageName # IndexName
    BY <1>3, <2>1, <2>3, <2>4 DEF IInv, Progress
  <2>8. HandleOK' /\ Progress'
    BY <1>1, <1>2, <2>1, <2>3, <2>6, <2>7, PartsLoop
  <2>9. QED
    BY <2>3, <2>8
<1>6. QED
  BY <1>4, <1>5

LEMMA SaveBundleStep ==
  ASSUME IInv, SaveBundle
  PROVE  HandleOK' /\ FilesUnchanged' /\ StoreOK' /\ BundlesOK' /\ Progress'
           /\ IndexComplete'
<1>1. /\ pc = "build" /\ UNCHANGED <<env, call, todo, partNo, file, fh, oldDbs>>
      /\ UNCHANGED <<vDB, touched>>
  BY DEF SaveBundle, env, call, fileLoop
<1>2. building \in bundles /\ building \in DOMAIN vDB.Bundles /\ todo = {}
  BY <1>1 DEF IInv, Progress, TypeOK
<1>3. CASE SizeOf(data) # bundle.StorageSize
  <2>1. pc' = "failed" /\ UNCHANGED <<storageVars, uploadedParts, bundles>>
    BY <1>3 DEF SaveBundle
  <2>2. /\ FilesUnchanged' /\ StoreOK' /\ BundlesOK' /\ IndexComplete'
        /\ \A p : p.StorageName # IndexName /\ Here(p) => Here(p)'
    BY <1>1, <2>1, QuietStepKeeps DEF Running
  <2>3. Progress'
    BY <1>1, <2>1, <2>2, Names DEF IInv, Progress
  <2>4. QED
    BY <2>1, <2>2, <2>3 DEF HandleOK
<1>4. CASE SizeOf(data) = bundle.StorageSize
  <2>1. /\ Save(bundle.StorageName, SizeOf(data), Stored(data))
        /\ uploadedParts' = uploadedParts \cup {AsPart(bundle)}
        /\ bundles' = bundles \ {building} /\ pc' = "bundle"
    BY <1>4 DEF SaveBundle
  <2> DEFINE new == [id |-> lastId + 1, name |-> bundle.StorageName,
                     size |-> SizeOf(data), body |-> Stored(data)]
  <2>2. store' = store \cup {new}
    BY <2>1 DEF Save
  <2>3. /\ bundle.StorageName # IndexName /\ bundle.StorageMd5 = AnyMd5
        /\ AsPart(bundle).StorageName # IndexName
    BY <1>2, Names DEF bundle
  <2>4. /\ FilesUnchanged' /\ StoreOK' /\ BundlesOK' /\ IndexComplete'
        /\ \A p : p.StorageName # IndexName /\ Here(p) => Here(p)'
    BY <1>1, <2>2, <2>3, StepKeeps DEF Running
  <2>5. PICK saved : saved = AsPart(bundle)
    OBVIOUS
  <2>6. Here(saved)'
    <3>1. /\ saved.StorageName = new.name /\ saved.StorageSize = new.size
          /\ saved.StorageMd5 = AnyMd5
      BY <1>4, <2>3, <2>5 DEF AsPart
    <3>2. ByAttr(store, saved)' # {}
      BY <2>2, <3>1 DEF ByAttr
    <3>3. QED
      BY <3>2 DEF Here, Present
  <2>7. \A p \in uploadedParts' : Here(p)' /\ p.StorageName # IndexName
    BY <2>1, <2>3, <2>4, <2>5, <2>6 DEF IInv, Progress
  <2>8. ASSUME NEW id \in DOMAIN vDB.Bundles \ bundles'
        PROVE  Here(AsPart(vDB.Bundles[id]))'
    <3>1. CASE id = building
      <4>1. UNCHANGED AsPart(vDB.Bundles[id]) /\ AsPart(vDB.Bundles[id]) = saved
        BY <1>1, <2>5, <3>1 DEF bundle, AsPart
      <4>2. QED
        BY <2>6, <4>1
    <3>2. CASE id \notin bundles
      BY <1>1, <2>4, <3>2, Names DEF IInv, Progress
    <3>3. QED
      BY <2>1, <3>1, <3>2
  <2>9. \A p \in DOMAIN vDB.VFiles \ todo :
          \A i \in 1..Len(vDB.VFiles[p].Parts) : Here(vDB.VFiles[p].Parts[i])'
    BY <1>1, <2>4, Names DEF IInv, Progress
  <2>10. Progress'
    BY <1>1, <1>2, <2>1, <2>7, <2>8, <2>9 DEF Progress
  <2>11. QED
    BY <2>1, <2>4, <2>10 DEF HandleOK
<1>5. QED
  BY <1>3, <1>4

LEMMA TrashDbStep ==
  ASSUME IInv, TrashDb
  PROVE  HandleOK' /\ FilesUnchanged' /\ StoreOK' /\ BundlesOK' /\ Progress'
           /\ IndexComplete'
<1>1. PICK f \in oldDbs : store' = store \ {f} /\ oldDbs' = oldDbs \ {f}
  BY DEF TrashDb, Trash
<1>2. /\ pc = "db" /\ UNCHANGED <<env, call, uploadedParts, pc, todo, bundles>>
      /\ UNCHANGED vDB
  BY DEF TrashDb, call, fileLoop, bundleLoop
<1>3. f.name = IndexName
  BY DEF IInv, StoreOK
<1>4. /\ FilesUnchanged' /\ StoreOK' /\ BundlesOK' /\ IndexComplete'
      /\ \A part : part.StorageName # IndexName /\ Here(part) => Here(part)'
  BY <1>1, <1>2, <1>3, StepKeeps DEF Running
<1>5. Progress'
  BY <1>2, <1>4, Names DEF IInv, Progress
<1>6. QED
  BY <1>2, <1>4, <1>5 DEF HandleOK

\* The new index is complete because both lists are empty.
LEMMA SaveDbStep ==
  ASSUME IInv, SaveDb
  PROVE  HandleOK' /\ FilesUnchanged' /\ StoreOK' /\ BundlesOK' /\ Progress'
           /\ IndexComplete'
<1> DEFINE new == [id |-> lastId + 1, name |-> IndexName, size |-> 1,
                   body |-> IndexBody(vDB)]
<1>1. /\ pc = "db" /\ pc' = "done"
      /\ UNCHANGED <<disk, touched, vDB, listing, uploadedParts, todo, bundles,
                     oldDbs>>
  BY DEF SaveDb, call, fileLoop, bundleLoop
<1>2. store' = store \cup {new}
  BY DEF SaveDb, Save
<1>3. /\ DOMAIN excuse' = DOMAIN excuse \cup {lastId + 1}
      /\ excuse'[lastId + 1] = touched
      /\ \A f \in store : excuse'[f.id] = excuse[f.id] \/ f.id \notin DOMAIN excuse
  BY DEF SaveDb, IInv, TypeOK
<1>4. /\ todo = {} /\ bundles = {}
  BY <1>1 DEF IInv, Progress
<1>5. ASSUME NEW part \in AllDbParts(vDB)
      PROVE  Here(part) /\ part.StorageName # IndexName
  <2>1. CASE \E p \in DOMAIN vDB.VFiles : part \in ToSet(vDB.VFiles[p].Parts)
    <3>1. PICK p \in DOMAIN vDB.VFiles : part \in ToSet(vDB.VFiles[p].Parts)
      BY <2>1
    <3>2. vDB.VFiles[p].Parts \in Seq(Part)
      BY DEF IInv, TypeOK
    <3>3. PICK i \in 1..Len(vDB.VFiles[p].Parts) : part = vDB.VFiles[p].Parts[i]
      BY <3>1, <3>2 DEF ToSet
    <3>4. QED
      BY <1>4, <3>3, Names DEF IInv, Progress
  <2>2. CASE \E id \in DOMAIN vDB.Bundles : part = AsPart(vDB.Bundles[id])
    BY <1>4, <2>2, Names DEF IInv, Progress
  <2>3. QED
    BY <2>1, <2>2 DEF AllDbParts
<1>6. \A part \in AllDbParts(vDB) : Present(part, vDB, touched)'
  BY <1>1, <1>2, <1>5 DEF Here, Present, ByAttr
<1>7. IndexComplete'
  <2>1. SUFFICES ASSUME NEW f \in store', f.name = IndexName,
                        NEW part \in AllDbParts(f.body.db)
                 PROVE  Present(part, f.body.db, excuse[f.id])'
    BY DEF IndexComplete, Named
  <2>2. CASE f \in store
    <3>1. f.id \in DOMAIN excuse
      BY <2>1, <2>2 DEF IInv, StoreOK, Named
    <3>2. excuse'[f.id] = excuse[f.id]
      BY <1>3, <2>2, <3>1
    <3>3. Present(part, f.body.db, excuse[f.id])
      BY <2>1, <2>2 DEF IInv, IndexComplete, Named
    <3>4. QED
      BY <1>2, <3>2, <3>3 DEF Present, ByAttr
  <2>3. CASE f = new
    <3>1. f.body.db = vDB /\ excuse'[f.id] = touched
      BY <1>3, <2>3 DEF IndexBody
    <3>2. QED
      BY <1>1, <1>6, <2>1, <3>1 DEF Present, ByAttr
  <2>4. QED
    BY <1>2, <2>2, <2>3
<1>8. NotIndex(vDB)
  BY <1>5 DEF NotIndex
<1>9. StoreOK'
  <2>1. ASSUME NEW f \in store', f.name = IndexName
        PROVE  f.id \in DOMAIN excuse' /\ NotIndex(f.body.db)
    <3>1. CASE f \in store
      BY <1>3, <2>1, <3>1 DEF IInv, StoreOK, Named
    <3>2. CASE f = new
      BY <1>3, <1>8, <3>2 DEF IndexBody
    <3>3. QED
      BY <1>2, <3>1, <3>2
  <2>2. QED
    BY <1>1, <1>2, <2>1 DEF IInv, StoreOK, Named
<1>10. BundlesOK'
  BY <1>1 DEF IInv, BundlesOK
<1>11. \A part : Here(part) => Here(part)'
  BY <1>1, <1>2 DEF Here, Present, ByAttr
<1>12. Progress'
  BY <1>1, <1>11, Names DEF IInv, Progress
<1>13. QED
  BY <1>1, <1>7, <1>9, <1>10, <1>12 DEF HandleOK, FilesUnchanged, Running

-----------------------------------------------------------------------------
LEMMA IInvInit == Init => IInv
<1> SUFFICES ASSUME Init PROVE IInv
  OBVIOUS
<1>1. DOMAIN vDB.VFiles = {} /\ DOMAIN vDB.Bundles = {}
  BY DEF Init
<1>2. HandleOK /\ FilesUnchanged /\ BundlesOK /\ Progress
  BY <1>1 DEF Init, HandleOK, FilesUnchanged, Running, BundlesOK, Progress
<1>3. StoreOK /\ IndexComplete
  BY DEF Init, StoreOK, IndexComplete, Named
<1>4. QED
  BY <1>2, <1>3, TypeInit DEF IInv

LEMMA IInvStep == IInv /\ [Next]_vars => IInv'
<1> SUFFICES ASSUME IInv, [Next]_vars
             PROVE  HandleOK' /\ FilesUnchanged' /\ StoreOK' /\ BundlesOK'
                      /\ Progress' /\ IndexComplete'
  BY TypeStep DEF IInv
<1>1. CASE Edit
  BY <1>1, EditStep
<1>2. CASE Call
  BY <1>2, BetweenCalls, CallStep DEF IInv
<1>3. CASE Abort \/ SkipFile \/ OpenFile \/ FilesDone \/ SkipBundle \/ BeginBundle
             \/ AddToBundle \/ BundlesDone
  BY <1>3, QuietStep
<1>4. CASE SkipPart
  BY <1>4, SkipPartStep
<1>5. CASE UploadPart
  BY <1>5, UploadPartStep
<1>6. CASE SaveBundle
  BY <1>6, SaveBundleStep
<1>7. CASE TrashDb
  BY <1>7, TrashDbStep
<1>8. CASE SaveDb
  BY <1>8, SaveDbStep
<1>9. CASE UNCHANGED vars
  BY <1>9 DEF vars, storageVars, env, call, fileLoop, bundleLoop, IInv, HandleOK,
     FilesUnchanged, Running, StoreOK, BundlesOK, Progress, IndexComplete, Named,
     Here, Present, ByAttr, Scanned, vFile
<1>10. QED
  BY <1>1, <1>2, <1>3, <1>4, <1>5, <1>6, <1>7, <1>8, <1>9 DEF Next, UploadStep

\* The inductive invariant holds in every reachable state.
THEOREM Invariant == Spec => []IInv
<1>1. QED
  BY IInvInit, IInvStep, PTL DEF Spec

\* Whatever calls were made, cut short and repeated, and however the folder was
\* edited, for any number of files, contents, parts and calls: an index that is
\* online names only parts and bundles that are online, except for parts of
\* files that were edited during the call that wrote it.
THEOREM IndexIsComplete == Spec => []IndexComplete
<1>1. IInv => IndexComplete
  BY DEF IInv
<1>2. QED
  BY <1>1, Invariant, PTL

-----------------------------------------------------------------------------
\* There is one index at most, and the call under way has it on its list.
OneIndex ==
  /\ Running => Named(store, IndexName) \subseteq oldDbs
  /\ \A f, g \in Named(store, IndexName) : f = g

\* A call saves nothing of that name before uploadDb.
LEMMA OneIndexKept ==
  ASSUME OneIndex, Running, UNCHANGED oldDbs,
         \A f \in store' : f.name = IndexName => f \in store
  PROVE  OneIndex'
  BY DEF OneIndex, Named

LEMMA OneIndexStep == IInv /\ OneIndex /\ [Next]_vars => OneIndex'
<1> SUFFICES ASSUME IInv, OneIndex, [Next]_vars PROVE OneIndex'
  OBVIOUS
<1> USE DEF storageVars
<1>1. CASE Edit
  BY <1>1 DEF Edit, OneIndex, Running, Named
<1>2. CASE Call
  BY <1>2 DEF Call, OneIndex, Running, Named
<1>3. CASE Abort \/ SkipFile \/ OpenFile \/ SkipPart \/ FilesDone \/ SkipBundle
             \/ BeginBundle \/ AddToBundle \/ BundlesDone
  <2>1. Running /\ UNCHANGED <<store, oldDbs>>
    BY <1>3 DEF Abort, SkipFile, OpenFile, SkipPart, FilesDone, SkipBundle,
       BeginBundle, AddToBundle, BundlesDone, Running
  <2>2. QED
    BY <2>1, OneIndexKept
<1>4. CASE UploadPart
  <2>1. /\ Running /\ UNCHANGED oldDbs
        /\ store' = store \/ Save(vFile.Parts[partNo].StorageName, PartLength,
                                  Stored(PartBytes))
    BY <1>4 DEF UploadPart, Running
  <2>2. vFile.Parts[partNo].StorageName # IndexName
    BY <1>4, Names DEF UploadPart, IInv, HandleOK, TypeOK, vFile
  <2>3. QED
    BY <2>1, <2>2, OneIndexKept DEF Save
<1>5. CASE SaveBundle
  <2>1. /\ Running /\ UNCHANGED oldDbs
        /\ store' = store \/ Save(bundle.StorageName, SizeOf(data), Stored(data))
    BY <1>5 DEF SaveBundle, Running
  <2>2. bundle.StorageName # IndexName
    BY <1>5, Names DEF SaveBundle, IInv, Progress, TypeOK, bundle
  <2>3. QED
    BY <2>1, <2>2, OneIndexKept DEF Save
<1>6. CASE TrashDb
  BY <1>6 DEF TrashDb, Trash, OneIndex, Running, Named
<1>7. CASE SaveDb
  BY <1>7 DEF SaveDb, OldDbsTrashed, Save, OneIndex, Running, Named
<1>8. CASE UNCHANGED vars
  BY <1>8 DEF vars, OneIndex, Running, Named
<1>9. QED
  BY <1>1, <1>2, <1>3, <1>4, <1>5, <1>6, <1>7, <1>8 DEF Next, UploadStep

\* Two indexes are never online, for any sequence of calls, failures and
\* crashes: a call that did not get to trash the old index did not get to save
\* a new one either.
THEOREM IndexIsUnique == Spec => []AtMostOneIndex
<1>1. Init => OneIndex
  BY DEF Init, OneIndex, Running, Named
<1>2. OneIndex => AtMostOneIndex
  <2>1. SUFFICES ASSUME OneIndex PROVE AtMostOneIndex
    OBVIOUS
  <2>2. CASE Named(store, IndexName) = {}
    BY <2>2, FS_EmptySet DEF AtMostOneIndex
  <2>3. CASE Named(store, IndexName) # {}
    <3>1. PICK f \in Named(store, IndexName) : TRUE
      BY <2>3
    <3>2. Named(store, IndexName) = {f}
      BY <2>1, <3>1 DEF OneIndex
    <3>3. Cardinality(Named(store, IndexName)) = 1
      BY <3>2, FS_Singleton, Zenon
    <3>4. QED
      BY <3>3 DEF AtMostOneIndex
  <2>4. QED
    BY <2>2, <2>3
<1>3. QED
  BY <1>1, <1>2, OneIndexStep, Invariant, PTL DEF Spec

-----------------------------------------------------------------------------
\* Nobody edits the folder while a call runs.
Undisturbed == Running => touched = {}

LEMMA UndisturbedStep ==
  ASSUME ~EditsDuringRun, Undisturbed, [Next]_vars
  PROVE  Undisturbed'
<1> USE DEF Undisturbed, Running
<1>1. CASE Edit
  BY <1>1 DEF Edit
<1>2. CASE Call
  BY <1>2 DEF Call
<1>3. CASE Abort \/ UploadStep
  <2>1. Running /\ UNCHANGED touched
    BY <1>3 DEF Abort, UploadStep, SkipFile, OpenFile, SkipPart, UploadPart,
       FilesDone, SkipBundle, BeginBundle, AddToBundle, SaveBundle, BundlesDone,
       TrashDb, SaveDb, env
  <2>2. QED
    BY <2>1
<1>4. CASE UNCHANGED vars
  BY <1>4 DEF vars, env
<1>5. QED
  BY <1>1, <1>2, <1>3, <1>4 DEF Next

\* What exists finds is Here, and without edits that means online.
LEMMA ExistsTells == IInv /\ Undisturbed => ExistsIsTrue
<1> SUFFICES ASSUME IInv, touched = {}, NEW part \in AllDbParts(vDB), Exists(part)
             PROVE  ByAttr(store, part) # {}
  BY DEF Undisturbed, ExistsIsTrue
<1>1. part.StorageName # IndexName /\ AsPart(part) = part
  <2>1. CASE \E p \in DOMAIN vDB.VFiles : part \in ToSet(vDB.VFiles[p].Parts)
    <3>1. PICK p \in DOMAIN vDB.VFiles : part \in ToSet(vDB.VFiles[p].Parts)
      BY <2>1
    <3>2. vDB.VFiles[p].Parts \in Seq(Part)
      BY DEF IInv, TypeOK
    <3>3. part \in Part
      BY <3>1, <3>2 DEF ToSet
    <3>4. QED
      BY <3>3, PartFacts
  <2>2. CASE \E id \in DOMAIN vDB.Bundles : part = AsPart(vDB.Bundles[id])
    BY <2>2 DEF IInv, BundlesOK, AsPart
  <2>3. QED
    BY <2>1, <2>2 DEF AllDbParts
<1>2. Here(part)
  BY <1>1, ExistsIsHere DEF IInv, Progress
<1>3. QED
  BY <1>2 DEF Here, Present

\* As long as the folder is left alone while a call runs, exists is right about
\* what it finds: from the list of the call's beginning and from the list of what
\* the call has saved, for all folders, and after any number of broken calls.
THEOREM ExistsIsRight ==
  ASSUME ~EditsDuringRun
  PROVE  Spec => []ExistsIsTrue
<1>1. Init => Undisturbed
  BY DEF Init, Undisturbed, Running
<1>2. QED
  BY <1>1, UndisturbedStep, ExistsTells, Invariant, PTL DEF Spec

-----------------------------------------------------------------------------
(***************************************************************************)
(* Nothing is uploaded twice: a call knows of every file that is online,   *)
(* from its list or because it has saved it, so it saves only new ones.    *)
(***************************************************************************)
\* A part whose bytes are not those of its name: the file changed while it was
\* read.
Wrong(f) ==
  /\ f.name.kind = "part"
  /\ \A compr \in BOOLEAN : f.body # Stored(<< <<f.name.plain[1], compr>> >>)

Twins(f, g) == f # g /\ f.name = g.name /\ f.size = g.size /\ f.body = g.body

\* The parts and bundles of the db have names of their kind.
KindsOK ==
  /\ \A p \in DOMAIN vDB.VFiles : \A i \in 1..Len(vDB.VFiles[p].Parts) :
       \E c \in Chunk :
         vDB.VFiles[p].Parts[i] = VFilePart(c, vDB.VFiles[p].UseCompression)
  /\ \A id \in DOMAIN vDB.Bundles :
       /\ vDB.Bundles[id].StorageName.kind = "bundle"
       /\ vDB.Bundles[id].StorageMd5 = AnyMd5

\* What the call has saved is in its list.
UploadedOK ==
  \A p \in uploadedParts :
    AsPart(p) = p /\ (p.StorageName.kind = "bundle" => p.StorageMd5 = AnyMd5)

SavedAs(f, p) ==
  /\ f.name = p.StorageName
  /\ Wrong(f) \/ /\ f.size = p.StorageSize
                 /\ f.name.kind = "bundle" \/ f.body = p.StorageMd5

\* So a call knows of all that is online.
AllKnown ==
  Running => \A f \in store : \/ f \in listing
                              \/ f.name = IndexName
                              \/ \E p \in uploadedParts : SavedAs(f, p)

\* A bundle is built after exists did not find it.
BuildOK == pc = "build" => ~Exists(bundle)

\* Every index has a nonce of its own.
NoncesOK ==
  \A f \in store : f.name = IndexName => f.body.nonce \in 1..lastId

NoTwins == \A f, g \in store : Twins(f, g) => Wrong(f)

DInv == KindsOK /\ UploadedOK /\ AllKnown /\ BuildOK /\ NoncesOK /\ NoTwins

-----------------------------------------------------------------------------
\* A scan and MakeBundles make names of the right kind.
LEMMA CallKinds == ASSUME TypeOK, Call PROVE KindsOK'
<1> DEFINE vFiles == [p \in DOMAIN disk |-> ScanFile(disk[p])]
<1>1. PICK groups : vDB' = MakeBundles(vFiles, groups)
  BY DEF Call
<1>2. ASSUME NEW id \in DOMAIN vDB'.Bundles
      PROVE  /\ vDB'.Bundles[id].StorageName.kind = "bundle"
             /\ vDB'.Bundles[id].StorageMd5 = AnyMd5
  <2>1. \E g : vDB'.Bundles[id] = NewBundle(vFiles, g)
    BY <1>1 DEF MakeBundles
  <2>2. PICK g : vDB'.Bundles[id] = NewBundle(vFiles, g)
    BY <2>1
  <2>3. QED
    BY <2>2 DEF NewBundle, GroupId, BundleName
<1>3. ASSUME NEW p \in DOMAIN vDB'.VFiles, NEW i \in 1..Len(vDB'.VFiles[p].Parts)
      PROVE  \E c \in Chunk :
               vDB'.VFiles[p].Parts[i] = VFilePart(c, vDB'.VFiles[p].UseCompression)
  <2>1. /\ p \in DOMAIN disk /\ disk' = disk /\ Scanned(p, disk[p])'
    BY <1>3, CallFacts DEF Call, TypeOK, FolderOK
  <2>2. disk[p] \in Seq(Chunk)
    BY <2>1, UploadAssumption DEF TypeOK
  <2>3. /\ i \in 1..Len(disk[p])
        /\ vDB'.VFiles[p].Parts[i] = VFilePart(disk[p][i], vDB'.VFiles[p].UseCompression)
    BY <1>3, <2>1 DEF Scanned
  <2>4. QED
    BY <2>2, <2>3
<1>4. QED
  BY <1>2, <1>3 DEF KindsOK

\* A new file without a twin in the storage makes no pair.
LEMMA NewFile ==
  ASSUME NoTwins, NEW new, store' = store \cup {new},
         \A g \in store : Twins(new, g) => Wrong(new)
  PROVE  NoTwins'
<1>1. ASSUME NEW f \in store', NEW g \in store', Twins(f, g) PROVE Wrong(f)
  <2>1. CASE f \in store /\ g \in store
    BY Zenon, <1>1, <2>1 DEF NoTwins
  <2>2. CASE f = new
    <3>1. g \in store
      BY Zenon, <1>1, <2>2 DEF Twins
    <3>2. QED
      BY Zenon, <1>1, <2>2, <3>1
  <2>3. CASE g = new
    <3>1. f \in store /\ Twins(new, f)
      BY Zenon, <1>1, <2>3 DEF Twins
    <3>2. Wrong(new)
      BY Zenon, <3>1
    <3>3. QED
      BY Zenon, <1>1, <2>3, <3>2 DEF Wrong, Twins
  <2>4. QED
    BY Zenon, <2>1, <2>2, <2>3
<1>2. QED
  BY Zenon, <1>1 DEF NoTwins

\* What a step that saves nothing has to leave alone.
LEMMA NothingSaved ==
  ASSUME DInv, store' \subseteq store, lastId' = lastId, vDB' = vDB,
         uploadedParts' = uploadedParts, listing' = listing, Running' => Running,
         BuildOK'
  PROVE  DInv'
<1>1. KindsOK' /\ UploadedOK'
  BY Zenon DEF DInv, KindsOK, UploadedOK
<1>2. AllKnown'
  BY Zenon DEF DInv, AllKnown
<1>3. NoncesOK' /\ NoTwins'
  BY Zenon DEF DInv, NoncesOK, NoTwins
<1>4. QED
  BY Zenon, <1>1, <1>2, <1>3 DEF DInv

\* uploadPart or uploadBundle saves a file that exists did not find.
LEMMA SaveKnown ==
  ASSUME IInv, DInv, Running, NEW part, NEW new,
         new.name = part.StorageName, part.StorageName # IndexName,
         SavedAs(new, part), part.StorageName.kind \in {"part", "bundle"},
         AsPart(part) \notin uploadedParts, ByAttr(listing, part) = {},
         part.StorageName.kind = "bundle" => part.StorageMd5 = AnyMd5,
         store' = store \cup {new}, lastId' = lastId + 1,
         uploadedParts' = uploadedParts \cup {AsPart(part)},
         UNCHANGED <<vDB, listing>>, BuildOK'
  PROVE  DInv'
<1>1. /\ AsPart(part).StorageName = part.StorageName
      /\ AsPart(part).StorageSize = part.StorageSize
      /\ AsPart(part).StorageMd5 = part.StorageMd5
      /\ AsPart(AsPart(part)) = AsPart(part)
  BY SMT DEF AsPart
<1>2. KindsOK'
  BY Zenon DEF DInv, KindsOK
<1>3. UploadedOK'
  BY Zenon, <1>1 DEF DInv, UploadedOK
<1>4. AllKnown'
  <2>1. SavedAs(new, AsPart(part))
    BY Zenon, <1>1 DEF SavedAs
  <2>2. ASSUME NEW f \in store'
        PROVE  \/ f \in listing' \/ f.name = IndexName
               \/ \E p \in uploadedParts' : SavedAs(f, p)
    BY Zenon, <2>1 DEF DInv, AllKnown
  <2>3. QED
    BY Zenon, <2>2 DEF AllKnown
<1>5. NoncesOK'
  <2>1. lastId \in Nat
    BY Zenon DEF IInv, TypeOK
  <2>2. \A f \in store' : f.name = IndexName => f \in store
    BY Zenon
  <2>3. 1..lastId \subseteq 1..lastId'
    BY SMT, <2>1
  <2>4. QED
    BY Zenon, <2>2, <2>3 DEF DInv, NoncesOK
<1>6. ASSUME NEW g \in store, Twins(new, g) PROVE Wrong(new)
  <2>1. SUFFICES ASSUME ~Wrong(new) PROVE FALSE
    OBVIOUS
  <2>2. /\ g.name = part.StorageName /\ g.size = part.StorageSize
        /\ g.name.kind = "bundle" \/ g.body = part.StorageMd5
    BY Zenon, <1>6, <2>1 DEF Twins, SavedAs
  <2>3. ~Wrong(g)
    BY Zenon, <1>6, <2>1 DEF Wrong, Twins
  <2>4. CASE g \in listing
    <3>1. part.StorageMd5 \in {AnyMd5, g.body}
      BY Zenon, <2>2
    <3>2. g \in ByAttr(listing, part)
      BY Zenon, <2>2, <2>4, <3>1 DEF ByAttr
    <3>3. QED
      BY Zenon, <3>2
  <2>5. CASE \E p \in uploadedParts : SavedAs(g, p)
    <3>1. PICK p \in uploadedParts : SavedAs(g, p)
      BY Zenon, <2>5
    <3>2. /\ p.StorageName = part.StorageName /\ p.StorageSize = part.StorageSize
          /\ g.name.kind = "bundle" \/ g.body = p.StorageMd5
      BY Zenon, <2>2, <2>3, <3>1 DEF SavedAs
    <3>3. p.StorageMd5 = part.StorageMd5
      BY Zenon, <2>2, <3>1, <3>2 DEF DInv, UploadedOK
    <3>4. AsPart(p) = AsPart(part)
      BY Zenon, <3>2, <3>3 DEF AsPart
    <3>5. QED
      BY Zenon, <3>1, <3>4 DEF DInv, UploadedOK
  <2>6. QED
    BY Zenon, <2>2, <2>4, <2>5 DEF DInv, AllKnown
<1>7. NoTwins'
  BY Zenon, <1>6, NewFile DEF DInv
<1>8. QED
  BY Zenon, <1>2, <1>3, <1>4, <1>5, <1>7 DEF DInv

\* uploadPart: the new file has the bytes of its name, or wrong ones.
LEMMA UploadPartKeeps == ASSUME IInv, DInv, UploadPart PROVE DInv'
<1> DEFINE part == vFile.Parts[partNo]
<1>1. /\ pc = "part" /\ ~Exists(part) /\ vDB' = vDB /\ listing' = listing
  BY Zenon DEF UploadPart, call
<1>2. Running /\ BuildOK'
  <2>1. pc' # "build"
    BY SMT, <1>1 DEF UploadPart, NextPart
  <2>2. QED
    BY SMT, <1>1, <2>1 DEF Running, BuildOK
<1>3. CASE PartRefused
  <2>1. /\ store' = store /\ lastId' = lastId /\ uploadedParts' = uploadedParts
    BY Zenon, <1>3 DEF UploadPart, storageVars
  <2>2. QED
    BY Zenon, <1>1, <1>2, <2>1, NothingSaved
<1>4. CASE ~PartRefused
  <2> DEFINE new == [id |-> lastId + 1, name |-> part.StorageName,
                     size |-> PartLength, body |-> Stored(PartBytes)]
  <2>1. /\ store' = store \cup {new} /\ lastId' = lastId + 1
        /\ uploadedParts' = uploadedParts \cup {part}
    BY Zenon, <1>4 DEF UploadPart, Save
  <2>2. PICK c \in Chunk : part = VFilePart(c, vFile.UseCompression)
    BY <1>1 DEF IInv, HandleOK, TypeOK, DInv, KindsOK, vFile
  <2>3. /\ new.name = part.StorageName /\ new.size = PartLength
        /\ new.body = Stored(PartBytes)
    BY SMT
  <2> HIDE DEF new, part
  <2>4. /\ part.StorageName = PartName(c) /\ AsPart(part) = part
        /\ part.StorageSize = StoredSize(c, vFile.UseCompression)
        /\ part.StorageMd5 = Stored(<< <<c, vFile.UseCompression>> >>)
    BY <2>2 DEF VFilePart, AsPart
  <2>5. /\ part.StorageName.kind = "part" /\ part.StorageName.plain[1] = c
        /\ part.StorageName # IndexName
    BY SMT, <2>4 DEF PartName, IndexName
  <2>6. SavedAs(new, part)
    <3>1. SUFFICES ASSUME ~Wrong(new)
                   PROVE  new.size = part.StorageSize /\ new.body = part.StorageMd5
      BY Zenon, <2>3 DEF SavedAs
    <3>2. PICK compr \in BOOLEAN : Stored(PartBytes) = Stored(<< <<c, compr>> >>)
      BY Zenon, <2>3, <2>5, <3>1 DEF Wrong
    <3>3. PartBytes = << <<c, compr>> >>
      BY SMT, <3>2 DEF Stored
    <3>4. partNo <= Len(fh) /\ fh[partNo] = c
      BY SMT, <3>3 DEF PartBytes
    <3>5. QED
      BY Zenon, <2>3, <2>4, <3>4 DEF PartBytes, PartLength
  <2>7. AsPart(part) \notin uploadedParts /\ ByAttr(listing, part) = {}
    BY Zenon, <1>1 DEF Exists, part
  <2>8. /\ uploadedParts' = uploadedParts \cup {AsPart(part)}
        /\ part.StorageName.kind \in {"part", "bundle"}
        /\ part.StorageName.kind # "bundle"
    BY SMT, <2>1, <2>4, <2>5 DEF part
  <2>9. QED
    BY Zenon, <1>1, <1>2, <2>1, <2>3, <2>5, <2>6, <2>7, <2>8, SaveKnown
<1>5. QED
  BY Zenon, <1>3, <1>4

\* uploadBundle: the new file has the size of the bundle.
LEMMA SaveBundleKeeps == ASSUME IInv, DInv, SaveBundle PROVE DInv'
<1>1. pc = "build" /\ vDB' = vDB /\ listing' = listing
  BY Zenon DEF SaveBundle, call
<1>2. Running /\ BuildOK'
  <2>1. pc' # "build"
    BY SMT DEF SaveBundle
  <2>2. QED
    BY SMT, <1>1, <2>1 DEF Running, BuildOK
<1>3. CASE SizeOf(data) # bundle.StorageSize
  <2>1. /\ store' = store /\ lastId' = lastId /\ uploadedParts' = uploadedParts
    BY Zenon, <1>3 DEF SaveBundle, storageVars
  <2>2. QED
    BY Zenon, <1>1, <1>2, <2>1, NothingSaved
<1>4. CASE SizeOf(data) = bundle.StorageSize
  <2> DEFINE new == [id |-> lastId + 1, name |-> bundle.StorageName,
                     size |-> SizeOf(data), body |-> Stored(data)]
  <2>1. /\ store' = store \cup {new} /\ lastId' = lastId + 1
        /\ uploadedParts' = uploadedParts \cup {AsPart(bundle)}
    BY Zenon, <1>4 DEF SaveBundle, Save
  <2>2. new.name = bundle.StorageName /\ new.size = SizeOf(data)
    BY SMT
  <2> HIDE DEF new
  <2>3. building \in DOMAIN vDB.Bundles
    BY Zenon, <1>1 DEF IInv, Progress, TypeOK
  <2>4. bundle.StorageName.kind = "bundle" /\ bundle.StorageMd5 = AnyMd5
    BY Zenon, <2>3 DEF DInv, KindsOK, bundle
  <2>5. bundle.StorageName # IndexName
    BY SMT, <2>4 DEF IndexName
  <2>6. SavedAs(new, bundle)
    BY Zenon, <1>4, <2>2, <2>4 DEF SavedAs
  <2>7. AsPart(bundle) \notin uploadedParts /\ ByAttr(listing, bundle) = {}
    BY Zenon, <1>1 DEF DInv, BuildOK, Exists
  <2>8. bundle.StorageName.kind \in {"part", "bundle"}
    BY Zenon, <2>4
  <2>9. QED
    BY Zenon, <1>1, <1>2, <2>1, <2>2, <2>4, <2>5, <2>6, <2>7, <2>8, SaveKnown
<1>5. QED
  BY Zenon, <1>3, <1>4

\* uploadDb: no index has the nonce of the new one.
LEMMA SaveDbKeeps == ASSUME IInv, DInv, SaveDb PROVE DInv'
<1> DEFINE new == [id |-> lastId + 1, name |-> IndexName, size |-> 1,
                   body |-> IndexBody(vDB)]
<1>1. /\ pc' = "done" /\ vDB' = vDB /\ uploadedParts' = uploadedParts
      /\ lastId' = lastId + 1 /\ store' = store \cup {new}
  BY Zenon DEF SaveDb, Save, call
<1>2. new.name = IndexName /\ new.body.nonce = lastId + 1
  BY SMT DEF IndexBody
<1> HIDE DEF new
<1>3. lastId \in Nat
  BY Zenon DEF IInv, TypeOK
<1>4. KindsOK' /\ UploadedOK'
  BY Zenon, <1>1 DEF DInv, KindsOK, UploadedOK
<1>5. AllKnown' /\ BuildOK'
  BY SMT, <1>1 DEF AllKnown, BuildOK, Running
<1>6. NoncesOK'
  <2>1. lastId + 1 \in 1..lastId' /\ 1..lastId \subseteq 1..lastId'
    BY SMT, <1>1, <1>3
  <2>2. QED
    BY Zenon, <1>1, <1>2, <2>1 DEF DInv, NoncesOK
<1>7. ASSUME NEW g \in store, Twins(new, g) PROVE Wrong(new)
  <2>1. g.name = IndexName /\ g.body.nonce = lastId + 1
    BY Zenon, <1>2, <1>7 DEF Twins
  <2>2. g.body.nonce \in 1..lastId
    BY Zenon, <2>1 DEF DInv, NoncesOK
  <2>3. QED
    BY SMT, <1>3, <2>1, <2>2
<1>8. NoTwins'
  BY Zenon, <1>1, <1>7, NewFile DEF DInv
<1>9. QED
  BY Zenon, <1>4, <1>5, <1>6, <1>8 DEF DInv

\* The other steps save nothing.
LEMMA OtherKeeps ==
  ASSUME DInv, \/ Edit \/ Abort \/ SkipFile \/ OpenFile \/ SkipPart \/ FilesDone
               \/ SkipBundle \/ AddToBundle \/ BundlesDone \/ TrashDb
               \/ UNCHANGED vars
  PROVE  DInv'
<1>1. /\ store' \subseteq store /\ lastId' = lastId /\ vDB' = vDB
      /\ uploadedParts' = uploadedParts /\ listing' = listing
  BY Zenon DEF Edit, Abort, SkipFile, OpenFile, SkipPart, FilesDone, SkipBundle,
     AddToBundle, BundlesDone, TrashDb, Trash, vars, storageVars, call
<1>2. /\ pc' = "build" => pc = "build"
      /\ Running' => Running
  BY SMT DEF Edit, Abort, SkipFile, OpenFile, SkipPart, NextPart, FilesDone,
     SkipBundle, AddToBundle, BundlesDone, TrashDb, vars, Running
<1>3. pc = "build" => building' = building
  BY SMT DEF Edit, Abort, SkipFile, OpenFile, SkipPart, FilesDone, SkipBundle,
     AddToBundle, BundlesDone, TrashDb, vars, bundleLoop
<1>4. BuildOK'
  BY Zenon, <1>1, <1>2, <1>3 DEF DInv, BuildOK, Exists, bundle
<1>5. QED
  BY Zenon, <1>1, <1>2, <1>4, NothingSaved

LEMMA BeginBundleKeeps == ASSUME DInv, BeginBundle PROVE DInv'
<1>1. /\ store' = store /\ lastId' = lastId /\ vDB' = vDB
      /\ uploadedParts' = uploadedParts /\ listing' = listing
      /\ pc = "bundle" /\ ~Exists(vDB.Bundles[building'])
  BY Zenon DEF BeginBundle, storageVars, call
<1>2. Running
  BY SMT, <1>1 DEF Running
<1>3. BuildOK'
  BY Zenon, <1>1 DEF BuildOK, Exists, bundle
<1>4. QED
  BY Zenon, <1>1, <1>2, <1>3, NothingSaved

\* A call begins with a list of all that is online.
LEMMA CallKeeps == ASSUME IInv, DInv, Call PROVE DInv'
<1>1. /\ store' = store /\ lastId' = lastId /\ listing' = store
      /\ uploadedParts' = {} /\ pc' = "file"
  BY Zenon DEF Call, storageVars
<1>2. KindsOK'
  BY Zenon, CallKinds DEF IInv
<1>3. UploadedOK' /\ AllKnown'
  BY Zenon, <1>1 DEF UploadedOK, AllKnown
<1>4. BuildOK'
  BY SMT, <1>1 DEF BuildOK
<1>5. NoncesOK' /\ NoTwins'
  BY Zenon, <1>1 DEF DInv, NoncesOK, NoTwins
<1>6. QED
  BY Zenon, <1>2, <1>3, <1>4, <1>5 DEF DInv

LEMMA DInvStep == IInv /\ DInv /\ [Next]_vars => DInv'
  BY Zenon, UploadPartKeeps, SaveBundleKeeps, SaveDbKeeps, OtherKeeps,
     BeginBundleKeeps, CallKeeps DEF Next, UploadStep

LEMMA DInvInit == Init => DInv
<1>1. SUFFICES ASSUME Init PROVE DInv
  OBVIOUS
<1>2. DOMAIN vDB.VFiles = {} /\ DOMAIN vDB.Bundles = {}
  BY SMT, <1>1 DEF Init
<1>3. store = {} /\ uploadedParts = {} /\ pc = "idle"
  BY Zenon, <1>1 DEF Init
<1>4. pc # "build"
  BY SMT, <1>3
<1>5. QED
  BY Zenon, <1>2, <1>3, <1>4 DEF DInv, KindsOK, UploadedOK, AllKnown, BuildOK,
     NoncesOK, NoTwins

-----------------------------------------------------------------------------
\* A call never saves what is online already, however many calls there were and
\* wherever they were cut short: neither a part, nor a bundle, nor an index.
\* A pair comes about only of parts with bytes that are not those of their name.
THEOREM NothingIsUploadedTwice == Spec => []NoDoubleUpload
<1>1. DInv => NoDoubleUpload
  BY Zenon DEF DInv, NoTwins, Twins, Wrong, NoDoubleUpload
<1>2. QED
  BY <1>1, DInvInit, DInvStep, Invariant, PTL DEF Spec


-----------------------------------------------------------------------------
(***************************************************************************)
(* What is read is what was scanned, as long as nobody edits the folder    *)
(* during a call (with edits it is not: a bundle can keep the bytes of a   *)
(* file that changed, under the name of the old ones).  A bundle is built  *)
(* of the bytes its name says, so every bundle online holds them.          *)
(***************************************************************************)
DbsOK ==
  /\ WellFormed(vDB)
  /\ \A f \in Named(store, IndexName) : WellFormed(f.body.db)

\* What uploadBundle has collected so far.
DataOK ==
  pc = "build" =>
    /\ partNo \in 1..(Len(bundle.Content) + 1)
    /\ data \in Piece /\ Len(data) = partNo - 1
    /\ \A i \in 1..(partNo - 1) : data[i] = RightBytes(bundle.StorageName.plain)[i]

RInv == Undisturbed /\ DbsOK /\ DataOK /\ RightStored(store)


LEMMA CallWellFormed == ASSUME TypeOK, Call PROVE WellFormed(vDB')
<1> DEFINE vFiles == [p \in DOMAIN disk |-> ScanFile(disk[p])]
<1>1. PICK groups \in Groupings(vFiles) : vDB' = MakeBundles(vFiles, groups)
  BY Zenon DEF Call
<1>2. DOMAIN disk \in SUBSET Path /\ \A p \in DOMAIN disk : disk[p] \in Seq(Chunk)
  BY UploadAssumption DEF TypeOK
<1>3. QED
  BY Zenon, <1>1, <1>2, MakeBundlesIsWellFormed

\* The files and bundles of the db stay well formed, and so do those of the
\* indexes, because a new index has the db of the call.
LEMMA DbsKept ==
  ASSUME DbsOK, vDB' = vDB, NEW new,
         \A f \in Named(store', IndexName) : f \in Named(store, IndexName) \/ f = new,
         new.body.db = vDB \/ new.name # IndexName
  PROVE  DbsOK'
<1>1. ASSUME NEW f \in Named(store', IndexName) PROVE WellFormed(f.body.db)
  <2>1. f.name = IndexName
    BY Zenon DEF Named
  <2>2. QED
    BY Zenon, <2>1 DEF DbsOK
<1>2. QED
  BY Zenon, <1>1 DEF DbsOK

\* uploadBundle reads the bytes that are in the name of the bundle.
LEMMA ElementIsRight ==
  ASSUME IInv, RInv, pc = "build", partNo <= Len(bundle.Content),
         ElementFits(bundle.Content[partNo])
  PROVE  LET x == RightBytes(bundle.StorageName.plain)[partNo]
         IN  /\ ElementBytes(bundle.Content[partNo]) = <<x>>
             /\ x \in Chunk \X BOOLEAN
<1> DEFINE p == bundle.Content[partNo]
           piece == RightBytes(bundle.StorageName.plain)
<1>1. building \in DOMAIN vDB.Bundles /\ touched = {} /\ Running
  BY SMT DEF IInv, Progress, TypeOK, RInv, Undisturbed, Running
<1>2. WellFormed(vDB)
  BY Zenon DEF RInv, DbsOK
<1>3. bundle.Content \in Seq(Single(vDB.VFiles))
  BY Zenon, <1>1, <1>2 DEF WellFormed, bundle
<1>4. partNo \in 1..Len(bundle.Content)
  BY SMT, <1>3 DEF IInv, TypeOK
<1>5. p \in DOMAIN vDB.VFiles /\ Len(vDB.VFiles[p].Parts) = 1
  BY SMT, <1>3, <1>4 DEF Single
<1>6. PICK c \in Chunk : /\ piece[partNo] = <<c, UseCompression(<<c>>)>>
                         /\ ScanOf(vDB.VFiles[p], <<c>>)
  BY Zenon, <1>1, <1>2, <1>4, BundleBytes DEF bundle
<1>7. p \in DOMAIN disk /\ Scanned(p, disk[p])
  BY Zenon, <1>1, <1>5 DEF IInv, FilesUnchanged
<1>8. disk[p] \in Seq(Chunk)
  BY <1>7, UploadAssumption DEF IInv, TypeOK
<1> DEFINE u == UseCompression(<<c>>)
           compr == vDB.VFiles[p].UseCompression
<1>9. u \in BOOLEAN
  BY Zenon DEF UseCompression
<1> HIDE DEF p, piece, u
<1>10. <<c>> \in Seq(Chunk) /\ Len(<<c>>) = 1 /\ <<c>>[1] = c /\ 1 \in 1..Len(<<c>>)
  OBVIOUS
<1>11. /\ compr = UseCompression(<<c>>)
       /\ vDB.VFiles[p].Parts[1] = VFilePart(<<c>>[1], UseCompression(<<c>>))
  BY Zenon, <1>6, <1>10, ScanParts
<1>12. compr = u /\ vDB.VFiles[p].Parts[1] = VFilePart(c, u)
  BY Zenon, <1>10, <1>11 DEF u
<1>13. Len(disk[p]) = 1 /\ vDB.VFiles[p].Parts[1] = VFilePart(disk[p][1], compr)
  <2>1. Len(disk[p]) = 1
    BY Zenon, <1>5, <1>7 DEF Scanned
  <2>2. 1 \in 1..Len(disk[p])
    BY SMT, <2>1
  <2>3. QED
    BY Zenon, <1>7, <2>1, <2>2 DEF Scanned
<1>14. disk[p][1] = c
  <2>1. ASSUME NEW a, NEW b, NEW v, NEW w, VFilePart(a, v) = VFilePart(b, w)
        PROVE  a = b
    <3>1. PartName(a) = PartName(b)
      BY SMT, <2>1 DEF VFilePart
    <3>2. QED
      BY SMT, <3>1 DEF PartName
  <2>2. VFilePart(disk[p][1], compr) = VFilePart(c, u)
    BY Zenon, <1>12, <1>13
  <2> HIDE DEF compr
  <2>3. QED
    BY Zenon, <2>1, <2>2
<1> HIDE DEF compr
<1>15. [i \in DOMAIN disk[p] |-> <<disk[p][i], compr>>] = << <<c, compr>> >>
  BY <1>8, <1>13, <1>14
<1>16. ElementBytes(p) = << <<c, u>> >>
  BY Zenon, <1>12, <1>15 DEF ElementBytes, compr
<1>17. piece[partNo] = <<c, u>>
  BY Zenon, <1>6 DEF u
<1>18. <<c, u>> \in Chunk \X BOOLEAN
  BY SMT, <1>9
<1>19. QED
  BY Zenon, <1>16, <1>17, <1>18 DEF p, piece


LEMMA AddReads == ASSUME IInv, RInv, AddToBundle PROVE DataOK'
<1> DEFINE p == bundle.Content[partNo]
           piece == RightBytes(bundle.StorageName.plain)
<1>1. /\ pc = "build" /\ partNo <= Len(bundle.Content) /\ bundle' = bundle
  BY Zenon DEF AddToBundle, call, bundle
<1>2. CASE ElementFits(p)
  <2>1. data' = data \o ElementBytes(p) /\ partNo' = partNo + 1
    BY Zenon, <1>2 DEF AddToBundle
  <2>2. ElementBytes(p) = <<piece[partNo]>> /\ piece[partNo] \in Chunk \X BOOLEAN
    BY Zenon, <1>1, <1>2, ElementIsRight
  <2>3. /\ partNo \in 1..(Len(bundle.Content) + 1)
        /\ data \in Piece /\ Len(data) = partNo - 1
        /\ \A i \in 1..(partNo - 1) : data[i] = piece[i]
    BY Zenon, <1>1 DEF RInv, DataOK
  <2>4. building \in DOMAIN vDB.Bundles /\ WellFormed(vDB)
    BY Zenon, <1>1 DEF IInv, Progress, TypeOK, RInv, DbsOK
  <2>5. bundle.Content \in Seq(Single(vDB.VFiles))
    BY Zenon, <2>4 DEF WellFormed, bundle
  <2>6. Len(bundle.Content) \in Nat
    BY SMT, <2>5
  <2> HIDE DEF p, piece
  <2>7. PICK x \in Chunk \X BOOLEAN : x = piece[partNo] /\ data' = data \o <<x>>
    BY Zenon, <2>1, <2>2
  <2>8. data' \in Piece /\ Len(data') = partNo
    BY SMT, <2>3, <2>7 DEF Piece
  <2>9. \A i \in 1..partNo : data'[i] = piece[i]
    BY SMT, <2>3, <2>7 DEF Piece
  <2>10. partNo' \in 1..(Len(bundle.Content) + 1) /\ partNo' - 1 = partNo
    BY SMT, <1>1, <2>1, <2>3, <2>6
  <2>11. QED
    BY Zenon, <1>1, <2>8, <2>9, <2>10 DEF DataOK, piece
<1>3. CASE ~ElementFits(p)
  <2>1. pc' # "build"
    BY SMT, <1>3 DEF AddToBundle
  <2>2. QED
    BY Zenon, <2>1 DEF DataOK
<1>4. QED
  BY Zenon, <1>2, <1>3

\* All the elements have been read: the bundle has the bytes of its name.
LEMMA BundleSavedRight ==
  ASSUME IInv, RInv, SaveBundle PROVE RightStored(store')
<1> DEFINE piece == RightBytes(bundle.StorageName.plain)
<1>1. pc = "build" /\ partNo > Len(bundle.Content)
  BY Zenon DEF SaveBundle
<1>2. building \in DOMAIN vDB.Bundles /\ WellFormed(vDB)
  BY Zenon, <1>1 DEF IInv, Progress, TypeOK, RInv, DbsOK
<1>3. piece \in Piece /\ Len(piece) = Len(bundle.Content)
  BY Zenon, <1>2, BundleBytes DEF bundle
<1>4. /\ partNo \in 1..(Len(bundle.Content) + 1)
      /\ data \in Piece /\ Len(data) = partNo - 1
      /\ \A i \in 1..(partNo - 1) : data[i] = piece[i]
  BY Zenon, <1>1 DEF RInv, DataOK
<1> HIDE DEF piece
<1>5. Len(piece) \in Nat
  BY SMT, <1>3 DEF Piece
<1>6. Len(data) = Len(piece) /\ \A i \in 1..Len(data) : data[i] = piece[i]
  BY SMT, <1>1, <1>3, <1>4, <1>5
<1>7. data = piece
  BY <1>3, <1>4, <1>6, SeqEqual DEF Piece
<1>8. CASE SizeOf(data) = bundle.StorageSize
  <2>1. Save(bundle.StorageName, SizeOf(data), Stored(data))
    BY Zenon, <1>8 DEF SaveBundle
  <2>2. Stored(data) = Stored(RightBytes(bundle.StorageName.plain))
    BY Zenon, <1>7 DEF piece
  <2>3. RightStored(store)
    BY Zenon DEF RInv
  <2>4. QED
    BY Zenon, <2>1, <2>2, <2>3, SavedIsRight
<1>9. CASE SizeOf(data) # bundle.StorageSize
  BY Zenon, <1>9 DEF SaveBundle, storageVars, RInv
<1>10. QED
  BY Zenon, <1>8, <1>9

\* Steps that take nothing but files away.
LEMMA QuietReads ==
  ASSUME RInv, Undisturbed', DataOK', store' \subseteq store, vDB' = vDB
  PROVE  RInv'
<1>1. RightStored(store')
  BY Zenon DEF RInv, RightStored
<1>2. DbsOK'
  BY Zenon DEF RInv, DbsOK, Named
<1>3. QED
  BY Zenon, <1>1, <1>2 DEF RInv

\* Steps that save a file.
LEMMA SaveReads ==
  ASSUME RInv, Undisturbed', pc' # "build", vDB' = vDB,
         NEW name, NEW size, NEW body, Save(name, size, body),
         name = IndexName => body.db = vDB,
         RightStored(store')
  PROVE  RInv'
<1> DEFINE new == [id |-> lastId + 1, name |-> name, size |-> size, body |-> body]
<1>1. store' = store \cup {new}
  BY Zenon DEF Save
<1>2. new.name = name /\ new.body = body
  BY SMT
<1> HIDE DEF new
<1>3. new.body.db = vDB \/ new.name # IndexName
  BY Zenon, <1>2
<1>4. \A f \in Named(store', IndexName) : f \in Named(store, IndexName) \/ f = new
  BY Zenon, <1>1 DEF Named
<1>5. DbsOK'
  BY Zenon, <1>3, <1>4, DbsKept DEF RInv
<1>6. DataOK'
  BY Zenon DEF DataOK
<1>7. QED
  BY Zenon, <1>5, <1>6 DEF RInv

LEMMA UploadPartReads == ASSUME IInv, DInv, RInv, Undisturbed', UploadPart PROVE RInv'
<1> DEFINE part == vFile.Parts[partNo]
<1>1. pc = "part" /\ vDB' = vDB
  BY Zenon DEF UploadPart, call
<1>2. pc' # "build"
  BY SMT, <1>1 DEF UploadPart, NextPart
<1>3. CASE PartRefused
  <2>1. store' = store
    BY Zenon, <1>3 DEF UploadPart, storageVars
  <2>2. DataOK'
    BY Zenon, <1>2 DEF DataOK
  <2>3. QED
    BY Zenon, <1>1, <2>1, <2>2, QuietReads
<1>4. CASE ~PartRefused
  <2>1. Save(part.StorageName, PartLength, Stored(PartBytes))
    BY Zenon, <1>4 DEF UploadPart
  <2>2. PICK c \in Chunk : part = VFilePart(c, vFile.UseCompression)
    BY <1>1 DEF IInv, HandleOK, TypeOK, DInv, KindsOK, vFile
  <2> HIDE DEF part
  <2>3. part.StorageName = PartName(c)
    BY SMT, <2>2 DEF VFilePart
  <2>4. part.StorageName.kind # "bundle" /\ part.StorageName # IndexName
    BY SMT, <2>3 DEF PartName, IndexName
  <2>5. RightStored(store')
    BY Zenon, <2>1, <2>4, SavedIsRight DEF RInv
  <2>6. QED
    BY Zenon, <1>1, <1>2, <2>1, <2>4, <2>5, SaveReads
<1>5. QED
  BY Zenon, <1>3, <1>4

LEMMA SaveBundleReads ==
  ASSUME IInv, RInv, Undisturbed', SaveBundle PROVE RInv'
<1>1. pc = "build" /\ vDB' = vDB /\ pc' # "build" /\ RightStored(store')
  BY SMT, BundleSavedRight DEF SaveBundle, call
<1>2. CASE SizeOf(data) = bundle.StorageSize
  <2>1. Save(bundle.StorageName, SizeOf(data), Stored(data))
    BY Zenon, <1>2 DEF SaveBundle
  <2>2. building \in DOMAIN vDB.Bundles
    BY Zenon, <1>1 DEF IInv, Progress, TypeOK
  <2>3. bundle.StorageName # IndexName
    BY Zenon, <2>2, Names DEF bundle
  <2>4. QED
    BY Zenon, <1>1, <2>1, <2>3, SaveReads
<1>3. CASE SizeOf(data) # bundle.StorageSize
  <2>1. store' = store
    BY Zenon, <1>3 DEF SaveBundle, storageVars
  <2>2. DataOK'
    BY Zenon, <1>1 DEF DataOK
  <2>3. QED
    BY Zenon, <1>1, <2>1, <2>2, QuietReads
<1>4. QED
  BY Zenon, <1>2, <1>3

LEMMA SaveDbReads == ASSUME RInv, Undisturbed', SaveDb PROVE RInv'
<1>1. vDB' = vDB /\ Save(IndexName, 1, IndexBody(vDB))
  BY Zenon DEF SaveDb, call
<1>2. pc' # "build" /\ IndexName.kind # "bundle" /\ IndexBody(vDB).db = vDB
  BY SMT DEF SaveDb, IndexName, IndexBody
<1>3. RightStored(store')
  BY Zenon, <1>1, <1>2, SavedIsRight DEF RInv
<1>4. QED
  BY Zenon, <1>1, <1>2, <1>3, SaveReads


LEMMA CallReads == ASSUME IInv, RInv, Undisturbed', Call PROVE RInv'
<1>1. store' = store /\ pc' = "file" /\ WellFormed(vDB')
  BY Zenon, CallWellFormed DEF Call, storageVars, IInv
<1>2. DataOK'
  BY SMT, <1>1 DEF DataOK
<1>3. DbsOK'
  BY Zenon, <1>1 DEF RInv, DbsOK, Named
<1>4. QED
  BY Zenon, <1>1, <1>2, <1>3 DEF RInv

LEMMA BeginBundleReads ==
  ASSUME IInv, RInv, Undisturbed', BeginBundle PROVE RInv'
<1>1. /\ store' = store /\ vDB' = vDB /\ building' \in bundles
      /\ partNo' = 1 /\ data' = << >>
  BY Zenon DEF BeginBundle, storageVars, call
<1>2. building' \in DOMAIN vDB.Bundles /\ WellFormed(vDB)
  BY Zenon, <1>1 DEF IInv, TypeOK, RInv, DbsOK
<1>3. bundle'.Content \in Seq(Single(vDB.VFiles))
  BY Zenon, <1>1, <1>2 DEF WellFormed, bundle
<1>4. partNo' \in 1..(Len(bundle'.Content) + 1)
  BY SMT, <1>1, <1>3
<1>5. data' \in Piece /\ Len(data') = partNo' - 1 /\ 1..(partNo' - 1) = {}
  BY SMT, <1>1 DEF Piece
<1>6. DataOK'
  BY Zenon, <1>4, <1>5 DEF DataOK
<1>7. QED
  BY Zenon, <1>1, <1>6, QuietReads

LEMMA RInvStep ==
  ASSUME ~EditsDuringRun, IInv, DInv, RInv, [Next]_vars PROVE RInv'
<1>1. Undisturbed'
  BY Zenon, UndisturbedStep DEF RInv
<1>2. CASE Edit
  <2>1. /\ store' = store /\ vDB' = vDB /\ pc' = pc /\ ~Running
    BY Zenon, <1>2 DEF Edit, storageVars, call
  <2>2. DataOK'
    BY SMT, <2>1 DEF DataOK, Running
  <2>3. QED
    BY Zenon, <1>1, <2>1, <2>2, QuietReads
<1>3. CASE Abort \/ SkipFile \/ OpenFile \/ SkipPart \/ FilesDone \/ SkipBundle
             \/ BundlesDone \/ TrashDb
  <2>1. store' \subseteq store /\ vDB' = vDB
    BY Zenon, <1>3 DEF Abort, SkipFile, OpenFile, SkipPart, FilesDone, SkipBundle,
       BundlesDone, TrashDb, Trash, storageVars, call
  <2>2. pc' # "build"
    BY SMT, <1>3 DEF Abort, SkipFile, OpenFile, SkipPart, NextPart, FilesDone,
       SkipBundle, BundlesDone, TrashDb
  <2>3. DataOK'
    BY Zenon, <2>2 DEF DataOK
  <2>4. QED
    BY Zenon, <1>1, <2>1, <2>3, QuietReads
<1>4. CASE AddToBundle
  <2>1. store' = store /\ vDB' = vDB
    BY Zenon, <1>4 DEF AddToBundle, storageVars, call
  <2>2. QED
    BY Zenon, <1>1, <1>4, <2>1, AddReads, QuietReads
<1>5. CASE UNCHANGED vars
  <2>1. /\ store' = store /\ vDB' = vDB /\ pc' = pc /\ partNo' = partNo
        /\ data' = data /\ bundle' = bundle
    BY Zenon, <1>5 DEF vars, storageVars, call, fileLoop, bundleLoop, bundle
  <2>2. DataOK'
    BY Zenon, <2>1 DEF RInv, DataOK
  <2>3. QED
    BY Zenon, <1>1, <2>1, <2>2, QuietReads
<1>6. QED
  BY Zenon, <1>1, <1>2, <1>3, <1>4, <1>5, CallReads, BeginBundleReads,
     UploadPartReads, SaveBundleReads, SaveDbReads DEF Next, UploadStep

\* An index that is complete gives every file back.
LEMMA CompleteIsReadable == IInv /\ RInv => ReadsWhatWasScanned
<1> SUFFICES ASSUME IInv, RInv, NEW f \in Named(store, IndexName), excuse[f.id] = {},
                    NEW p \in DOMAIN f.body.db.VFiles
             PROVE  Open(p, f.body.db.VFiles[p], f.body.db, store)
                      = {ScannedContent(f.body.db.VFiles[p])}
  BY Zenon DEF ReadsWhatWasScanned
<1> DEFINE db == f.body.db
<1>1. WellFormed(db) /\ RightStored(store)
  BY Zenon DEF RInv, DbsOK
<1>2. ASSUME NEW i \in DOMAIN db.VFiles[p].Parts
      PROVE  ByAttr(store, db.VFiles[p].Parts[i]) # {}
  <2>1. db.VFiles[p].Parts[i] \in AllDbParts(db)
    <3> HIDE DEF db
    <3>1. db.VFiles[p].Parts[i] \in ToSet(db.VFiles[p].Parts)
      BY Zenon, <1>2 DEF ToSet
    <3>2. p \in DOMAIN db.VFiles
      BY Zenon DEF db
    <3>3. QED
      BY Zenon, <3>1, <3>2 DEF AllDbParts
  <2>2. Present(db.VFiles[p].Parts[i], db, {})
    BY Zenon, <2>1 DEF IInv, IndexComplete
  <2>3. QED
    BY Zenon, <2>2 DEF Present
<1> HIDE DEF db
<1>3. p \in DOMAIN db.VFiles
  BY Zenon DEF db
<1>4. Open(p, db.VFiles[p], db, store) = {ScannedContent(db.VFiles[p])}
  BY Zenon, <1>1, <1>2, <1>3, OpenIsRight
<1>5. QED
  BY Zenon, <1>4 DEF db

\* As long as the folder is left alone while a call runs, a reader of an index
\* that is online gets, for every file, what was scanned, through a bundle or
\* not: for all folders, contents and groupings, and whatever calls were cut
\* short before, between any two of their steps.
THEOREM PublishedIsReadable ==
  ASSUME ~EditsDuringRun
  PROVE  Spec => []ReadsWhatWasScanned
<1>1. Init => RInv
  <2>1. SUFFICES ASSUME Init PROVE RInv
    OBVIOUS
  <2>2. DOMAIN vDB.VFiles = {} /\ DOMAIN vDB.Bundles = {}
    BY SMT, <2>1 DEF Init
  <2>3. store = {} /\ pc # "build" /\ ~Running
    BY SMT, <2>1 DEF Init, Running
  <2>4. QED
    BY Zenon, <2>2, <2>3 DEF RInv, Undisturbed, DbsOK, WellFormed, Named, DataOK,
       RightStored
<1>2. IInv /\ DInv /\ RInv /\ [Next]_vars => RInv'
  BY RInvStep
<1>3. QED
  BY <1>1, <1>2, DInvInit, DInvStep, CompleteIsReadable, Invariant, PTL DEF Spec

=============================================================================

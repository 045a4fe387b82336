------------------------------- MODULE Upload -------------------------------
(***************************************************************************)
(* core.Upload: the publisher writes the parts of all files, then the      *)
(* bundles, then replaces the index.                                       *)
(*                                                                         *)
(* One call after the other is made, each with a db scanned when it is     *)
(* called.  Between any two steps the owner of the folder may edit it, and *)
(* the call may end early, because the process dies or because the service *)
(* or the operating system returns an error.                               *)
(***************************************************************************)
EXTENDS StorageService

CONSTANTS
  Contents,        \* the contents a file of the folder can have
  EditsDuringRun,  \* may the folder change while Upload runs?
  MaxRuns,         \* bound: calls of Upload
  MaxEdits         \* bound: edits of the folder

ASSUME UploadAssumption ==
  /\ Contents \subseteq Seq(Chunk)
  /\ \A s \in Contents : \A i \in 1..(Len(s) - 1) : PlainSize[s[i]] = PartSize
  /\ EditsDuringRun \in BOOLEAN
  /\ MaxRuns \in Nat /\ MaxEdits \in Nat

VARIABLES
  disk,           \* the local folder: path -> content, for the existing files
  vDB,            \* the argument of the call
  listing,        \* service.Files(), as of the last Update()
  uploadedParts,  \* the VFileParts saved by this call
  pc,             \* where the call is
  todo,           \* files the sorted list still holds
  partNo,         \* index of the next part, or of the next bundle element
  file,           \* path of the open file
  fh,             \* what the handle of the open file reads
  bundles,        \* ids of the bundles the map range has still to visit
  building,       \* id of the bundle under construction
  data,           \* its bytes so far
  oldDbs,         \* index files of the listing that are still to be trashed
  touched,        \* (ghost) paths edited since the call was made
  excuse,         \* (ghost) `touched' when an index was saved, by its id
  runs, edits     \* the counters the bounds are about

call == <<vDB, listing>>
fileLoop == <<todo, partNo, file, fh>>
bundleLoop == <<bundles, building, data>>
env == <<disk, touched, excuse, runs, edits>>
vars == <<storageVars, env, call, uploadedParts, pc, fileLoop, bundleLoop,
          oldDbs>>

Running == pc \in {"file", "part", "bundle", "build", "db"}

\* exists.  The two before it are plausible mistakes in it, for the mutation
\* runs, like all definitions below whose comment begins with (mutant).
ExistsByNameAndSize(part) ==
  \/ AsPart(part) \in uploadedParts
  \/ \E f \in listing : f.name = part.StorageName /\ f.size = part.StorageSize

ExistsOnlineOnly(part) == ByAttr(listing, part) # {}

Exists(part) ==
  \/ AsPart(part) \in uploadedParts
  \/ ByAttr(listing, part) # {}

\* The sorted list: the next file is the one with the smallest path.
IsNext(p) == p \in todo /\ \A q \in todo : p <= q

vFile == vDB.VFiles[file]

-----------------------------------------------------------------------------
Init ==
  /\ store = {} /\ lastId = 0
  /\ disk \in UNION {[D -> Contents] : D \in SUBSET Path}
  /\ vDB = [VFiles |-> << >>, Bundles |-> << >>]
  /\ listing = {} /\ uploadedParts = {}
  /\ pc = "idle" /\ todo = {} /\ partNo = 1 /\ file = 0 /\ fh = << >>
  /\ bundles = {} /\ building = NoBundle /\ data = << >> /\ oldDbs = {}
  /\ touched = {} /\ excuse = << >>
  /\ runs = 0 /\ edits = 0

\* The owner writes, creates or removes a file.  An open handle follows a write
\* in place and keeps the old content when the file is replaced or removed.
Edit ==
  /\ edits < MaxEdits
  /\ Running => EditsDuringRun
  /\ \E p \in Path :
       /\ \/ \E c \in Contents :
               /\ p \in DOMAIN disk => disk[p] # c
               /\ disk' = [q \in DOMAIN disk \cup {p} |->
                             IF q = p THEN c ELSE disk[q]]
               /\ fh' \in IF pc = "part" /\ p = file THEN {fh, c} ELSE {fh}
          \/ /\ p \in DOMAIN disk
             /\ disk' = [q \in DOMAIN disk \ {p} |-> disk[q]]
             /\ fh' = fh
       /\ touched' = IF Running THEN touched \cup {p} ELSE touched
  /\ edits' = edits + 1
  /\ UNCHANGED <<storageVars, excuse, runs, call, uploadedParts, pc, todo,
                 partNo, file, bundleLoop, oldDbs>>

\* (mutant) the loops are made from the db of the call before
StartOldLoops == todo' = DOMAIN vDB.VFiles /\ bundles' = DOMAIN vDB.Bundles

\* The loops of a call begin with all its files and bundles.
StartLoops == todo' = DOMAIN disk /\ bundles' = DOMAIN vDB'.Bundles

\* Upload is called with the db of a scan, and updates the file list.
Call ==
  /\ ~Running
  /\ runs < MaxRuns
  /\ LET vFiles == [p \in DOMAIN disk |-> ScanFile(disk[p])]
     IN  \E groups \in Groupings(vFiles) : vDB' = MakeBundles(vFiles, groups)
  /\ listing' = store
  /\ oldDbs' = Named(store, IndexName)
  /\ uploadedParts' = {}
  /\ StartLoops /\ file' = 0
  /\ building' = NoBundle /\ data' = << >>
  /\ pc' = "file" /\ partNo' = 1 /\ fh' = << >>
  /\ touched' = {}
  /\ runs' = runs + 1
  /\ UNCHANGED <<storageVars, disk, excuse, edits>>

\* An error of the service or of the operating system, or a crash.
Abort ==
  /\ Running
  /\ pc' = "failed"
  /\ UNCHANGED <<storageVars, env, call, uploadedParts, fileLoop, bundleLoop,
                 oldDbs>>

-----------------------------------------------------------------------------
\* uploadFile: folders and empty files are skipped.
SkipFile ==
  /\ pc = "file"
  /\ \E p \in todo : /\ IsNext(p) /\ Len(vDB.VFiles[p].Parts) = 0
                     /\ todo' = todo \ {p}
  /\ UNCHANGED <<storageVars, env, call, uploadedParts, pc, partNo, file, fh,
                 bundleLoop, oldDbs>>

\* uploadFile: open the file.
OpenFile ==
  /\ pc = "file"
  /\ \E p \in todo :
       /\ IsNext(p) /\ Len(vDB.VFiles[p].Parts) > 0
       /\ IF p \in DOMAIN disk
            THEN pc' = "part" /\ file' = p /\ fh' = disk[p] /\ partNo' = 1
            ELSE pc' = "failed" /\ UNCHANGED <<file, fh, partNo>>
  /\ UNCHANGED <<storageVars, env, call, uploadedParts, todo, bundleLoop,
                 oldDbs>>

\* (mutant) only the first part is uploaded
NextFile == pc' = "file" /\ todo' = todo \ {file} /\ UNCHANGED partNo

\* The parts loop of uploadFile goes on, or the file is done.
NextPart ==
  IF partNo < Len(vFile.Parts)
    THEN partNo' = partNo + 1 /\ UNCHANGED <<pc, todo>>
    ELSE pc' = "file" /\ todo' = todo \ {file} /\ UNCHANGED partNo

\* (mutant) a part that exists is looked at for ever
SkipPartAndStay ==
  /\ pc = "part" /\ Exists(vFile.Parts[partNo])
  /\ UNCHANGED vars

SkipPart ==
  /\ pc = "part" /\ Exists(vFile.Parts[partNo])
  /\ NextPart
  /\ UNCHANGED <<storageVars, env, call, uploadedParts, file, fh, bundleLoop,
                 oldDbs>>

\* (mutant) the part is sent uncompressed
PlainPartBytes ==
  IF partNo <= Len(fh) THEN << <<fh[partNo], FALSE>> >> ELSE << >>

\* What uploadPart reads and sends: nothing, if the file has become too short.
PartBytes ==
  IF partNo <= Len(fh) THEN << <<fh[partNo], vFile.UseCompression>> >> ELSE << >>

PartLength ==
  IF partNo <= Len(fh) THEN StoredSize(fh[partNo], vFile.UseCompression) ELSE 0

\* Only a compressed part has its size checked, and cannot be a second part.
PartRefused ==
  /\ vFile.UseCompression
  /\ partNo > 1 \/ PartLength # vFile.Parts[partNo].StorageSize

UploadPart ==
  LET part == vFile.Parts[partNo]
  IN  /\ pc = "part" /\ ~Exists(part)
      /\ IF PartRefused
           THEN pc' = "failed"
                /\ UNCHANGED <<storageVars, uploadedParts, todo, partNo>>
           ELSE /\ Save(part.StorageName, PartLength, Stored(PartBytes))
                /\ uploadedParts' = uploadedParts \cup {part}
                /\ NextPart
      /\ UNCHANGED <<env, call, file, fh, bundleLoop, oldDbs>>

FilesDone ==
  /\ pc = "file" /\ todo = {}
  /\ pc' = "bundle"
  /\ UNCHANGED <<storageVars, env, call, uploadedParts, fileLoop, bundleLoop,
                 oldDbs>>

-----------------------------------------------------------------------------
\* uploadBundle: the range over the map takes the bundles in any order.
SkipBundle ==
  /\ pc = "bundle"
  /\ \E id \in bundles : /\ Exists(vDB.Bundles[id])
                         /\ bundles' = bundles \ {id}
  /\ UNCHANGED <<storageVars, env, call, uploadedParts, pc, fileLoop, building,
                 data, oldDbs>>

BeginBundle ==
  /\ pc = "bundle"
  /\ building' \in {id \in bundles : ~Exists(vDB.Bundles[id])}
  /\ pc' = "build" /\ partNo' = 1 /\ data' = << >>
  /\ UNCHANGED <<storageVars, env, call, uploadedParts, todo, file, fh, bundles,
                 oldDbs>>

\* One element of bundle.Content is read, compressed if need be, and checked.
bundle == vDB.Bundles[building]

ElementBytes(p) ==
  [i \in DOMAIN disk[p] |-> <<disk[p][i], vDB.VFiles[p].UseCompression>>]

ElementFits(p) ==
  /\ p \in DOMAIN disk
  /\ Len(vDB.VFiles[p].Parts) = 1
  /\ SizeOf(ElementBytes(p)) = vDB.VFiles[p].Parts[1].StorageSize

AddToBundle ==
  /\ pc = "build" /\ partNo <= Len(bundle.Content)
  /\ LET p == bundle.Content[partNo]
     IN  IF ElementFits(p)
           THEN data' = data \o ElementBytes(p) /\ partNo' = partNo + 1
                /\ UNCHANGED pc
           ELSE pc' = "failed" /\ UNCHANGED <<data, partNo>>
  /\ UNCHANGED <<storageVars, env, call, uploadedParts, todo, file, fh, bundles,
                 building, oldDbs>>

SaveBundle ==
  /\ pc = "build" /\ partNo > Len(bundle.Content)
  /\ IF SizeOf(data) = bundle.StorageSize
       THEN /\ Save(bundle.StorageName, SizeOf(data), Stored(data))
            /\ uploadedParts' = uploadedParts \cup {AsPart(bundle)}
            /\ bundles' = bundles \ {building}
            /\ pc' = "bundle"
       ELSE pc' = "failed" /\ UNCHANGED <<storageVars, uploadedParts, bundles>>
  /\ UNCHANGED <<env, call, fileLoop, building, data, oldDbs>>

BundlesDone ==
  /\ pc = "bundle" /\ bundles = {}
  /\ pc' = "db"
  /\ UNCHANGED <<storageVars, env, call, uploadedParts, fileLoop, bundleLoop,
                 oldDbs>>

-----------------------------------------------------------------------------
\* uploadDb: every index of the listing is trashed, one call for each ...
TrashDb ==
  /\ pc = "db"
  /\ \E f \in oldDbs : Trash(f) /\ oldDbs' = oldDbs \ {f}
  /\ UNCHANGED <<env, call, uploadedParts, pc, fileLoop, bundleLoop>>

\* (mutant) the old indexes are trashed after the new one is saved, or never
OldDbsMayStay == TRUE

OldDbsTrashed == oldDbs = {}

\* ... and the new one saved.  Its bytes are different every time: they are
\* encrypted under a random nonce.
IndexBody(db) == [nonce |-> lastId + 1, db |-> db]

SaveDb ==
  /\ pc = "db" /\ OldDbsTrashed
  /\ Save(IndexName, 1, IndexBody(vDB))
  /\ excuse' = [i \in DOMAIN excuse \cup {lastId + 1} |->
                   IF i = lastId + 1 THEN touched ELSE excuse[i]]
  /\ pc' = "done"
  /\ UNCHANGED <<disk, touched, runs, edits, call, uploadedParts, fileLoop,
                 bundleLoop, oldDbs>>

-----------------------------------------------------------------------------
UploadStep ==
  \/ SkipFile \/ OpenFile \/ SkipPart \/ UploadPart \/ FilesDone
  \/ SkipBundle \/ BeginBundle \/ AddToBundle \/ SaveBundle \/ BundlesDone
  \/ TrashDb \/ SaveDb

Next == Edit \/ Call \/ Abort \/ UploadStep

Spec == Init /\ [][Next]_vars /\ WF_vars(UploadStep)

-----------------------------------------------------------------------------
Part == {VFilePart(c, compr) : c \in Chunk, compr \in BOOLEAN}

TypeOK ==
  /\ lastId \in Nat /\ \A f \in store : f.id \in 1..lastId
  /\ DOMAIN disk \subseteq Path /\ disk \in [DOMAIN disk -> Contents]
  /\ DOMAIN vDB.VFiles \subseteq Path
  /\ \A p \in DOMAIN vDB.VFiles : vDB.VFiles[p].Parts \in Seq(Part)
  /\ pc \in {"idle", "file", "part", "bundle", "build", "db", "done", "failed"}
  /\ todo \subseteq DOMAIN vDB.VFiles /\ file \in Nat
  /\ partNo \in Nat \ {0}
  /\ bundles \subseteq DOMAIN vDB.Bundles
  /\ touched \subseteq Path
  /\ DOMAIN excuse \subseteq 1..lastId
  /\ excuse \in [DOMAIN excuse -> SUBSET Path]

\* A file the db names is findable, or it is a part of a file that was edited
\* while the call ran.
Present(part, db, edited) ==
  \/ ByAttr(store, part) # {}
  \/ \E p \in edited \cap DOMAIN db.VFiles : part \in ToSet(db.VFiles[p].Parts)

\* "Finally the database is also uploaded": at any time, whatever call is under
\* way or was cut short, every part and bundle that an index online names is
\* online under its name, size and md5.  The only exceptions are the parts of
\* files that were edited during the call that wrote that index; an index of a
\* call without such edits is complete, also when earlier calls went wrong.
IndexComplete ==
  \A f \in Named(store, IndexName) :
    \A part \in AllDbParts(f.body.db) : Present(part, f.body.db, excuse[f.id])

\* "Prevent double uploads" (service.Update and uploadedParts): two files with
\* the same name, size and md5 never come about, in one call or by repeating
\* calls that were cut short, except where a file that changed while it was
\* read was saved under the name of its old content.
NoDoubleUpload ==
  \A f, g \in store :
    (f # g /\ f.name = g.name /\ f.size = g.size /\ f.body = g.body)
      => /\ f.name.kind = "part"
         /\ \A compr \in BOOLEAN :
              f.body # Stored(<< <<f.name.plain[1], compr>> >>)

\* uploadDb replaces the index: however the calls before it ended, there are
\* never two.
AtMostOneIndex == Cardinality(Named(store, IndexName)) <= 1

\* Every call that is not cut short comes to its end: uploadFile, uploadBundle
\* and uploadDb leave nothing for ever in their lists.
CallEnds == Running ~> ~Running

\* "exists checks whether a file exists on storage": what it answers for the
\* parts of the db under way is true of the storage.
ExistsIsTrue ==
  Running => \A part \in AllDbParts(vDB) :
               Exists(part) => ByAttr(store, part) # {}

=============================================================================

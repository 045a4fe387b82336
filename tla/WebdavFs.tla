------------------------------ MODULE WebdavFs ------------------------------
(***************************************************************************)
(* webdav._FileSystem: two goroutines, the update loop and the init loop,  *)
(* keep the db of the server up to date while requests open and read       *)
(* files, and a publisher elsewhere replaces the index and cleans up, one  *)
(* file after the other (module Clean).                                    *)
(*                                                                         *)
(* fs.vDb is a struct of two maps, written under the lock of dbMux in two  *)
(* steps here, because _File.Read reads it without the lock: what such a   *)
(* read sees during the assignment is any mixture of old and new.          *)
(***************************************************************************)
EXTENDS OpenFile

CONSTANTS
  Versions,    \* the dbs the publisher publishes, in this order
  Handle,      \* the files WebDAV clients can have open
  InitTries    \* rounds of the init loop, 6 in the code

ASSUME WebdavAssumption ==
  InitTries \in Nat \ {0} /\ Len(Versions) \in Nat \ {0}

ASSUME VersionsAssumption == \A n \in 1..Len(Versions) : IsSnapshot(Versions[n])

VARIABLES
  published,   \* number of versions whose index was saved
  pubPc,       \* the publisher: "parts", "trash", "save", "clean" or "cleaning"
  vDB, listing, removals, cleanPc,   \* of module Clean, which the publisher runs
  files,       \* service.Files() of the server
  vFiles,      \* fs.vDb.VFiles
  vBundles,    \* fs.vDb.Bundles
  dbFileId,    \* fs.dbFileId, 0 for ""
  dbMux,       \* who holds the write lock: a goroutine, or "free"
  pc,          \* where the goroutines "update" and "init" are
  indexFile,   \* the index file checkDb downloads, per goroutine
  tries,       \* rounds of the init loop so far
  handles      \* the open files

\* The publisher's Clean: its actions are taken, not its specification.
Cleaner == INSTANCE Clean WITH Try <- FALSE, Dbs <- {}

cleanVars == <<vDB, listing, removals, cleanPc>>
pubVars == <<storageVars, published, pubPc, cleanVars>>
dbVars == <<vFiles, vBundles, dbFileId>>
loopVars == <<dbMux, pc, indexFile, tries>>
vars == <<pubVars, files, dbVars, loopVars, handles>>

Loop == {"update", "init"}
Closed == [state |-> "closed"]
NoIndex == [id |-> 0]
Torn == [VFiles |-> vFiles, Bundles |-> vBundles]   \* fs.vDb as it is right now

-----------------------------------------------------------------------------
\* The publisher: parts and bundles, the old index, the new index, Clean.
BodyOf(db, part) ==
  IF part.StorageMd5 = AnyMd5
    THEN Stored(GroupBytes(db.VFiles, db.Bundles[part.StorageName].Content))
    ELSE part.StorageMd5

Missing(db) == {part \in AllDbParts(db) : ByAttr(store, part) = {}}

PublishPart ==
  /\ pubPc = "parts" /\ published < Len(Versions)
  /\ LET db == Versions[published + 1]
     IN  IF Missing(db) = {}
           THEN pubPc' = "trash" /\ UNCHANGED storageVars
           ELSE /\ UNCHANGED pubPc
                /\ LET part == CHOOSE part \in Missing(db) : TRUE
                   IN  Save(part.StorageName, part.StorageSize, BodyOf(db, part))
  /\ UNCHANGED <<published, cleanVars>>

PublishIndex ==
  /\ \/ /\ pubPc = "trash" /\ pubPc' = "save"
        /\ store' = store \ Named(store, IndexName)
        /\ UNCHANGED <<lastId, published>>
     \/ /\ pubPc = "save" /\ pubPc' = "clean"
        /\ Save(IndexName, 1, [nonce |-> lastId + 1, db |-> Versions[published + 1]])
        /\ published' = published + 1
  /\ UNCHANGED cleanVars

\* (mutant) the clean-up still works with the db of the last upload
OldVersion == Versions[IF published = 1 THEN 1 ELSE published - 1]

CleanedVersion == Versions[published]

\* Without --cleanup nothing is removed.  Else Clean lists the storage and
\* trashes one file per step, and may stop in between.
PublishClean ==
  /\ \/ /\ pubPc = "clean" /\ pubPc' = "parts"
        /\ UNCHANGED <<storageVars, cleanVars>>
     \/ /\ pubPc = "clean" /\ pubPc' = "cleaning"
        /\ Cleaner!CallClean(CleanedVersion)
     \/ /\ pubPc = "cleaning" /\ Cleaner!RemoveNext
        /\ UNCHANGED pubPc
     \/ /\ pubPc = "cleaning" /\ pubPc' = "parts"
        /\ Cleaner!CleanReturn \/ Cleaner!CleanAbort
  /\ UNCHANGED published

Publisher == /\ PublishPart \/ PublishIndex \/ PublishClean
             /\ UNCHANGED <<files, dbVars, loopVars, handles>>

-----------------------------------------------------------------------------
\* The update loop: service.Update(), which may fail, then checkDb.
Update(ok) ==
  /\ pc["update"] = "update"
  /\ files' = IF ok THEN store ELSE files
  /\ pc' = [pc EXCEPT !["update"] = "check"]
  /\ UNCHANGED <<pubVars, dbVars, dbMux, indexFile, tries, handles>>

\* (mutant) the init loop has a round too many
OneTryMore == tries >= InitTries

TriesUsedUp == tries + 1 >= InitTries

\* Where a goroutine goes when checkDb has returned.
AfterCheck(g, success) ==
  /\ dbMux' = "free"
  /\ indexFile' = [indexFile EXCEPT ![g] = NoIndex]
  /\ IF g = "update"
       THEN pc' = [pc EXCEPT ![g] = "update"] /\ UNCHANGED tries
       ELSE /\ tries' = tries + 1
            /\ pc' = [pc EXCEPT ![g] = IF success \/ TriesUsedUp
                                         THEN "end" ELSE "check"]

\* (mutants) checkDb without a lock; a check that only looks for a first db
CanAlwaysLock == TRUE

HasAnyDb == Named(files, IndexName) = {} \/ dbFileId # 0

CanLock == dbMux = "free"

NothingNew ==
  Named(files, IndexName) = {} \/ ByName(files, IndexName).id = dbFileId

\* checkDb takes the write lock and looks for a new index in the file list.
CheckDb(g) ==
  /\ pc[g] = "check" /\ CanLock
  /\ IF NothingNew
       THEN AfterCheck(g, FALSE)
       ELSE /\ dbMux' = g
            /\ indexFile' = [indexFile EXCEPT ![g] = ByName(files, IndexName)]
            /\ pc' = [pc EXCEPT ![g] = "download"]
            /\ UNCHANGED tries
  /\ UNCHANGED <<pubVars, files, dbVars, handles>>

\* The download works only while the index is online; it may always fail.
Download(g, ok) ==
  /\ pc[g] = "download"
  /\ ok => indexFile[g] \in store
  /\ IF ok
       THEN pc' = [pc EXCEPT ![g] = "set"] /\ UNCHANGED <<dbMux, indexFile, tries>>
       ELSE AfterCheck(g, FALSE)
  /\ UNCHANGED <<pubVars, files, dbVars, handles>>

\* fs.vDb = newDb, in two steps, and fs.dbFileId = f.Id().
SetVFiles(g) ==
  /\ pc[g] = "set"
  /\ vFiles' = indexFile[g].body.db.VFiles
  /\ pc' = [pc EXCEPT ![g] = "set2"]
  /\ UNCHANGED <<pubVars, files, vBundles, dbFileId, dbMux, indexFile, tries,
                 handles>>

\* (mutant) the id is looked up again after the download
IdFromList(g) ==
  IF Named(files, IndexName) = {} THEN 0 ELSE ByName(files, IndexName).id

IdOfDb(g) == indexFile[g].id

SetBundles(g) ==
  /\ pc[g] = "set2"
  /\ vBundles' = indexFile[g].body.db.Bundles
  /\ dbFileId' = IdOfDb(g)
  /\ AfterCheck(g, TRUE)
  /\ UNCHANGED <<pubVars, files, vFiles, handles>>

-----------------------------------------------------------------------------
\* OpenFile waits for the read lock and remembers the VirtFile; nothing else is
\* opened before the first Read.
OpenHandle(h, p) ==
  /\ handles[h] = Closed /\ dbMux = "free"
  /\ p \in DOMAIN vFiles
  /\ handles' = [handles EXCEPT ![h] =
       [state |-> "open", path |-> p, virtFile |-> vFiles[p], from |-> dbFileId]]
  /\ UNCHANGED <<pubVars, files, dbVars, loopVars>>

\* The first Read calls core.Open with fs.vDb as it finds it, without the lock.
\* A Read that fails (also for a file that was trashed after the listing) leaves
\* the handle as it is, and the next one tries again.
FirstRead(h) ==
  /\ handles[h].state = "open"
  /\ \E got \in Open(handles[h].path, handles[h].virtFile, Torn, files) \ {Failed} :
       handles' = [handles EXCEPT ![h] =
         [state |-> "read", path |-> handles[h].path,
          virtFile |-> handles[h].virtFile, from |-> handles[h].from,
          same |-> handles[h].from = dbFileId /\ dbMux = "free", got |-> got]]
  /\ UNCHANGED <<pubVars, files, dbVars, loopVars>>

CloseHandle(h) ==
  /\ handles[h] # Closed
  /\ handles' = [handles EXCEPT ![h] = Closed]
  /\ UNCHANGED <<pubVars, files, dbVars, loopVars>>

-----------------------------------------------------------------------------
Init ==
  /\ store = {} /\ lastId = 0 /\ published = 0 /\ pubPc = "parts"
  /\ vDB = [VFiles |-> << >>, Bundles |-> << >>] /\ listing = {}
  /\ removals = <<{}, {}, {}>> /\ cleanPc = "idle"
  /\ files = {}
  /\ vFiles = << >> /\ vBundles = << >> /\ dbFileId = 0
  /\ dbMux = "free"
  /\ pc = [g \in Loop |-> IF g = "update" THEN "update" ELSE "check"]
  /\ indexFile = [g \in Loop |-> NoIndex] /\ tries = 0
  /\ handles = [h \in Handle |-> Closed]

LoopStep(g) ==
  \/ g = "update" /\ \E ok \in BOOLEAN : Update(ok)
  \/ CheckDb(g)
  \/ \E ok \in BOOLEAN : Download(g, ok)
  \/ SetVFiles(g) \/ SetBundles(g)

Request(h) == (\E p \in Path : OpenHandle(h, p)) \/ FirstRead(h) \/ CloseHandle(h)

Next == \/ Publisher
        \/ \E g \in Loop : LoopStep(g)
        \/ \E h \in Handle : Request(h)

\* The goroutines run whenever they can, the lock is fair to them (a waiting
\* Lock holds back later RLocks), and neither Update nor the download of an
\* index that stays online fails for ever.  The publisher ends what it began.
Fairness ==
  /\ WF_vars(Publisher)
  /\ \A g \in Loop : WF_vars(LoopStep(g)) /\ SF_vars(CheckDb(g))
                     /\ SF_vars(Download(g, TRUE))
  /\ SF_vars(Update(TRUE))

Spec == Init /\ [][Next]_vars /\ Fairness

-----------------------------------------------------------------------------
Indexes(fs) == Named(fs, IndexName)
Free == dbMux = "free"

TypeOK ==
  /\ published \in 0..Len(Versions)
  /\ pubPc \in {"parts", "trash", "save", "clean", "cleaning"}
  /\ \A f \in files : f.id \in 1..lastId
  /\ dbFileId \in 0..lastId
  /\ dbMux \in Loop \cup {"free"}
  /\ pc \in [Loop -> {"update", "check", "download", "set", "set2", "end"}]
  /\ tries \in 0..InitTries
  /\ \A h \in Handle : handles[h].state \in {"closed", "open", "read"}

\* checkDb: outside the lock, the db is the one of the index whose id the server
\* keeps to detect changes, in both its halves.  (With another id next to it the
\* server would never fetch that index.)
DbMatchesId ==
  Free => \A f \in Indexes(store \cup files) :
            f.id = dbFileId => f.body.db = Torn

\* Two goroutines run checkDb, with downloads of any duration, on a list that
\* is updated behind their backs: the server never goes back to an older index.
NeverOlder == [][dbFileId' >= dbFileId]_vars

\* The index is published after all it names, and Clean, which trashes one file
\* after the other and may stop anywhere, takes nothing the index names: a server
\* can read everything as long as its index is the one online, from the storage
\* and by each list that shows that index, fetched before, during or after Clean.
ServedIsComplete ==
  Free => \A fs \in {store, files} :
            (\E f \in Indexes(fs) : f.id = dbFileId)
              => \A part \in AllDbParts(Torn) : ByAttr(fs, part) # {}

\* A file that is opened and first read under the same db, outside an
\* assignment, has its own content or an error.  No list turns that into other
\* bytes: not an old one, not one of a half-cleaned storage, and not one with
\* bundles that a clean-up without bundle mode has left behind.
FreshReadIsRight ==
  \A h \in Handle :
    (handles[h].state = "read" /\ handles[h].same)
      => handles[h].got = ScannedContent(handles[h].virtFile)

\* "posInBundle returns the offset at which point the file data starts in the
\* bundle", and Open gives the content of the VirtFile that was opened.
ReadIsRight ==
  \A h \in Handle :
    handles[h].state = "read"
      => handles[h].got = ScannedContent(handles[h].virtFile)

\* Once the publisher has published its last version, the server comes to serve
\* it and stays with it, whatever updates and downloads fail on the way.
EventuallyCurrent ==
  <>[](/\ published = Len(Versions)
       /\ \A f \in Indexes(store) : f.id = dbFileId)

=============================================================================

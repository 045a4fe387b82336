------------------------------ MODULE Publisher ------------------------------
(***************************************************************************)
(* main.upload: the commands `splitfs scan' and `splitfs upload', one      *)
(* process after the other.  A command reads the local db, scans the       *)
(* folder, and returns if nothing has changed.  Else it makes bundles,     *)
(* runs core.Upload (module Upload) and, if asked to, core.Clean (module   *)
(* Clean), and writes the local db last and in place.  It can die between  *)
(* any two steps.                                                          *)
(*                                                                         *)
(* The scan is a single step here, and no two edits have the same mtime:   *)
(* module ScanFolder is about both.                                        *)
(***************************************************************************)
EXTENDS Upload

CONSTANTS
  Root,        \* the path of the folder itself
  MaxDeaths,   \* bound: commands that die
  MaxForced    \* bound: commands with the force flag

ASSUME PublisherAssumption ==
  Root \notin Path /\ MaxDeaths \in Nat /\ MaxForced \in Nat

VARIABLES
  mtime,      \* mtime of each path, and of the folder itself
  localDb,    \* the local db file: FileSize and MTime of each element in it
  command,    \* where the command is, "none" if no command runs
  scanOnly,   \* is it `scan'?
  scanned,    \* size and mtime of each element in newDb
  removals, cleanPc,   \* of module Clean
  behind,     \* (ghost) the local db can be ahead of the index: it was written
              \* by a scan, or the upload of an unchanged folder was forced
  deaths, forced   \* the counters the bounds are about

\* Its actions are taken from Clean, not its specification with the calls.
Cleaner == INSTANCE Clean WITH Try <- FALSE, Dbs <- {}

cleanVars == <<removals, cleanPc>>
mainVars == <<localDb, command, scanOnly, scanned, behind>>
bounds == <<deaths, forced>>
publisherVars == <<vars, mtime, mainVars, cleanVars, bounds>>

-----------------------------------------------------------------------------
\* The local db file, as it is before the first command, and after os.Create.
NoFile == [state |-> "none", stat |-> << >>]
Truncated == [state |-> "truncated", stat |-> << >>]
DbFile(stat) == [state |-> "saved", stat |-> stat]

\* FromFile: both read as an empty db (in the second case with an error, which
\* main.upload only prints).
OldDb == localDb.stat

\* (mutant) an error of FromFile ends the command
FromFileSucceeds == localDb.state # "truncated"

FromFileReturns == TRUE

FolderStat == [p \in DOMAIN disk \cup {Root} |-> mtime[p]]

\* (mutant) only the files that are there are looked at
NewOrUpdatedFile ==
  \/ OldDb = << >>
  \/ \E p \in DOMAIN disk : p \in DOMAIN OldDb => OldDb[p] # mtime[p]

\* FromScan: an element is new, has another size or mtime, or is gone.
Changed == OldDb # FolderStat

\* A change of the folder sets the mtime of the file, and that of the folder
\* when a name comes or goes.
EditFolder ==
  /\ Edit
  /\ mtime' = [p \in DOMAIN mtime |->
       IF \/ p = Root /\ DOMAIN disk' # DOMAIN disk
          \/ p \in DOMAIN disk' /\ ~(p \in DOMAIN disk /\ disk[p] = disk'[p])
         THEN edits' ELSE mtime[p]]
  /\ UNCHANGED <<mainVars, cleanVars, bounds>>

-----------------------------------------------------------------------------
\* FromFile, FromScan and MakeBundles.
Begin(force) ==
  /\ command = "none" /\ FromFileReturns
  /\ Changed \/ force
  /\ forced' = IF force THEN forced + 1 ELSE forced
  /\ forced' <= MaxForced
  /\ scanned' = FolderStat
  /\ UNCHANGED <<mtime, localDb, cleanVars, deaths>>

StartScan(force) ==
  /\ Begin(force)
  /\ LET vFiles == [p \in DOMAIN disk |-> ScanFile(disk[p])]
     IN  \E groups \in Groupings(vFiles) : vDB' = MakeBundles(vFiles, groups)
  /\ command' = "create" /\ scanOnly' = TRUE
  /\ UNCHANGED <<storageVars, env, listing, uploadedParts, pc, fileLoop,
                 bundleLoop, oldDbs, behind>>

StartUpload(force) ==
  /\ Begin(force)
  /\ Call
  /\ command' = "upload" /\ scanOnly' = FALSE
  /\ behind' = (behind \/ ~Changed)

RunUpload ==
  /\ command = "upload" /\ UploadStep
  /\ UNCHANGED <<mtime, mainVars, cleanVars, bounds>>

\* Upload returns; --cleanup asks for service.Update() and Clean.
UploadReturns ==
  /\ command = "upload" /\ pc \in {"done", "failed"}
  /\ \/ /\ pc = "failed" /\ command' = "none"
        /\ UNCHANGED <<vars, cleanVars>>
     \/ /\ pc = "done" /\ command' = "create"
        /\ UNCHANGED <<vars, cleanVars>>
     \/ /\ pc = "done" /\ command' = "clean"
        /\ Cleaner!CallClean(vDB)
        /\ UNCHANGED <<env, uploadedParts, pc, fileLoop, bundleLoop, oldDbs>>
  /\ UNCHANGED <<mtime, localDb, scanOnly, scanned, behind, bounds>>

RunClean ==
  /\ command = "clean"
  /\ \/ Cleaner!RemoveNext /\ UNCHANGED command
     \/ Cleaner!CleanReturn /\ command' = "create"
  /\ UNCHANGED <<env, uploadedParts, pc, fileLoop, bundleLoop, oldDbs, mtime,
                 localDb, scanOnly, scanned, behind, bounds>>

\* ToFile: os.Create truncates the file, then its new content is written.
CreateDb ==
  /\ command = "create" /\ command' = "write"
  /\ localDb' = Truncated
  /\ UNCHANGED <<vars, mtime, cleanVars, scanOnly, scanned, behind, bounds>>

WriteDb ==
  /\ command = "write" /\ command' = "none"
  /\ localDb' = DbFile(scanned)
  /\ behind' = scanOnly
  /\ UNCHANGED <<vars, mtime, cleanVars, scanOnly, scanned, bounds>>

\* The process dies, or an error of the service or of the operating system ends
\* it: os.Exit, whatever it was doing.
Die ==
  /\ command # "none" /\ deaths < MaxDeaths
  /\ command' = "none" /\ deaths' = deaths + 1
  /\ pc' = IF Running THEN "failed" ELSE pc
  /\ cleanPc' = IF cleanPc = "removing" THEN "failed" ELSE cleanPc
  /\ UNCHANGED <<storageVars, env, call, uploadedParts, fileLoop, bundleLoop,
                 oldDbs, mtime, localDb, scanOnly, scanned, removals, behind,
                 forced>>

-----------------------------------------------------------------------------
PublisherInit ==
  /\ Init
  /\ mtime = [p \in Path \cup {Root} |-> 0]
  /\ localDb = NoFile
  /\ command = "none" /\ scanOnly = FALSE /\ scanned = << >>
  /\ removals = <<{}, {}, {}>> /\ cleanPc = "idle"
  /\ behind = FALSE /\ deaths = 0 /\ forced = 0

Proceed ==
  RunUpload \/ UploadReturns \/ RunClean \/ CreateDb \/ WriteDb

PublisherNext ==
  \/ EditFolder
  \/ \E force \in BOOLEAN : StartScan(force) \/ StartUpload(force)
  \/ Proceed
  \/ Die

\* Commands run to their end, and `splitfs upload' is called again and again.
PublisherSpec ==
  /\ PublisherInit /\ [][PublisherNext]_publisherVars
  /\ WF_publisherVars(Proceed)
  /\ WF_publisherVars(StartUpload(FALSE))

-----------------------------------------------------------------------------
Published == disk \in {FolderOf(f.body.db) : f \in Named(store, IndexName)}

\* "no change AND no upload-force": when a command would return because nothing
\* has changed, the index online describes the folder as it is.  The exceptions
\* are a local db that a scan has written since the last upload, and the forced
\* upload of an unchanged folder that has not come to its end.
UnchangedIsPublished == ~Changed /\ ~behind => Published

\* "Saves the local files encrypted in the online folder": an upload that finds
\* nothing to do leaves the folder online, whatever commands there were before.
NothingSkipped == command = "none" /\ ~Changed => Published

\* However commands die, however uploads are cut short and local db files left
\* half-written: when the edits end, calling upload again gets the folder online.
EventuallyPublished == <>[](Published \/ behind)

\* Upload, Clean and the deaths of commands together implement Mirror.
MirrorOf == INSTANCE Mirror WITH
  folder <- disk,
  draft  <- FolderOf(vDB),
  online <- {FolderOf(f.body.db) : f \in Named(store, IndexName)}

MirrorSpec == MirrorOf!Spec

=============================================================================

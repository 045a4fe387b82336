----------------------------- MODULE ScanFolder -----------------------------
(***************************************************************************)
(* db.FromScan and db.ScanFile, step by step, while the owner edits the    *)
(* folder.  An entry of the old db is taken over when size, kind and mtime *)
(* agree, and mtimes are seconds: an element that is changed twice in one  *)
(* second can be mistaken for what it was after the first change.          *)
(*                                                                         *)
(* The folder holds files and empty subfolders.  One scan follows the      *)
(* other; a scan that finds a change saves its db, which is the old db of  *)
(* the next one, and an error leaves the old one in place.  Nobody sets a  *)
(* mtime by hand.                                                          *)
(***************************************************************************)
EXTENDS VirtDb

CONSTANTS
  Root,       \* the path of the folder itself
  Contents,   \* the contents a file can have
  Dir,        \* what stands for a subfolder in place of a content
  MaxEdits,   \* bound: changes of the folder
  MaxClock    \* bound: seconds that pass

ASSUME ScanAssumption ==
  /\ Root \notin Path /\ Dir \notin Contents
  /\ Contents \subseteq Seq(Chunk)
  /\ \A s \in Contents : \A i \in 1..(Len(s) - 1) : PlainSize[s[i]] = PartSize
  /\ MaxEdits \in Nat /\ MaxClock \in Nat \ {0}

VARIABLES
  disk,       \* path -> content of the file, or Dir
  mtime,      \* mtime of each path, and of the folder itself, in seconds
  clock,      \* the present second
  localDb,    \* the db of the last scan that found a change
  pc,         \* where the scan is, "idle" if there is none
  names,      \* names Walk read from the folder and has still to look at
  listed,     \* names getDirEntries read, for the folder's own entry
  rootEntry,  \* the VirtFile of the folder itself
  oldDb,      \* the clone of localDb, less the paths that were visited
  newDb, changed,
  path,       \* the path ScanFile is at
  vFile,      \* the VirtFile it makes
  comprSize,  \* result of tryCompression
  fh,         \* what its file handle reads
  sha,        \* the plain hash of the current part
  calm,       \* (ghost) no edit since the scan began
  lastEdit,   \* (ghost) second of the last change of a path
  blurred,    \* (ghost) the paths changed twice in that second
  edits       \* the counter the bound is about

folder == <<disk, mtime>>
ghosts == <<lastEdit, blurred, edits>>
scan == <<listed, rootEntry, oldDb, newDb, changed>>
scanFile == <<path, vFile, comprSize, fh, sha>>
vars == <<folder, clock, localDb, pc, names, scan, scanFile, calm, ghosts>>

PlainLength(content) == FoldLeft(LAMBDA n, c : n + PlainSize[c], 0, content)
ComprLength(content) == FoldLeft(LAMBDA n, c : n + ComprSize[c], 0, content)

\* What os.Stat and Lstat tell; the size of a folder is set to 0.
Stat(p) ==
  [IsDir    |-> disk[p] = Dir,
   FileSize |-> IF disk[p] = Dir THEN 0 ELSE PlainLength(disk[p]),
   MTime    |-> mtime[p]]

StatOf(entry) ==
  [IsDir |-> entry.IsDir, FileSize |-> entry.FileSize, MTime |-> entry.MTime]

\* The VirtFile of a folder.
FolderEntry(seconds, content) ==
  [IsDir |-> TRUE, FileSize |-> 0, MTime |-> seconds, FolderContent |-> content,
   Parts |-> << >>, UseCompression |-> FALSE]

\* Names and kinds, as getDirEntries lists them.
Listing(S) == [p \in S |-> disk[p] = Dir]

-----------------------------------------------------------------------------
\* The owner writes a file in place, replaces it, creates or removes an element.
\* A handle follows a write in place only.
Touch(S) ==
  /\ mtime' = [q \in DOMAIN mtime |-> IF q \in S THEN clock ELSE mtime[q]]
  /\ lastEdit' = [q \in DOMAIN lastEdit |-> IF q \in S THEN clock ELSE lastEdit[q]]
  /\ blurred' = (blurred \ S) \cup {q \in S : lastEdit[q] = clock}

Edit ==
  /\ edits < MaxEdits /\ edits' = edits + 1
  /\ calm' = FALSE
  /\ \E p \in Path :
       \/ /\ p \in DOMAIN disk /\ disk[p] # Dir
          /\ \E c \in Contents \ {disk[p]} :
               /\ disk' = [disk EXCEPT ![p] = c]
               /\ \/ fh' = fh /\ Touch({p, Root})
                  \/ /\ fh' = IF pc \in {"hash", "md5"} /\ p = path THEN c ELSE fh
                     /\ Touch({p})
       \/ /\ p \notin DOMAIN disk
          /\ \E c \in Contents \cup {Dir} :
               disk' = [q \in DOMAIN disk \cup {p} |-> IF q = p THEN c ELSE disk[q]]
          /\ fh' = fh /\ Touch({p, Root})
       \/ /\ p \in DOMAIN disk
          /\ disk' = [q \in DOMAIN disk \ {p} |-> disk[q]]
          /\ fh' = fh /\ Touch({p, Root})
  /\ UNCHANGED <<clock, localDb, pc, names, scan, path, vFile, comprSize, sha>>

Tick ==
  /\ clock < MaxClock /\ clock' = clock + 1
  /\ UNCHANGED <<folder, localDb, pc, names, scan, scanFile, calm, ghosts>>

-----------------------------------------------------------------------------
\* (mutant) two files with the same mtime are the same
SameMTime(p, stat) == p \in DOMAIN oldDb /\ oldDb[p].MTime = stat.MTime

\* The element is in the old db and has not changed.
Unchanged(p, stat) == p \in DOMAIN oldDb /\ StatOf(oldDb[p]) = stat

\* (mutant) an element stays in the old db when it was visited
VisitedAndKept(p, entry) ==
  /\ newDb' = [q \in DOMAIN newDb \cup {p} |-> IF q = p THEN entry ELSE newDb[q]]
  /\ UNCHANGED oldDb

\* The walk function has its entry for an element.
Visited(p, entry) ==
  /\ newDb' = [q \in DOMAIN newDb \cup {p} |-> IF q = p THEN entry ELSE newDb[q]]
  /\ oldDb' = [q \in DOMAIN oldDb \ {p} |-> oldDb[q]]

\* An error ends the walk, and the command.
ScanError ==
  /\ pc' = "idle"
  /\ UNCHANGED <<localDb, names, scan, scanFile>>

\* Walk begins with the stat of the folder itself ...
StartScan ==
  /\ pc = "idle" /\ pc' = "walk"
  /\ oldDb' = localDb /\ newDb' = << >>
  /\ rootEntry' = FolderEntry(mtime[Root], << >>)
  /\ changed' = ~(Root \in DOMAIN localDb /\ localDb[Root].MTime = mtime[Root])
  /\ calm' = TRUE
  /\ UNCHANGED <<folder, clock, localDb, names, listed, scanFile, ghosts>>

\* ... whose names it reads, before it calls the walk function ...
WalkNames ==
  /\ pc = "walk" /\ pc' = "list"
  /\ names' = DOMAIN disk
  /\ UNCHANGED <<folder, clock, localDb, scan, scanFile, calm, ghosts>>

\* ... in which getDirEntries reads the names again ...
ListNames ==
  /\ pc = "list" /\ pc' = "kinds"
  /\ listed' = DOMAIN disk
  /\ UNCHANGED <<folder, clock, localDb, names, rootEntry, oldDb, newDb, changed,
                 scanFile, calm, ghosts>>

\* ... and stats each of them.
ListKinds ==
  /\ pc = "kinds"
  /\ IF listed \subseteq DOMAIN disk
       THEN /\ pc' = "visit"
            /\ rootEntry' = FolderEntry(rootEntry.MTime, Listing(listed))
            /\ Visited(Root, rootEntry')
            /\ UNCHANGED <<localDb, names, listed, changed, scanFile>>
       ELSE ScanError
  /\ UNCHANGED <<folder, clock, calm, ghosts>>

Smallest(S) == CHOOSE p \in S : \A q \in S : p <= q

\* The next element: gone, as it was, a folder, or a file to be scanned.
Visit ==
  /\ pc = "visit" /\ names # {}
  /\ LET p == Smallest(names)
     IN  IF p \notin DOMAIN disk
           THEN ScanError
           ELSE /\ names' = names \ {p}
                /\ IF Unchanged(p, Stat(p))
                     THEN Visited(p, oldDb[p]) /\ UNCHANGED <<pc, changed, path>>
                     ELSE /\ changed' = TRUE
                          /\ IF disk[p] = Dir
                               THEN /\ Visited(p, FolderEntry(mtime[p], << >>))
                                    /\ UNCHANGED <<pc, path>>
                               ELSE /\ pc' = "stat" /\ path' = p
                                    /\ UNCHANGED <<oldDb, newDb>>
                /\ UNCHANGED <<localDb, listed, rootEntry, vFile, comprSize, fh, sha>>
  /\ UNCHANGED <<folder, clock, calm, ghosts>>

-----------------------------------------------------------------------------
IsFile(p) == p \in DOMAIN disk /\ disk[p] # Dir

\* getFileStat.
StatFile ==
  /\ pc = "stat"
  /\ IF IsFile(path)
       THEN /\ pc' = "compr"
            /\ vFile' = [IsDir |-> FALSE, FileSize |-> Stat(path).FileSize,
                         MTime |-> mtime[path], FolderContent |-> << >>,
                         Parts |-> << >>, UseCompression |-> FALSE]
            /\ UNCHANGED <<localDb, names, scan, path, comprSize, fh, sha>>
       ELSE ScanError
  /\ UNCHANGED <<folder, clock, calm, ghosts>>

\* tryCompression reads the whole file, if it was small enough.
TryCompression ==
  /\ pc = "compr"
  /\ LET small == vFile.FileSize <= MaxFileSizeForCompression /\ vFile.FileSize < PartSize
         content == disk[path]
         compr == small /\ 10 * ComprLength(content) < 8 * PlainLength(content)
     IN  IF small /\ ~IsFile(path)
           THEN ScanError
           ELSE /\ pc' = "open"
                /\ vFile' = [vFile EXCEPT !.UseCompression = compr]
                /\ comprSize' = IF compr THEN ComprLength(content) ELSE vFile.FileSize
                /\ UNCHANGED <<localDb, names, scan, path, fh, sha>>
  /\ UNCHANGED <<folder, clock, calm, ghosts>>

OpenFile ==
  /\ pc = "open"
  /\ IF IsFile(path)
       THEN /\ pc' = "hash" /\ fh' = disk[path]
            /\ UNCHANGED <<localDb, names, scan, path, vFile, comprSize, sha>>
       ELSE ScanError
  /\ UNCHANGED <<folder, clock, calm, ghosts>>

partNo == Len(vFile.Parts) + 1

\* (mutant) the entry gets size and mtime as they are after the last read
StatAtEnd ==
  [vFile EXCEPT !.FileSize = IF IsFile(path) THEN Stat(path).FileSize ELSE @,
                !.MTime = mtime[path]]

EntryOfFile == vFile

\* plainSHA512: the loop ends with the first part of no bytes.
HashPart ==
  /\ pc = "hash"
  /\ IF partNo <= Len(fh)
       THEN /\ pc' = "md5" /\ sha' = <<fh[partNo]>>
            /\ UNCHANGED <<oldDb, newDb>>
       ELSE /\ pc' = "visit" /\ Visited(path, EntryOfFile)
            /\ UNCHANGED sha
  /\ UNCHANGED <<folder, clock, localDb, names, listed, rootEntry, changed, path, vFile,
                 comprSize, fh, calm, ghosts>>

\* cryptMD5 reads the part again, and checks its size.
CryptMd5 ==
  /\ pc = "md5"
  /\ LET compr == vFile.UseCompression
         storageSize == IF compr THEN comprSize ELSE PlainSize[sha[1]]
     IN  IF \/ compr /\ partNo > 1
            \/ partNo > Len(fh)
            \/ StoredSize(fh[partNo], compr) # storageSize
           THEN ScanError
           ELSE /\ pc' = "hash"
                /\ vFile' = [vFile EXCEPT !.Parts = Append(@,
                     [StorageName |-> PartName(sha[1]), StorageSize |-> storageSize,
                      StorageMd5 |-> Stored(<< <<fh[partNo], compr>> >>)])]
                /\ UNCHANGED <<localDb, names, scan, path, comprSize, fh, sha>>
  /\ UNCHANGED <<folder, clock, calm, ghosts>>

\* (mutant) what is left of the old db is not looked at
IgnoreLeftovers == changed

\* "If there is anything left, something has changed!"
FinallyChanged == changed \/ DOMAIN oldDb # {}

\* FromScan returns.  Without a change main.upload returns, too.
EndScan ==
  /\ pc = "visit" /\ names = {}
  /\ pc' = "idle"
  /\ localDb' = IF FinallyChanged THEN newDb ELSE localDb
  /\ UNCHANGED <<folder, clock, names, scan, scanFile, calm, ghosts>>

-----------------------------------------------------------------------------
Init ==
  /\ disk \in UNION {[D -> Contents \cup {Dir}] : D \in SUBSET Path}
  /\ mtime = [p \in Path \cup {Root} |-> 0]
  /\ clock = 1 /\ localDb = << >>
  /\ pc = "idle" /\ names = {} /\ listed = {}
  /\ rootEntry = FolderEntry(0, << >>)
  /\ oldDb = << >> /\ newDb = << >> /\ changed = FALSE
  /\ path = Root /\ vFile = rootEntry /\ comprSize = 0 /\ fh = << >> /\ sha = << >>
  /\ calm = TRUE
  /\ lastEdit = mtime /\ blurred = {} /\ edits = 0

ScanStep ==
  \/ WalkNames \/ ListNames \/ ListKinds \/ Visit \/ StatFile \/ TryCompression
  \/ OpenFile \/ HashPart \/ CryptMd5 \/ EndScan

Next == Edit \/ Tick \/ StartScan \/ ScanStep

\* A scan is run to its end, and scans are run again and again.
Spec == Init /\ [][Next]_vars /\ WF_vars(ScanStep) /\ WF_vars(StartScan)

-----------------------------------------------------------------------------
TypeOK ==
  /\ DOMAIN disk \subseteq Path
  /\ clock \in 1..MaxClock
  /\ mtime \in [Path \cup {Root} -> 0..clock]
  /\ pc \in {"idle", "walk", "list", "kinds", "visit", "stat", "compr", "open",
             "hash", "md5"}
  /\ names \subseteq Path /\ listed \subseteq Path /\ path \in Path \cup {Root}
  /\ DOMAIN localDb \subseteq Path \cup {Root}
  /\ DOMAIN oldDb \cap DOMAIN newDb = {}
  /\ blurred \subseteq Path \cup {Root}

\* The entry says what is in the folder: kind and size always, the parts unless
\* the element was changed twice in one second.
Describes(entry, p) ==
  /\ StatOf(entry) = Stat(p)
  /\ p \notin blurred /\ ~entry.IsDir
       => /\ entry.Parts = ScanFile(disk[p]).Parts
          /\ entry.UseCompression = ScanFile(disk[p]).UseCompression

DescribesFolder(db) ==
  /\ DOMAIN db = DOMAIN disk \cup {Root}
  /\ \A p \in DOMAIN disk : Describes(db[p], p)

\* "FromScan scan a root folder and return a new db": whatever was written under
\* the eyes of this scan's predecessors, a scan nobody disturbs describes the
\* folder as it is, with the entries it takes over, except for what was changed
\* twice in a second.
ScanIsExact ==
  (pc = "visit" /\ names = {} /\ calm)
    => /\ DescribesFolder(newDb)
       /\ newDb[Root].FolderContent = Listing(DOMAIN disk)

\* "no change": when a scan nobody disturbs finds no change, so that neither
\* local db nor index is replaced, they describe the folder as it is.  Only the
\* list of names can be wrong, when names came or went twice in a second.
UnchangedIsCurrent ==
  (pc = "visit" /\ names = {} /\ calm /\ ~FinallyChanged)
    => /\ DescribesFolder(localDb)
       /\ Root \notin blurred
            => localDb[Root].FolderContent = Listing(DOMAIN disk)

\* Scans that fail on vanishing files, or mix up two states of a file, do no
\* lasting harm: when the edits end, the local db comes to describe the folder.
EventuallyDescribed == <>[]DescribesFolder(localDb)

=============================================================================

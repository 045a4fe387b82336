# A verification project for splitfs

splitfs keeps an encrypted copy of a local folder in an online storage. A *publisher* (`splitfs upload`)
scans the folder, splits files into parts, bundles small files, uploads what is missing and then replaces one
index file. A *server* (`splitfs webdav`) on another machine follows the index and serves the files read-only.
The two meet only in the storage, which has no transactions: a list of files with names that are not unique,
`Save` and `Trash`. What is modelled here is how the program gets consistency out of that.

The repository has no design document: its documentation is its comments, the help texts of the commands and
its tests. Properties are stated from these and from what callers rely on; definitions are translated from the code.

## 1. The system

| component | state | operations | interacts with |
|---|---|---|---|
| `core.Upload` (`core/upload.go`) | list of parts saved by this call | `uploadFile`, `uploadPart`, `uploadBundle`, `uploadDb` | reads the folder and a `Db`; lists, saves and trashes in the storage |
| `core.Clean` (`core/clean.go`) | the remove list | `unknown`, `duplicates`, the loop over `Trash` | a `Db`, the storage |
| `core.Open` (`core/open.go`) | none | `bundleOrPart`, `posInBundle` | called by `webdav._File.Read` with a `VirtFile`, a `Db` and the service |
| `db`, bundles (`db/bundle.go`) | the `Db` | `MakeBundles`, `findGroups`, `splitBigBundles` | called between scan and upload |
| `db`, scan (`db/scanfile.go`, `db/scanfolder.go`) | none; reuses the old `Db` | `ScanFile`, `FromScan` | reads the folder while its owner may write it |
| `db`, serialization | none | `ToFile`, `FromFile`, `ToWriter`, `FromReader` | index file, local db file |
| `encoding` | key file | names and keys derived from contents, AES-CTR at any offset, zstd | everything above |
| `webdav` file system (`webdav/fs.go`) | `vDb`, `dbFileId`, `dbMux`, two goroutines | `OpenFile`, `Stat`, `checkDb`, the update loop and the init loop | the storage, `core.Open` |
| `webdav` file (`webdav/file.go`) | reader, offset | `Read`, `Seek`, `Close`, `Readdir` | reads `fs.vDb` without its lock |
| `webdav` users (`webdav/users.go`) | users, mtime of the user file | `Get`, `userUpdate`, `Allowed` | the user file, which `addUser` rewrites |
| `webdav` http (`webdav/config.go`, ...) | none | `ServeHTTP` | users, the handler of golang.org/x/net/webdav |
| commands (`main.go`) | the local db file, the user file | scan, upload, webdav, adduser | all of the above |
| storage service | files, ids, a file list per client | external module `SchnorcherSepp/storage` | |

What is hard in it, and the property that matters for it:

* the folder changes between its scan and the moment a part or a bundle element is read (stale data saved under
  a name derived from other data) - the index is complete all the same (`IndexComplete`), nobody reads other bytes
  than were scanned (`ReadsWhatWasScanned`), `exists` tells the truth (`ExistsIsTrue`);
* a call ends anywhere, and the next one goes on from the file list alone - `IndexComplete`, `NoDoubleUpload`,
  `AtMostOneIndex`; every call that is not cut short ends (`CallEnds`);
* unknown files and duplicates are computed apart and removed one by one - the last copy of referenced data stays
  (`ReferencedStays`, `IndexSurvives`), of parts and bundles nothing else does (`NothingLeft`), and of all other files
  a copy (`RestKeepsACopy`);
* phase 3 of `findGroups` ranges over a map and removes files from the list it reads - no file is lost or grouped
  twice (`EachFileOnce`, `NobodyForgotten`), the result is what all readers assume (`KeepsPromise`, `BundleSizes`);
* two goroutines load the db with downloads of any length while the list changes - the id belongs to the db
  (`DbMatchesId`), it never gets older (`NeverOlder`), in the end it is current (`EventuallyCurrent`);
* readers with an old list, an old db or an old handle while a publisher replaces the index and cleans up file by file -
  `ServedIsComplete`, `FreshReadIsRight`;
* commands die between upload, clean-up and the local db, which is written in place and last - an unchanged folder
  is online (`UnchangedIsPublished`), a reader sees snapshots only (`MirrorSpec`), calling upload again helps
  (`EventuallyPublished`);
* a scan looks at every element several times, and takes entries over by size and second - what a db says of a
  folder nobody disturbs is true (`ScanIsExact`), so is "no change" (`UnchangedIsCurrent`), and mistakes do not last
  (`EventuallyDescribed`);
* a file is entered at any offset, and three parties count bytes - the reader gets the file's plain bytes
  (`DeliversPlain`);
* the user file is written by commands and editors and looked at every 15 seconds - who was removed is kept out
  (`ServedIsListed`), who is in it is let in (`ListedIsKnown`), commands one after the other that can read the file and
  do not die lose nobody (`NobodyLost`). What the exceptions cost is section 4.

PROJECT.json lists the hazards one by one.

## 2. Modules

    VirtDb            the data: VirtFile, parts, bundles, Db, ScanFile, MakeBundles' promise
      StorageService  the storage (external), as its clients use it
        Upload        core.Upload                      UploadProofs
        Clean         core.Clean                       CleanProofs
        OpenFile      core.Open (no state)             OpenFileProofs
          PublishedReads   Upload and OpenFile together
                                                       UploadProofs
          WebdavFs         file system, handles, goroutines, OpenFile, and a publisher
                           with the actions of Clean
                                                       WebdavFsProofs
        Publisher     the commands scan and upload: Upload and Clean with the local db
                                                       PublisherProofs
          Mirror      abstract: what readers of the storage see; Publisher implements it
      Bundles         how findGroups keeps the promise
      ScanFolder      how FromScan and ScanFile look at a folder that is being edited
                                                       DbProofs (both)
    CryptBytes        AES-CTR entered at any offset (no state)
      WebdavFile      Seek and Read of a handle        WebdavFileProofs
    UserAccess        the user file, adduser, userUpdate, Get, ServeHTTP
                                                       UserAccessProofs

Modules named `...Proofs` hold the theorems about the module to their left. Modules named `MC...` give the constants
of an instance.

**Abstraction of the data.** A content is a sequence of chunks, one per part. Hashes are taken to be injective, so
a chunk stands for its SHA512, its key and its storage name, and stored bytes stand for their md5. Stored bytes are
a sequence of pairs (chunk, compressed?), as long as the sum of the sizes of their members: that is enough to tell a
right offset in a bundle from a wrong one, compressed from plain, and one file of a certain size from another one.
A bundle has no md5 (`AnyMd5`), as in the code. Paths are numbers, in the order of the path strings.

**StorageService.** `store` is what is online. Each client has its own list (`listing`, `files`), fetched by
`Update()` and not changed by `Save` or `Trash`. `ByAttr` is the set of files the service may return; ids grow,
and `ByName` is the newest file of a name.

**Upload.** One action per step that another actor could interleave with: opening a file, each part (skipped or saved,
with the loop's continuation), each bundle element, each bundle, each `Trash` of an old index, the new index. `pc`
says which loop the call is in, `todo`, `bundles` and `oldDbs` are what these loops still have before them. `Edit`
writes, creates or removes a file between any two steps; an open handle may follow or not (written in place, or
replaced). `Abort` is any error and any crash. `Call` takes a db that was scanned exactly, with any grouping
MakeBundles may make, none included (bundling is optional). The db of a call may also be a scan by an earlier process:
edits since then are edits after `Call`. A db entry reused by mistake (same size and second) is the subject of
ScanFolder. `touched` and `excuse` are ghost variables: the paths edited during a call, remembered with the index it
wrote.

**OpenFile.** `Open` is the set of outcomes: the text of chunks, an error, or garbage (wrong offset, length or key).

**Clean.** A call on any storage (`CleanSpec`). The remove list is three sets worked off in order, with any order
inside; what `Trash` says of a file that is already gone is left open, so both answers are modelled (`RemoveNext`,
`CleanAbort`).

**Bundles.** One step per group visited by the range over the map, in any order; the rest is a function. `Folders` are
the folders that may have been scanned; the loops that filter or sum a list of files are folds over it (`Only`,
`TotalSize`, `AddFile`).

**WebdavFs.** `Update`, `checkDb` in its steps (lock and compare, download, two steps of assigning the struct),
opening a handle, its first read, closing it. The db is written in two steps because `Read` looks at it without
the lock. `from` and `same` in a handle are ghost fields. The publisher takes one version after the other: its parts and
bundles, the old index out, the new index in, and then a clean-up. That one is `core.Clean` itself: the actions of the
module Clean (by INSTANCE), with one `Trash` per step, so that an `Update` or a read can come between any two. Clean is in
bundle mode when the db it is given has bundles; for a version without any it leaves those in the storage alone. It may
stop anywhere, or not be called at all.

**Publisher.** One command after the other: FromFile, FromScan, `!change && !force`, MakeBundles, then Upload and
Clean step by step (their own actions, Clean by INSTANCE), and `ToFile` as `os.Create` and the write. `Die` ends a
command anywhere. `localDb` keeps what FromScan compares, size and mtime; the scan is one step, and every edit has
an mtime of its own, because ScanFolder is about the opposite. `behind` is a ghost: a scan has written the local db,
or the upload of an unchanged folder was forced. Two commands at a time are not modelled: the program does nothing
about that case.

**Mirror.** A folder, the latest snapshot a publisher took of it, and what is online: that snapshot, the one before
(until it is withdrawn), or nothing. Publisher is shown to implement it with `draft` = the folder as `vDB` describes
it and `online` = the folders the online indexes describe.

**ScanFolder.** `FromScan` as `filepath.Walk` runs it: the root's stat, then the names Walk will visit (in Go 1.16 it
reads them before it calls the walk function), then the walk function's own names and kinds (`getDirEntries`), and
each element: taken over, a folder, or `ScanFile` in its steps - stat, compression, open, and per part hash and md5,
each reading the folder or the open handle as it is then. So a name that is removed after Walk has read it makes the
scan fail, and one that is created then is in the folder's list of names without an entry of its own. `Edit` writes in
place (the handle follows, the folder's mtime stays), replaces, creates or removes. `clock` counts seconds and mtimes
are seconds. `blurred` is a ghost: the paths changed twice in one second, about which the scan promises nothing.

**WebdavFile and CryptBytes.** A byte is its value with the set of keystream bytes it is XORed with; AES is a
function of counter and index. `CryptBytes` computes the counter's bytes and the bytes to skip as the code does.
`wrote` is the size of the pieces the encryption ran in; `inner` and `crOffset` are the positions of the network
reader and of `_CryptoReader`. A Read gets its bytes in pieces of any size and may end early.

**UserAccess.** `lines` is the user file; `adduser` reads, truncates and writes it in separate steps, any of which can
fail; an editor replaces or removes it. `Get` is `BeginGet` (too early?), `StatUsers`, `ReadUsers`, `Answer`; in the
last state `Status` says how each request is answered. Passwords and prefixes are members of small sets. Four ghosts
say what the properties leave out: `missing`, the file was gone when the server last looked; `hasty`, it changed again
in the second the server knows; `unopened`, when the server last failed to open a file it could stat; `mishap`, what
has happened to the commands: `"overlap"` with another writer, `"unread"` (a command could not read the file),
`"died"` in WriteFile. What the code does in these cases is in section 4.

## 3. What is checked

| run | instance | shows |
|---|---|---|
| `MCUpload_edits` | 2 paths, 2 images of one size and a text, 2 calls, 2 edits at any time | `IndexComplete`, `NoDoubleUpload`, `AtMostOneIndex`, `CallEnds`, types, and the inductive invariant `IInv` |
| `MCUpload_quiet` | 4 paths (two copies of a folder), 2 calls, 1 edit while none runs | `ReadsWhatWasScanned`, `ExistsIsTrue`, also for groups that share a bundle id |
| `MCUpload_wrongbundle` | as edits | violated: `ReadsWhatWasScanned` |
| `MCPublisher` | 2 paths, files of 0 to 2 parts, 4 folders to begin with, 4 uploads, 1 edit, 1 death, 1 forced command | `IndexComplete` for files of several parts, `UnchangedIsPublished`, `MirrorSpec`, `EventuallyPublished` |
| `MCPublisher_skipped` | the same | violated: `NothingSkipped` |
| `MCScanFolder` | 2 names, 4 contents of 1 or 2 parts or a subfolder, 2 edits in 2 seconds, any number of scans | `ScanIsExact`, `UnchangedIsCurrent`, `EventuallyDescribed` |
| `MCClean_all` | all storages of up to 5 files of 10 kinds, twice each | the five properties of Clean |
| `MCBundles` | all folders of up to 5 files of 5 kinds in 3 directories | the five properties of MakeBundles |
| `MCWebdavFs` | 3 versions, 1 handle, 2 rounds of the init loop | safety of the server and of what is read, and `EventuallyCurrent` |
| `MCWebdavFs_renamed` | 2 versions, 1 handle, 1 round | violated: `ReadIsRight` |
| `MCWebdavFile` | 21 bytes of a bundle, from the last but one block of its first GiB into the second GiB; reads of 1, 5, 16, 32 bytes | `DeliversPlain` |
| `MCUserAccess` | 2 users, 2 adduser commands (one sets a new password), 1 edit by hand, 4 seconds, an interval of 2 | `ServedIsListed`, `ListedIsKnown`, `NobodyLost` |

**Bounds.** Two calls are enough for what one call leaves to the next; a third one starts from states of the same kind
(the theorems below hold for any number). Two edits make the case that hurts: there and back again. Two images of the
same size tell a check by size from a check by content; the text is compressed to another size, so offsets by plain
size and by stored size differ. Five files hold a part, its wrong double, two copies of it and a bundle or an index.
Five paths in three directories give two rounds of phase 3 with several groups, and three or more texts a group of
phase 2 that has to be split, with an empty rest or a rest of one file. Three versions let the server miss one: the
second has no bundle, so its clean-up removes a part and has to leave the bundle of the first alone; the third has
another bundle, and its clean-up removes a part and a bundle one after the other, with an `Update` in between or not.
In `MCWebdavFs_renamed` the second version renames bundled files. The versions are written out as records; TLC checks
that they are what scan and MakeBundles can produce (`VersionsAssumption`). Sizes are in units, with a part of 10,
chosen so that each threshold of the code has contents on both sides. Four uploads let a death, a forced upload and
two ordinary ones follow each other. Two edits in two seconds can meet in one second or not, before, inside or after a
scan. The file of `MCWebdavFile` lies where three bytes of the block counter change at once, beyond `db.PartSize`,
where only bundles go; the proof is for all offsets below two GiB. With an interval of two and four seconds, a request
can come before, at and after the end of an interval, the file can change twice in between, and change again an
interval after it could not be opened; `MaxLines` is 3, so that a fourth line is cut off. Runs with bounded calls,
edits or clocks stop in the end (`CHECK_DEADLOCK FALSE`); the server, the scans and the handle never do.

**Fairness.** `CallEnds` assumes that Upload goes on as long as it can (`WF`), as a sequential program does; `Abort`
is never forced. `EventuallyCurrent` assumes that the goroutines run, that `sync.RWMutex` does not starve them (a
waiting `Lock` holds back later `RLock`s), that the publisher ends what it began, and that neither `Update` nor a
download of an index that stays online fails for ever (`SF`). It needs the update loop, so an update interval of at
least one second: with 0 neither loop runs, by design. `EventuallyPublished` assumes that a command goes on (`WF`)
and that `splitfs upload` is called again and again; that it dies is never forced, and bounded (`MaxDeaths`).
`EventuallyDescribed` assumes the same of scans. Both say "when the edits end", which the bound on edits gives.

**Mutants.** Each property of a passing run is broken by a plausible mistake in the code, a definition whose comment
begins with "(mutant)" next to the one it replaces.

## 4. Where code and comments disagree

Three runs end in a counterexample, each against a sentence of the repository (PROJECT.json, "findings"):

1. `MCUpload_wrongbundle`: bundles are found by name and size only. Wrong bytes of the right size, once saved, are
   taken for the bundle for ever, and readers prefer the bundle to the intact part.
2. `MCPublisher_skipped`: `scan` and `upload` share a local db, and a scan makes the next upload return early: it
   uploads nothing, and says nothing. `UnchangedIsPublished` shows that this is the only way, with a forced upload
   that did not come to its end.
3. `MCWebdavFs_renamed`: a handle opened under one db and read under the next gets another file's bytes, when a
   bundle kept its content and its files changed their names.

Smaller ones, read in the code and not given a run of their own:

* A file edited between its scan and its upload is saved under its old name, and until the call ends `exists`
  (upload.go:69, "checks whether a file exists on storage") claims the old part is there - `ExistsIsTrue` holds
  without such edits, and the next call repairs it (`IndexComplete`).
* Which of two groups with equal contents a bundle lists depends on the order of a map, against bundle.go:90
  ("multiple calls of this function always return the same result"); reads are right all the same (`MCUpload_quiet`).
* clean_test.go:41 says "'rest' is never deleted", but `duplicates` (clean.go:206) looks at all files: of equal files that
  are neither parts nor bundles one is kept. `NothingLeft` therefore asks for parts and bundles only, and
  `RestKeepsACopy` says what is true of the rest.
* main.go:92 says of adduser "Adds another webdav user to the user file". Two commands at a time lose the line of the one
  that writes first (no lock); one that cannot read the file warns and overwrites it with its own line; one that dies in
  WriteFile leaves it empty. `NobodyLost` leaves these three out: the code has nothing against them.
* users.go:33 says "The user file is monitored for changes (ModTime)". Mtimes are compared in seconds, so a file that was
  read between two changes in one second, such as the two steps of WriteFile, is not read again before it changes once
  more: `ListedIsKnown` and `ServedIsListed` leave this out (`hasty`).
* A user file that can be stat'ed but not opened empties the table, and is not tried again before it changes.
  `ServedIsListed` has no exception for it (an empty table lets nobody in), and `ListedIsKnown` one until the file has
  changed (`Openable`).

## 5. What is proved

`UploadProofs`, for all folders, contents, sizes, groupings and numbers of calls and edits, from the named
assumptions on the constants only (`PathAssumption`: paths are numbers; `SizeAssumption`: sizes are positive;
`UploadAssumption`: contents are sequences of chunks):

* `TypeCorrect`: `Spec => []TypeOK`;
* `Invariant`: `Spec => []IInv`;
* `IndexIsComplete`: `Spec => []IndexComplete`;
* `IndexIsUnique`: `Spec => []AtMostOneIndex`;
* `ExistsIsRight`: `Spec => []ExistsIsTrue`, for folders that are not edited while a call runs (`~EditsDuringRun`).
  With such edits it is false (section 4): the hypothesis is a choice of the constant, not an assumption of the module.

`IndexComplete` is not inductive: that a new index is complete depends on what the call did before. `IInv` adds it:
files that were not edited since the call have the content that was scanned (`FilesUnchanged`), and so has the open
handle (`HandleOK`); nothing that a db names has the name of the index, and the listing holds only what is still online
or an index (`StoreOK`, `BundlesOK`), so `TrashDb` takes nothing away that matters and `exists` is right about the
listing; what has left the loops' lists is online or excused (`Progress`), so `SaveDb`, which is reached with empty
lists, writes a complete index. There is one lemma per action that saves or trashes, and one for all others.
`AtMostOneIndex` needs that the list of old indexes holds every index that is online (`OneIndex`).
What the bytes of a bundle are plays no part here: they are found by name and size, which is finding 1.

Two theorems go on from there:

* `NothingIsUploadedTwice`: `Spec => []NoDoubleUpload`. The strengthening is that a call knows of all that is online
  (`AllKnown`): an index, what its list shows, and what it has saved itself under the names, sizes and hashes of
  `uploadedParts`, but for parts that are `Wrong`; and that every index has a nonce of its own (`NoncesOK`).
* `PublishedIsReadable`: `Spec => []ReadsWhatWasScanned`, for folders that are not edited while a call runs
  (`~EditsDuringRun`; with such edits it is false, which is finding 1). The strengthening is that a bundle holds the
  bytes its name says (`RightStored`), because `uploadBundle` has collected nothing else (`DataOK`), and that every db,
  that of the call and those of the indexes online, is one MakeBundles can have made (`WellFormed`). The rest is
  `OpenIsRight`, with `IndexComplete` for the parts.

`OpenFileProofs` has no state and no assumption but those on sizes and paths:

* `OpenIsRight`: with a well-formed db and right bundles, `Open` gives the content that was scanned or an error, and no
  error when all parts are listed - whichever of the matching files the service returns, from a bundle or not.

Offsets in bundles are folds over the files before the target (`PosInBundle`), over stored sizes (`Offset`). What a fold
computes is proved here by induction stated for *sets* of numbers (`Induct`: a set with a smallest counterexample to
being all of 0..n), which the provers can use; `FoldAdds` then says that such a fold adds up, and `SumsGrow` that offsets
in a bundle are different for different members, since no stored file is empty. That is why the bytes at a file's offset,
as long as its part, are its bytes and no others (`SliceOfOne`). `MakeBundlesIsWellFormed` shows that whatever groups
are taken, the db is well formed: a group is listed in path order (`Ascending`), each of its files once.

`PublisherProofs`, for all of that and any number of commands, deaths and forced uploads, from the assumptions of Upload
and `PublisherAssumption` (the folder itself is none of its paths; bounds are numbers):

* `IndexStaysComplete`: `PublisherSpec => []IndexComplete`, now with Clean at work between the calls;
* `UnchangedMeansPublished`: `PublisherSpec => []UnchangedIsPublished`;
* `CommandsImplementMirror`: `PublisherSpec => MirrorSpec`, the refinement.

The inductive invariant (`PInv`) keeps Upload's `IInv` while a call runs, and between calls what of it is left in the
storage (`StorageOK`): so the next call begins in a state Upload's own proof knows. No stat in the local db is from the
future (`TimesOK`), so a local db that agrees with the folder describes it. `CommandOK` says how far the index is:
once Upload has come to its end, the index online is that of `vDB`, and stays so until the local db is written, which is
why a local db without `behind` means published. `CleanOK`: what Clean still has to remove holds no index, and never
all copies of anything `vDB` names; this is `OneTwinStays` once more, for the list of the same command. For the
refinement each action is mapped by one case of `MirrorCases`.

`DbProofs` is about the two algorithms of package db. About `Bundles`, for all folders, contents, sizes, path strings and
orders of the range over the map, from `PathAssumption`, `SizeAssumption` and `BundlesAssumption` (folders hold
contents at paths; a path string is not empty; the 12 kB are a number):

* `BundlesInvariant`: `BundleSpec => []BundleInv`;
* `BundlesTypeCorrect`, `FilesStayOnce`, `BundlesAreSmall`, `AllFilesTaken`, `PromiseKept`: `BundleSpec => []P` for
  `BundleTypeOK`, `EachFileOnce`, `BundleSizes`, `NobodyForgotten` and `KeepsPromise`;
* `SnapshotMade`: the db with these groups in it is a snapshot (`VirtDb!IsSnapshot`). The other proofs
  assume of a db that it is a scan with groups out of `VirtDb!Groupings`; this theorem and `PromiseKept` show that
  what the code computes is one, so nothing is assumed of MakeBundles any more.

None of the properties is inductive. `EachFileOnce` counts files, and a step that moves files from one list to another
keeps the count only if both lists are in path order without repetition, apart from each other, and together all
candidates: that is `NothingLost`. `NobodyForgotten` speaks of the end of the last round; `RoundOK` says of its middle
that each file that waits has its prefix among the groups still to be visited, so when none is left to visit, none
waits. `GroupsFinished` is the state after the split: a sub-bundle is closed with the file that passes `PartSize`, and a
file that can be bundled is stored in at most `PartSize` bytes (`CandidateFacts`), hence two parts at most
(`TwoPerGroup`). What a fold gives is once more proved over sets of numbers (`RoundsExist`).

About `ScanFolder`, for all folders, contents, clocks and edits, from `ScanAssumption` (contents are chunks, all but the
last of full size; subfolders are no contents; the clock can move):

* `TypeCorrect`, `UndisturbedScanIsExact`, `NoChangeIsCurrent`: `Spec => []P` for `TypeOK`, `ScanIsExact` and
  `UnchangedIsCurrent`.

What a disturbed scan writes can be wrong and is reused later by size and second, so the inductive invariant speaks of
every entry of every db: it is right unless somebody has edited the element since its mtime was read, and then the
element has a later mtime now, or is `blurred` (`RightEntry`). `FileOK` is the same for the entry that is being
made, step by step; `CalmOK` says that an undisturbed scan has each element done or before it, with the stat of now;
`OldDbOK` that what is gone from the old db is in the new one, so that an empty rest means nothing has vanished.
`tryCompression` in the model is a fold over the chunks; a file that is compressed has one chunk, which is all that
has to be known of it (`TotalSizeFacts`).

`CleanProofs`, for all storages, dbs, choices of duplicates and points at which a call stops, from `DbsAssumption` (in
a db exactly the bundles have no md5) and from storages in which every index has a nonce of its own:

* `TypeCorrect`, `ReferencedDataStays`, `IndexIsSafe`, `RestIsKept` and `NothingIsLeft`: `CleanSpec => []P` for the
  five properties of the run. The inductive invariant says that the loop works off what the call has found: what is
  gone was found, and what was found and is still online is still in the list (`Planned`). The heart of the argument
  is that of all twins of a file exactly one is not a duplicate (`OneTwinStays`), and that this one is as well known
  to the db as the file itself, for unknown parts are compared by md5 and unknown bundles without (`ACopyStays`).

`WebdavFsProofs`, for any number of versions, handles and rounds of the init loop, from `WebdavAssumption` (there is a
version, and a round) and `VersionsAssumption` (a version is a db that ScanFile and MakeBundles may have made of a
folder):

* `TypeCorrect`, `DbBelongsToId`, `ServedData`: `Spec => []P` for `TypeOK`, `DbMatchesId` and `ServedIsComplete`, between
  any two removals of any clean-up, with bundle mode or without;
* `NeverGoesBack`: `Spec => NeverOlder`;
* `FreshReadsAreRight`: `Spec => []FreshReadIsRight`.

The inductive invariant (`Invariant`) says what the lock and the order of publishing are worth. `StoreOK`: one index at
most, all it names is there, and from the last part to the new index the same holds of the next version; while Clean is
at work, what it has still to remove holds no index and spares a copy of all the version names (`CleaningOK`). That it
does so when its list is made is `ListSpares`, from what the code of `unknown` and `duplicates` finds, and each removal
keeps it. `FilesOK`: the
list is such a storage of earlier, so its index is not newer than the one online. `DbOK`: the db is not newer than
either, and is that of the index with its id, but in the middle of an assignment. `LoopOK`: a goroutine inside
checkDb holds the lock, so it is alone (`Alone`); the index it works on is not older than the db and not newer than
what is online or listed, however often the list and the storage changed since. That is why the second
goroutine cannot set the server back: what it finds in the list under the lock is newer than the db.
For the reads, `RInv` adds that bundles in the storage and in the list hold what their names say, and that an open
handle has the file of its path in the db whose id it remembers: a new id is always a larger one, so a handle never takes
a later db for its own. Then `OpenIsRight` applies, with any old list.

`WebdavFileProofs`, for all file sizes, offsets in a bundle, buffer and piece sizes, from `FileAssumption` (a file
lies in the first two GiB of its storage file, twice `db.PartSize`, which is the limit of a bundle; a read asks for at
least one byte):

* `KeystreamByPosition`: the keystream `CryptBytes` uses depends on the position in the storage file only. The
  argument is arithmetic: the four bytes of the counter add up to the block number again (`CounterIsKept`), and the
  skipped bytes and the index add up to the position modulo 16;
* `DecryptsToPlain`: so what was encrypted in pieces is plain when it is decrypted from any offset;
* `TypeCorrect`: `Spec => []TypeOK`;
* `PlainDelivered`: `Spec => []DeliversPlain`. The inductive invariant adds `InStep`: the network reader, the
  decryption and the handle are at the same byte, and what a Read has still to get lies inside the file.

`UserAccessProofs`, for all files, users, commands, editors and intervals, from `AccessAssumption` (entries are not
blank, the file an editor leaves is not empty, the white list and the other methods are disjoint):

* `TypeCorrect`, `RemovedIsShutOut`, `AddedGetsIn`, `NobodyIsLost`: `Spec => []P` for `TypeOK`, `ServedIsListed`,
  `ListedIsKnown` and `NobodyLost`. The inductive invariant says what the mtime is worth: the mtime the server knows
  stands for the content it has read (`SameOK`), so a stat that finds it again proves that nothing changed; between
  two readings the table and the file differ in what changed since the last look only (`RecentOK`), and a look-up
  trusts a look that is younger than the interval (`LookedOK`); an mtime later than a failed open is one the server
  has not looked at yet (`OpenOK`). `AddedOK`: without a mishap only one command is at work, and while the file is
  empty that command has everybody's line.

Every safety invariant of the passing runs is the subject of a theorem, and so are the action property `NeverOlder`
and the refinement `MirrorSpec`. Only model-checked, because liveness under fairness is out of the prover's reach:
`CallEnds`, `EventuallyPublished`, `EventuallyDescribed` and `EventuallyCurrent`.
No module declares a RECURSIVE operator.

## 6. What is left out, and the plan

**Not modelled.** The HTTP and WebDAV protocol of the library, with the html view and the change of GET to PROPFIND;
TLS, flags and help, logging, oauth, keygen, the memory check; the formats gob, zstd and AES-GCM; the cache of the
storage module (external); text normalisation of names. `Readdir(n)` with n > 0 gives the same entries every time, but
nobody calls it so. Two publishers at a time: the program has no lock for it and promises nothing.

Next, in this order:

1. That MakeBundles is a refinement of an abstract step that picks any grouping, so that Publisher can be composed with
   the algorithm in place of the promise.
2. ScanFolder with folders in folders, if an instance of bearable size can be found.

-------------------------------- MODULE Clean --------------------------------
(***************************************************************************)
(* core.Clean: removes from the storage what the db does not refer to.     *)
(*                                                                         *)
(* The list of the files to remove is computed once, from the file list of *)
(* the moment, and then worked off with one service.Trash after the other. *)
(* It can hold a file twice: as unknown and as duplicate.  What Trash says *)
(* of a file that is already gone is up to the service, so both answers    *)
(* are modelled.                                                           *)
(***************************************************************************)
EXTENDS StorageService

CONSTANTS
  Try,   \* the try flag: nothing is deleted
  Dbs    \* the dbs that are passed to Clean

ASSUME TryAssumption == Try \in BOOLEAN

\* The entries without a md5 are the bundles.
ASSUME DbsAssumption ==
  \A db \in Dbs : \A part \in AllDbParts(db) :
    /\ part.StorageName.kind = "part" => part.StorageMd5 # AnyMd5
    /\ part.StorageName.kind = "bundle" => part.StorageMd5 = AnyMd5

VARIABLES
  vDB,       \* the argument of the call
  listing,   \* service.Files(), as of the last Update()
  removals,  \* what is left of the remove list: unknown parts, duplicates and
             \* unknown bundles, in this order
  cleanPc    \* "idle", "removing", "done" or "failed"

cleanVars == <<removals, cleanPc>>

\* allOnlineParts tells parts and bundles from the rest by their names.
OfKind(files, kind) == {f \in files : f.name.kind = kind}

\* A part has to agree in name, size and md5, a bundle in name and size.
SameAttr(f, part) == f.name = part.StorageName /\ f.size = part.StorageSize

\* (mutants) also the rest is unknown; only the names are compared
UnknownFiles(db, files) ==
  {f \in files : \A part \in AllDbParts(db) :
                   ~(SameAttr(f, part) /\ f.body = part.StorageMd5)}

UnknownNames(db, files) ==
  {f \in OfKind(files, "part") :
     \A part \in AllDbParts(db) : f.name # part.StorageName}

UnknownParts(db, files) ==
  {f \in OfKind(files, "part") :
     \A part \in AllDbParts(db) :
       ~(SameAttr(f, part) /\ f.body = part.StorageMd5)}

UnknownBundles(db, files) ==
  {f \in OfKind(files, "bundle") :
     \A part \in AllDbParts(db) : ~SameAttr(f, part)}

\* (mutant) files with the same name and size are twins
Namesakes(f, files) == {g \in files : g.name = f.name /\ g.size = f.size}

\* duplicates: of the files with the same name, size and md5 all but the first
\* one of the file list, whose order is not known.
Twins(f, files) ==
  {g \in files : g.name = f.name /\ g.size = f.size /\ g.body = f.body}

\* (mutant) the first of the duplicates is not skipped
AllCopies(files) == {{f \in files : Cardinality(Twins(f, files)) > 1}}

Duplicates(files) ==
  {D \in SUBSET files :
     \A f \in files : Cardinality(Twins(f, files) \ D) = 1}

\* BundleMode.
BundleMode(db) == DOMAIN db.Bundles # {}

CallClean(db) ==
  /\ cleanPc # "removing"
  /\ vDB' = db
  /\ listing' = store
  /\ \E D \in Duplicates(store) :
       removals' = <<UnknownParts(db, store), D,
                     IF BundleMode(db) THEN UnknownBundles(db, store) ELSE {}>>
  /\ cleanPc' = "removing"
  /\ UNCHANGED storageVars

\* The list the loop is in.
Section == CHOOSE i \in 1..3 : /\ removals[i] # {}
                               /\ \A j \in 1..(i - 1) : removals[j] = {}

RemoveNext ==
  /\ cleanPc = "removing"
  /\ \E i \in 1..3 : removals[i] # {}
  /\ \E f \in removals[Section] :
       /\ removals' = [removals EXCEPT ![Section] = @ \ {f}]
       /\ IF Try THEN UNCHANGED storageVars ELSE Trash(f)
  /\ UNCHANGED <<vDB, listing, cleanPc>>

\* Trash fails, maybe because the file was trashed before, or the process dies.
CleanAbort ==
  /\ cleanPc = "removing"
  /\ cleanPc' = "failed"
  /\ UNCHANGED <<storageVars, vDB, listing, removals>>

CleanReturn ==
  /\ cleanPc = "removing"
  /\ \A i \in 1..3 : removals[i] = {}
  /\ cleanPc' = "done"
  /\ UNCHANGED <<storageVars, vDB, listing, removals>>

CleanStep == RemoveNext \/ CleanAbort \/ CleanReturn

\* One call, on any storage in which each index has a nonce of its own.
CleanInit ==
  /\ IsFiniteSet(store)
  /\ \A f, g \in Named(store, IndexName) : f.body = g.body => f = g
  /\ vDB = [VFiles |-> << >>, Bundles |-> << >>] /\ listing = {}
  /\ removals = <<{}, {}, {}>> /\ cleanPc = "idle"

CleanNext ==
  \/ cleanPc = "idle" /\ \E db \in Dbs : CallClean(db)
  \/ CleanStep

allVars == <<storageVars, vDB, listing, cleanVars>>

CleanSpec == CleanInit /\ [][CleanNext]_allVars

-----------------------------------------------------------------------------
CleanTypeOK ==
  /\ removals \in [1..3 -> SUBSET listing]
  /\ removals[1] \subseteq OfKind(listing, "part")
  /\ removals[3] \subseteq OfKind(listing, "bundle")
  /\ cleanPc \in {"idle", "removing", "done", "failed"}

\* "Removes no longer referenced data": whatever the db could be read from when
\* the call listed the storage, it can be read from after every single Trash,
\* also when the call stops half-way.  Unknown files and duplicates together
\* never take the last copy of a file the db refers to.
ReferencedStays ==
  \A part \in AllDbParts(vDB) :
    ByAttr(listing, part) # {} => ByAttr(store, part) # {}

\* A call that returns without an error has left only what the db refers to of
\* the parts it listed, and of the bundles in bundle mode, and no duplicates of
\* parts and bundles.
NothingLeft ==
  (cleanPc = "done" /\ ~Try) =>
    LET left == store \cap listing
        parts == OfKind(left, "part")
        bundles == OfKind(left, "bundle")
        cleaned == parts \cup IF BundleMode(vDB) THEN bundles ELSE {}
    IN  /\ \A f \in cleaned : \E part \in AllDbParts(vDB) : f \in ByAttr(left, part)
        /\ \A f, g \in parts \cup bundles :
             (f.name = g.name /\ f.size = g.size /\ f.body = g.body) => f = g

\* What is named neither as a part nor as a bundle is nothing of Clean's.  It is
\* compared for duplicates all the same, against "'rest' is never deleted", but
\* one of equal files stays.
RestKeepsACopy ==
  \A f \in listing :
    f.name.kind \notin {"part", "bundle"} => Twins(f, listing) \cap store # {}

\* The newest index is never taken for garbage: it belongs to the rest, and two
\* indexes are never duplicates, because each has a nonce of its own.
IndexSurvives == Named(listing, IndexName) \subseteq store

=============================================================================

--------------------------- MODULE StorageService ---------------------------
(***************************************************************************)
(* The online storage behind interf.Service (module                        *)
(* github.com/SchnorcherSepp/storage, a dependency that is not part of     *)
(* this repository), modelled from the way core/ and webdav/ use it.       *)
(*                                                                         *)
(* A file has an id, a name (names are not unique), a size and a body.     *)
(* The md5 hash of a file is taken to be injective, so the body stands for *)
(* it.  Ids grow with time: the newest file of a name has the largest id.  *)
(*                                                                         *)
(* A client does not look at `store' itself.  It looks at the file list    *)
(* that its last Update() fetched, which neither Save nor Trash changes.   *)
(* That list is a variable of the client's module.                         *)
(***************************************************************************)
EXTENDS VirtDb

VARIABLES
  store,    \* the files that are online, a set of records (see File)
  lastId    \* the id of the last file that was saved

storageVars == <<store, lastId>>

\* What interf.Files.ByAttr can return for a VFilePart, from a file list.
ByAttr(files, part) ==
  {f \in files : /\ f.name = part.StorageName
                 /\ f.size = part.StorageSize
                 /\ part.StorageMd5 \in {AnyMd5, f.body}}

\* All files of a name, and what interf.Files.ByName returns: the newest one.
Named(files, name) == {f \in files : f.name = name}

ByName(files, name) ==
  CHOOSE f \in Named(files, name) : \A g \in Named(files, name) : g.id <= f.id

\* service.Save(name, reader): the new file gets a fresh id.
Save(name, size, body) ==
  /\ lastId' = lastId + 1
  /\ store' = store \cup
       {[id |-> lastId + 1, name |-> name, size |-> size, body |-> body]}

\* service.Trash(f) of a file that is online.
Trash(f) ==
  /\ store' = store \ {f}
  /\ UNCHANGED lastId

=============================================================================

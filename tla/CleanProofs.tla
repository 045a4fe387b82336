----------------------------- MODULE CleanProofs -----------------------------
(***************************************************************************)
(* Clean takes away neither the last copy of what the db refers to nor an  *)
(* index, and leaves nothing else: on every storage, for every db, with    *)
(* any order of the removals, and wherever it stops.                       *)
(***************************************************************************)
EXTENDS Clean, FiniteSetTheorems, TLAPS

\* What a call has found to remove, when D are its duplicates.
Found(D) ==
  UnknownParts(vDB, listing) \cup D
    \cup IF BundleMode(vDB) THEN UnknownBundles(vDB, listing) ELSE {}

Removals == removals[1] \cup removals[2] \cup removals[3]

\* The loop works off what the call has found: it removes nothing else, and
\* unless it only tries, what is still online of it is still in the list.
Planned ==
  \E D \in Duplicates(listing) :
    /\ Removals \subseteq Found(D)
    /\ listing \ store \subseteq Found(D)
    /\ ~Try => store \cap Found(D) \subseteq Removals

\* A set of files in which no two indexes have the same body.
IndexesDiffer(files) ==
  \A f, g \in Named(files, IndexName) : f.body = g.body => f = g

CallInv ==
  /\ vDB \in Dbs
  /\ store \subseteq listing
  /\ IsFiniteSet(listing) /\ IndexesDiffer(listing)
  /\ Planned

IInv ==
  /\ CleanTypeOK
  /\ cleanPc = "idle" => /\ listing = {}
                         /\ IsFiniteSet(store) /\ IndexesDiffer(store)
  /\ cleanPc # "idle" => CallInv
  /\ cleanPc = "done" => Removals = {}

-----------------------------------------------------------------------------
\* One of several twins is not a duplicate, and only one.
LEMMA OneTwinStays ==
  ASSUME NEW files, IsFiniteSet(files), NEW D \in Duplicates(files), NEW f \in files
  PROVE  \E g : Twins(f, files) \ D = {g}
<1>1. Cardinality(Twins(f, files) \ D) = 1
  BY Zenon DEF Duplicates
<1>2. IsFiniteSet(Twins(f, files) \ D)
  <2>1. Twins(f, files) \ D \subseteq files
    BY Zenon DEF Twins
  <2> QED
    BY Zenon, <2>1, FS_Subset
<1> QED
  BY Zenon, <1>1, <1>2, FS_Singleton

LEMMA InitIInv == CleanInit => IInv
<1> SUFFICES ASSUME CleanInit PROVE IInv
  OBVIOUS
<1>1. CleanTypeOK
  BY SMT DEF CleanInit, CleanTypeOK
<1>2. cleanPc = "idle" /\ cleanPc # "done"
  BY SMT DEF CleanInit
<1> QED
  BY Zenon, <1>1, <1>2 DEF CleanInit, IInv, IndexesDiffer

LEMMA CallKeeps ==
  ASSUME IInv, cleanPc = "idle", NEW db \in Dbs, CallClean(db)
  PROVE  IInv'
<1> DEFINE B == IF BundleMode(db) THEN UnknownBundles(db, store) ELSE {}
<1>1. PICK D \in Duplicates(store) : removals' = <<UnknownParts(db, store), D, B>>
  BY Zenon DEF CallClean
<1>2. vDB' = db /\ listing' = store /\ store' = store /\ cleanPc' = "removing"
  BY Zenon DEF CallClean, storageVars
<1>3. D \subseteq store
  BY Zenon DEF Duplicates
<1>4. UnknownParts(db, store) \subseteq OfKind(store, "part")
  BY Zenon DEF UnknownParts
<1>5. B \subseteq OfKind(store, "bundle")
  BY Zenon DEF UnknownBundles
<1>6. CleanTypeOK'
  <2>1. OfKind(store, "part") \subseteq store /\ OfKind(store, "bundle") \subseteq store
    BY Zenon DEF OfKind
  <2> HIDE DEF B
  <2>2. OfKind(listing, "part")' = OfKind(store, "part")
    BY Zenon, <1>2 DEF OfKind
  <2>3. OfKind(listing, "bundle")' = OfKind(store, "bundle")
    BY Zenon, <1>2 DEF OfKind
  <2> QED
    BY SMT, <1>1, <1>2, <1>3, <1>4, <1>5, <2>1, <2>2, <2>3 DEF CleanTypeOK
<1>7. Planned'
  <2>1. Found(D)' = UnknownParts(db, store) \cup D \cup B
    BY Zenon, <1>2 DEF Found
  <2>2. Removals' = UnknownParts(db, store) \cup D \cup B
    <3> HIDE DEF B
    <3> QED
      BY SMT, <1>1 DEF Removals
  <2>3. D \in Duplicates(listing)'
    BY Zenon, <1>2
  <2> HIDE DEF B
  <2>4. /\ Removals' \subseteq Found(D)'
        /\ listing' \ store' \subseteq Found(D)'
        /\ store' \cap Found(D)' \subseteq Removals'
    BY Zenon, <2>1, <2>2, <1>2
  <2> QED
    BY Zenon, <2>3, <2>4 DEF Planned
<1>8. IsFiniteSet(store) /\ IndexesDiffer(store)
  BY Zenon DEF IInv
<1>9. CallInv'
  BY Zenon, <1>2, <1>7, <1>8 DEF CallInv
<1>10. cleanPc' # "idle" /\ cleanPc' # "done"
  BY SMT, <1>2
<1> QED
  BY Zenon, <1>6, <1>9, <1>10 DEF IInv

LEMMA RemoveKeeps == ASSUME IInv, RemoveNext PROVE IInv'
<1>1. cleanPc = "removing" /\ cleanPc' = cleanPc /\ vDB' = vDB /\ listing' = listing
  BY Zenon DEF RemoveNext
<1>2. CallInv /\ CleanTypeOK
  BY SMT, <1>1 DEF IInv
<1>3. Section \in 1..3
  <2>1. PICK i \in 1..3 : removals[i] # {}
    BY Zenon DEF RemoveNext
  <2>2. \E j \in 1..3 : removals[j] # {} /\ \A k \in 1..(j - 1) : removals[k] = {}
    <3>1. CASE removals[1] # {}
      BY SMT, <3>1
    <3>2. CASE removals[1] = {} /\ removals[2] # {}
      BY SMT, <3>2
    <3>3. CASE removals[1] = {} /\ removals[2] = {}
      <4>1. removals[3] # {}
        BY SMT, <3>3, <2>1
      <4> QED
        BY SMT, <3>3, <4>1
    <3> QED
      BY Zenon, <3>1, <3>2, <3>3
  <2> QED
    BY Zenon, <2>2 DEF Section
<1> DEFINE s == Section
<1>4. PICK f \in removals[s] :
        /\ removals' = [removals EXCEPT ![s] = @ \ {f}]
        /\ IF Try THEN UNCHANGED storageVars ELSE Trash(f)
  BY Zenon DEF RemoveNext
<1>5. s \in 1..3
  BY Zenon, <1>3
<1> HIDE DEF s
<1>6. removals \in [1..3 -> SUBSET listing]
  BY Zenon, <1>2 DEF CleanTypeOK
<1>7. /\ removals' \in [1..3 -> SUBSET listing]
      /\ \A i \in 1..3 : removals'[i] \subseteq removals[i]
      /\ \A i \in 1..3 : removals[i] \subseteq removals'[i] \cup {f}
  BY SMT, <1>4, <1>5, <1>6
<1>8. CleanTypeOK'
  <2>1. removals'[1] \subseteq removals[1] /\ removals'[3] \subseteq removals[3]
    BY SMT, <1>7
  <2>2. OfKind(listing, "part")' = OfKind(listing, "part")
    BY Zenon, <1>1 DEF OfKind
  <2>3. OfKind(listing, "bundle")' = OfKind(listing, "bundle")
    BY Zenon, <1>1 DEF OfKind
  <2> QED
    BY SMT, <1>1, <1>2, <1>7, <2>1, <2>2, <2>3 DEF CleanTypeOK
<1>9. Planned'
  <2>1. PICK D \in Duplicates(listing) :
          /\ Removals \subseteq Found(D)
          /\ listing \ store \subseteq Found(D)
          /\ ~Try => store \cap Found(D) \subseteq Removals
    BY Zenon, <1>2 DEF CallInv, Planned
  <2>2. Found(D)' = Found(D) /\ D \in Duplicates(listing)'
    BY Zenon, <1>1 DEF Found
  <2>3. /\ Removals' \subseteq Removals
        /\ Removals \subseteq Removals' \cup {f}
        /\ f \in Removals
    BY SMT, <1>4, <1>5, <1>7 DEF Removals
  <2>4. /\ listing' \ store' \subseteq (listing \ store) \cup {f}
        /\ store' \subseteq store
        /\ ~Try => f \notin store'
    BY SMT, <1>1, <1>4 DEF Trash, storageVars
  <2>5. /\ Removals' \subseteq Found(D)'
        /\ listing' \ store' \subseteq Found(D)'
        /\ ~Try => store' \cap Found(D)' \subseteq Removals'
    BY Zenon, <2>1, <2>2, <2>3, <2>4
  <2> QED
    BY Zenon, <2>2, <2>5 DEF Planned
<1>10. store' \subseteq listing'
  BY SMT, <1>1, <1>2, <1>4 DEF CallInv, Trash, storageVars
<1>11. CallInv'
  BY Zenon, <1>1, <1>2, <1>9, <1>10 DEF CallInv
<1>12. cleanPc' # "idle" /\ cleanPc' # "done"
  BY SMT, <1>1
<1> QED
  BY Zenon, <1>8, <1>11, <1>12 DEF IInv

\* The call ends, or nothing happens.
LEMMA OthersKeep ==
  ASSUME IInv, CleanAbort \/ CleanReturn \/ UNCHANGED allVars
  PROVE  IInv'
<1>1. /\ store' = store /\ vDB' = vDB /\ listing' = listing /\ removals' = removals
      /\ cleanPc' \in {cleanPc, "done", "failed"}
      /\ cleanPc' = "idle" => cleanPc = "idle"
      /\ cleanPc = "idle" => cleanPc' = "idle"
  BY SMT DEF CleanAbort, CleanReturn, allVars, storageVars, cleanVars
<1>2. CleanTypeOK'
  <2>1. OfKind(listing, "part")' = OfKind(listing, "part")
    BY Zenon, <1>1 DEF OfKind
  <2>2. OfKind(listing, "bundle")' = OfKind(listing, "bundle")
    BY Zenon, <1>1 DEF OfKind
  <2> QED
    BY SMT, <1>1, <2>1, <2>2 DEF IInv, CleanTypeOK
<1>3. CallInv => CallInv'
  <2>1. Planned => Planned'
    BY Zenon, <1>1 DEF Planned, Found, Removals
  <2> QED
    BY Zenon, <1>1, <2>1 DEF CallInv
<1>4. cleanPc' = "done" => Removals' = {}
  <2>1. CASE CleanReturn
    BY SMT, <2>1 DEF CleanReturn, Removals
  <2>2. CASE CleanAbort
    BY SMT, <2>2 DEF CleanAbort
  <2>3. CASE UNCHANGED allVars
    BY SMT, <2>3 DEF IInv, Removals, allVars, cleanVars
  <2> QED
    BY Zenon, <2>1, <2>2, <2>3
<1> QED
  BY Zenon, <1>1, <1>2, <1>3, <1>4 DEF IInv

LEMMA NextKeeps == ASSUME IInv, [CleanNext]_allVars PROVE IInv'
  BY Zenon, CallKeeps, RemoveKeeps, OthersKeep DEF CleanNext, CleanStep

\* The inductive invariant: the loop works off what the call has found.
THEOREM Invariant == CleanSpec => []IInv
  BY InitIInv, NextKeeps, PTL DEF CleanSpec

\* The remove list holds files that were listed, each kind in its section.
THEOREM TypeCorrect == CleanSpec => []CleanTypeOK
<1>1. IInv => CleanTypeOK
  BY Zenon DEF IInv
<1> QED
  BY <1>1, Invariant, PTL

-----------------------------------------------------------------------------
\* One of the twins of a file the db refers to is neither unknown nor duplicate.
LEMMA ACopyStays == IInv => ReferencedStays
<1> SUFFICES ASSUME IInv, NEW part \in AllDbParts(vDB), NEW f \in ByAttr(listing, part)
             PROVE  ByAttr(store, part) # {}
  BY Zenon DEF ReferencedStays
<1>1. f \in listing
  BY Zenon DEF ByAttr
<1>2. CallInv
  BY Zenon, <1>1 DEF IInv
<1>3. PICK D \in Duplicates(listing) : listing \ store \subseteq Found(D)
  BY Zenon, <1>2 DEF CallInv, Planned
<1>4. PICK g : Twins(f, listing) \ D = {g}
  BY Zenon, <1>1, <1>2, OneTwinStays DEF CallInv
<1>5. g \in listing /\ g \notin D /\ g.name = f.name /\ g.size = f.size /\ g.body = f.body
  BY Zenon, <1>4 DEF Twins
<1>6. /\ g.name = part.StorageName /\ g.size = part.StorageSize
      /\ part.StorageMd5 \in {AnyMd5, g.body}
  BY Zenon, <1>5 DEF ByAttr
<1>7. g \notin UnknownParts(vDB, listing)
  <2> SUFFICES ASSUME g \in UnknownParts(vDB, listing) PROVE FALSE
    OBVIOUS
  <2>1. g.name.kind = "part" /\ ~(SameAttr(g, part) /\ g.body = part.StorageMd5)
    BY Zenon DEF UnknownParts, OfKind
  <2>2. part.StorageMd5 = AnyMd5
    BY Zenon, <2>1, <1>6 DEF SameAttr
  <2> QED
    BY Zenon, <1>2, <1>6, <2>1, <2>2, DbsAssumption DEF CallInv
<1>8. g \notin UnknownBundles(vDB, listing)
  BY Zenon, <1>6 DEF UnknownBundles, SameAttr
<1>9. g \notin Found(D)
  BY Zenon, <1>5, <1>7, <1>8 DEF Found
<1>10. g \in store
  BY Zenon, <1>3, <1>5, <1>9
<1> QED
  BY Zenon, <1>6, <1>10 DEF ByAttr

\* Whatever the db could be read from when Clean was called, it can be read from
\* after every single Trash.
THEOREM ReferencedDataStays == CleanSpec => []ReferencedStays
  BY ACopyStays, Invariant, PTL

\* An index is of no kind that can be unknown, and its only twin is itself.
LEMMA NoIndexFound == IInv => IndexSurvives
<1> SUFFICES ASSUME IInv, NEW f \in Named(listing, IndexName) PROVE f \in store
  BY Zenon DEF IndexSurvives
<1>1. f \in listing /\ f.name = IndexName
  BY Zenon DEF Named
<1>2. CallInv
  BY Zenon, <1>1 DEF IInv
<1>3. PICK D \in Duplicates(listing) : listing \ store \subseteq Found(D)
  BY Zenon, <1>2 DEF CallInv, Planned
<1>4. PICK g : Twins(f, listing) \ D = {g}
  BY Zenon, <1>1, <1>2, OneTwinStays DEF CallInv
<1>5. g \in Named(listing, IndexName) /\ g.body = f.body /\ g \notin D
  BY Zenon, <1>1, <1>4 DEF Twins, Named
<1>6. f \notin D
  BY Zenon, <1>2, <1>5 DEF CallInv, IndexesDiffer
<1>7. f.name.kind = "index"
  BY SMT, <1>1 DEF IndexName
<1>8. f.name.kind # "part" /\ f.name.kind # "bundle"
  BY SMT, <1>7
<1>9. f \notin UnknownParts(vDB, listing) /\ f \notin UnknownBundles(vDB, listing)
  BY Zenon, <1>8 DEF UnknownParts, UnknownBundles, OfKind
<1>10. f \notin Found(D)
  BY Zenon, <1>6, <1>9 DEF Found
<1> QED
  BY Zenon, <1>1, <1>3, <1>10

\* Clean never takes an index away.
THEOREM IndexIsSafe == CleanSpec => []IndexSurvives
  BY NoIndexFound, Invariant, PTL

\* Of the rest only duplicates are found.
LEMMA OneOfTheRestStays == IInv => RestKeepsACopy
<1> SUFFICES ASSUME IInv, NEW f \in listing, f.name.kind \notin {"part", "bundle"}
             PROVE  Twins(f, listing) \cap store # {}
  BY Zenon DEF RestKeepsACopy
<1>1. CallInv
  BY Zenon DEF IInv
<1>2. PICK D \in Duplicates(listing) : listing \ store \subseteq Found(D)
  BY Zenon, <1>1 DEF CallInv, Planned
<1>3. PICK g : Twins(f, listing) \ D = {g}
  BY Zenon, <1>1, OneTwinStays DEF CallInv
<1>4. g \in Twins(f, listing) /\ g \in listing /\ g \notin D /\ g.name = f.name
  BY Zenon, <1>3 DEF Twins
<1>5. g.name.kind # "part" /\ g.name.kind # "bundle"
  BY SMT, <1>4
<1>6. g \notin UnknownParts(vDB, listing) /\ g \notin UnknownBundles(vDB, listing)
  BY Zenon, <1>5 DEF UnknownParts, UnknownBundles, OfKind
<1>7. g \in store
  BY Zenon, <1>2, <1>4, <1>6 DEF Found
<1> QED
  BY Zenon, <1>4, <1>7

\* Clean takes the last copy of nothing that is neither a part nor a bundle.
THEOREM RestIsKept == CleanSpec => []RestKeepsACopy
  BY OneOfTheRestStays, Invariant, PTL

\* At the end of a call that removed what it found, the rest is referenced.
LEMMA TheRestIsReferenced == IInv => NothingLeft
<1> SUFFICES ASSUME IInv, cleanPc = "done", ~Try PROVE NothingLeft
  BY Zenon DEF NothingLeft
<1>1. CallInv /\ Removals = {}
  BY SMT DEF IInv
<1>2. PICK D \in Duplicates(listing) : store \cap Found(D) \subseteq Removals
  BY Zenon, <1>1 DEF CallInv, Planned
<1> DEFINE left == store \cap listing
<1>3. \A f \in left : f \in listing /\ f \notin Found(D)
  BY Zenon, <1>1, <1>2
<1>4. ASSUME NEW f \in OfKind(left, "part")
      PROVE  \E part \in AllDbParts(vDB) : f \in ByAttr(left, part)
  <2>1. f \in left /\ f \in OfKind(listing, "part") /\ f \notin UnknownParts(vDB, listing)
    BY Zenon, <1>3 DEF OfKind, Found
  <2>2. PICK part \in AllDbParts(vDB) : SameAttr(f, part) /\ f.body = part.StorageMd5
    BY Zenon, <2>1 DEF UnknownParts
  <2>3. f \in ByAttr(left, part)
    BY Zenon, <2>1, <2>2 DEF ByAttr, SameAttr
  <2> QED
    BY Zenon, <2>3
<1>5. ASSUME BundleMode(vDB), NEW f \in OfKind(left, "bundle")
      PROVE  \E part \in AllDbParts(vDB) : f \in ByAttr(left, part)
  <2>1. /\ f \in left /\ f.name.kind = "bundle" /\ f \in OfKind(listing, "bundle")
        /\ f \notin UnknownBundles(vDB, listing)
    BY Zenon, <1>3, <1>5 DEF OfKind, Found
  <2>2. PICK part \in AllDbParts(vDB) : SameAttr(f, part)
    BY Zenon, <2>1 DEF UnknownBundles
  <2>3. part.StorageMd5 = AnyMd5
    BY Zenon, <1>1, <2>1, <2>2, DbsAssumption DEF CallInv, SameAttr
  <2>4. f \in ByAttr(left, part)
    BY Zenon, <2>1, <2>2, <2>3 DEF ByAttr, SameAttr
  <2> QED
    BY Zenon, <2>4
<1>6. ASSUME NEW f \in left, NEW g \in left,
             f.name = g.name, f.size = g.size, f.body = g.body
      PROVE  f = g
  <2>1. PICK h : Twins(f, listing) \ D = {h}
    BY Zenon, <1>1, <1>3, OneTwinStays DEF CallInv
  <2>2. f \notin D /\ g \notin D
    BY Zenon, <1>3 DEF Found
  <2>3. f \in Twins(f, listing) /\ g \in Twins(f, listing)
    BY Zenon, <1>3, <1>6 DEF Twins
  <2>4. f \in {h} /\ g \in {h}
    BY SMT, <2>1, <2>2, <2>3
  <2> QED
    BY SMT, <2>4
<1>7. OfKind(left, "part") \cup OfKind(left, "bundle") \subseteq left
  BY Zenon DEF OfKind
<1> QED
  BY Zenon, <1>4, <1>5, <1>6, <1>7 DEF NothingLeft

\* A call that returns without an error has left no garbage of what it listed,
\* and no duplicates of parts and bundles.
THEOREM NothingIsLeft == CleanSpec => []NothingLeft
  BY TheRestIsReferenced, Invariant, PTL

=============================================================================

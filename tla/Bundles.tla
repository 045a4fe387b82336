------------------------------- MODULE Bundles -------------------------------
(***************************************************************************)
(* db.MakeBundles: how findGroups and splitBigBundles collect small files  *)
(* into groups.  The promise they have to keep is VirtDb!Groupings, all    *)
(* that core.Upload relies on.                                             *)
(*                                                                         *)
(* Phase 3 ranges over a Go map while it appends to the result, so the     *)
(* order in which the groups of a round are found is any order: one step   *)
(* per group.  Everything else is a function of the files.                 *)
(***************************************************************************)
EXTENDS VirtDb

CONSTANTS
  Folders,    \* the folders that are scanned, [paths -> contents]
  RelPath,    \* [Path -> sequence of characters]
  SmallSize   \* the 12 kB of phase 1

ASSUME BundlesAssumption ==
  /\ \A folder \in Folders : DOMAIN folder \subseteq Path
  /\ \A folder \in Folders : \A p \in DOMAIN folder : folder[p] \in Seq(Chunk)
  /\ RelPath \in [Path -> Seq(Nat) \ {<< >>}]
  /\ SmallSize \in Nat

VARIABLES
  vFiles,   \* db.VFiles, which MakeBundles does not change here
  files,    \* the files no group has taken yet, in path order
  found,    \* foundGroups
  cutAt,    \* length of the path prefix that makes a group
  visit,    \* prefix -> total FileSize, for the groups of this round that the
            \* range over the map has still to visit
  made      \* have the groups been split and filtered?

bundleVars == <<vFiles, files, found, cutAt, visit, made>>

\* The elements of s that are in S, in their order: SelectSeq, as a fold.
Only(s, S) ==
  FoldLeft(LAMBDA kept, x : IF x \in S THEN Append(kept, x) ELSE kept, << >>, s)

Candidates == Bundleable(vFiles)

ThePart(p) == vFiles[p].Parts[1]
FileSize == [p \in Candidates |-> PlainSize[PlainOf(ThePart(p))[1]]]
StorageSize == [p \in Candidates |-> ThePart(p).StorageSize]
TotalSize(size, group) == FoldLeft(LAMBDA n, p : n + size[p], 0, group)

Prefix(p, len) == SubSeq(RelPath[p], 1, Min({len, Len(RelPath[p])}))
WithPrefix(g, len) == {p \in ToSet(files) : Prefix(p, len) = g}

\* Filter and sort, then phase 1 (very small files) and phase 2 (compressible
\* files); what is left goes to phase 3.
BundleInit ==
  /\ \E folder \in Folders : vFiles = [p \in DOMAIN folder |-> ScanFile(folder[p])]
  /\ LET all == Ascending(Candidates)
         small == {p \in Candidates : StorageSize[p] < SmallSize}
         medium == {p \in Candidates \ small : vFiles[p].UseCompression}
     IN  /\ found = <<Only(all, small), Only(all, medium)>>
         /\ files = Only(all, Candidates \ (small \cup medium))
  /\ cutAt = Max({0} \cup {Len(RelPath[p]) : p \in ToSet(files)})
  /\ visit = << >>
  /\ made = FALSE

\* (mutant) the loop over the prefix lengths has a round too many
LastRoundBelowZero == cutAt < 0

LastRound == cutAt = 0

\* A round of phase 3 begins: the total size of each group is computed.
NextRound ==
  /\ ~made /\ DOMAIN visit = {} /\ ~LastRound
  /\ cutAt' = cutAt - 1
  /\ visit' = [g \in {Prefix(p, cutAt') : p \in ToSet(files)} |->
                 TotalSize(FileSize, Only(files, WithPrefix(g, cutAt')))]
  /\ UNCHANGED <<vFiles, files, found, made>>

\* (mutants) small groups are never taken; a group that is taken stays
TakeIfLarge(g) == visit[g] > PartSize \div 2

KeepAll(g) == files

\* One group is visited: large enough, or the last round, and it is taken.
Take(g) == visit[g] > PartSize \div 2 \/ LastRound

Without(g) == Only(files, ToSet(files) \ WithPrefix(g, cutAt))

VisitGroup ==
  /\ \E g \in DOMAIN visit :
       /\ visit' = [h \in DOMAIN visit \ {g} |-> visit[h]]
       /\ IF Take(g)
            THEN /\ found' = Append(found, Only(files, WithPrefix(g, cutAt)))
                 /\ files' = Without(g)
            ELSE UNCHANGED <<found, files>>
  /\ UNCHANGED <<vFiles, cutAt, made>>

\* splitBigBundles: above 2*PartSize a group is cut each time PartSize is passed.
AddFile(acc, p) ==
  LET cur == Append(acc.cur, p)
      size == acc.size + StorageSize[p]
  IN  IF size > PartSize
        THEN [subs |-> Append(acc.subs, cur), cur |-> << >>, size |-> 0]
        ELSE [subs |-> acc.subs, cur |-> cur, size |-> size]

SplitGroup(group) ==
  LET all == FoldLeft(AddFile, [subs |-> << >>, cur |-> << >>, size |-> 0], group)
  IN  Append(all.subs, all.cur)

\* (mutant) nothing is split
SplitNothing(groups) == groups

SplitBigBundles(groups) ==
  FlattenSeq([i \in DOMAIN groups |->
                IF TotalSize(StorageSize, groups[i]) <= 2 * PartSize
                  THEN <<groups[i]>>
                  ELSE SplitGroup(groups[i])])

\* (mutant) a file can be a bundle of its own
NotEmpty(g) == Len(g) > 0

ManyFiles(g) == Len(g) > 1

\* The end of findGroups: groups of fewer than two files are dropped.
Finish ==
  /\ ~made /\ DOMAIN visit = {} /\ LastRound
  /\ made' = TRUE
  /\ LET groups == SplitBigBundles(found)
     IN  found' = Only(groups, {g \in ToSet(groups) : ManyFiles(g)})
  /\ UNCHANGED <<vFiles, files, cutAt, visit>>

BundleNext == NextRound \/ VisitGroup \/ Finish

BundleSpec == BundleInit /\ [][BundleNext]_bundleVars

-----------------------------------------------------------------------------
BundleTypeOK ==
  /\ ToSet(files) \subseteq Candidates
  /\ \A i \in DOMAIN found : ToSet(found[i]) \subseteq Candidates
  /\ cutAt \in Nat /\ made \in BOOLEAN
  /\ \A g \in DOMAIN visit : visit[g] \in Nat

\* The phases hand the files on without losing or repeating one, and so would
\* splitBigBundles ("inFileCount != outFileCount"): each file that can be bundled
\* is in exactly one group, or still waiting, exactly once.
EachFileOnce ==
  ~made => \A groups \in {found, SplitBigBundles(found)} :
             LET line == FlattenSeq(Append(groups, files))
             IN  /\ Len(line) = Cardinality(Candidates)
                 /\ ToSet(line) = Candidates

\* What MakeBundles promises to Upload, Open and Clean: whatever the order of
\* the map, the groups are disjoint lists of two or more small files of a single
\* part, each in path order.
KeepsPromise == made => found \in Groupings(vFiles)

\* splitBigBundles: whatever the phases put together, no bundle is larger than
\* two parts.
BundleSizes ==
  made => \A i \in DOMAIN found : TotalSize(StorageSize, found[i]) <= 2 * PartSize

\* In the round with the empty prefix every file that is left is taken: a file
\* without a bundle was alone in its group.
NobodyForgotten == (made \/ (cutAt = 0 /\ DOMAIN visit = {})) => files = << >>

=============================================================================

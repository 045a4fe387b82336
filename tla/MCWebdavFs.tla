----------------------------- MODULE MCWebdavFs -----------------------------
(***************************************************************************)
(* Versions of a folder with two images of the same size in a bundle.      *)
(* In Renamed the images are renumbered: they keep their bundle but change *)
(* their names.  In Single one image is gone, and there is no bundle: the  *)
(* clean-up removes a part, and has to leave the bundle alone.  In Mixed   *)
(* the other image is replaced by a text, with another bundle: the         *)
(* clean-up removes a part and a bundle, one after the other.  That these  *)
(* are snapshots is VersionsAssumption.                                    *)
(***************************************************************************)
EXTENDS WebdavFs

MCChunk == {"x", "y", "t"}
MCPlainSize == [c \in MCChunk |-> IF c = "t" THEN 6 ELSE 3]
MCComprSize == [c \in MCChunk |-> IF c = "t" THEN 2 ELSE 3]

File(c, bundle) ==
  [Parts |-> <<VFilePart(c, c = "t")>>, UseCompression |-> c = "t",
   AlsoInBundle |-> BundleName(bundle)]

Bundle(cs, size, group) ==
  BundleName(cs) :> [StorageName |-> BundleName(cs), StorageSize |-> size,
                     StorageMd5 |-> AnyMd5, Content |-> group]

XY == <<"x", "y">>
XT == <<"x", "t">>

Images == [VFiles |-> 1 :> File("x", XY) @@ 2 :> File("y", XY),
           Bundles |-> Bundle(XY, 6, <<1, 2>>)]
Renamed == [VFiles |-> 2 :> File("x", XY) @@ 3 :> File("y", XY),
            Bundles |-> Bundle(XY, 6, <<2, 3>>)]
Single == [VFiles |-> 1 :> File("y", << >>), Bundles |-> << >>]
Mixed == [VFiles |-> 2 :> File("x", XT) @@ 3 :> File("t", XT),
          Bundles |-> Bundle(XT, 5, <<2, 3>>)]

MCVersions == <<Images, Single, Mixed>>
MCRenamedVersions == <<Images, Renamed>>

=============================================================================

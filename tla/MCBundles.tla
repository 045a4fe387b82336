------------------------------ MODULE MCBundles ------------------------------
(***************************************************************************)
(* All ways to fill five paths in three folders, aa ab ba bb c, with files *)
(* of five kinds.  A part is 10 units; the 12 kB of phase 1 are 2.         *)
(***************************************************************************)
EXTENDS Bundles

MCRelPath == <<<<1, 1>>, <<1, 2>>, <<2, 1>>, <<2, 2>>, <<3>>>>
MCChunk == {"s", "m", "x", "w", "F"}   \* small, medium, two images, a full part
MCPlainSize == [c \in MCChunk |->
  CASE c = "s" -> 1 [] c = "m" -> 9 [] c = "x" -> 3 [] c = "w" -> 8 [] c = "F" -> 10]
MCComprSize == [c \in MCChunk |-> IF c = "m" THEN 7 ELSE MCPlainSize[c]]
MCContents == {<<c>> : c \in MCChunk}

MCFolders == UNION {[D -> MCContents] : D \in {Path, Path \ {5}, {3, 4}, {}}}

=============================================================================

------------------------------- MODULE MCClean -------------------------------
(***************************************************************************)
(* Clean on storages with everything that can be found in one: parts that  *)
(* are referenced, unreferenced, saved under the name of another content,  *)
(* bundles, an index, files of other origin, and a second copy of each (two *)
(* machines that uploaded at the same time).                               *)
(***************************************************************************)
EXTENDS Clean

CONSTANT MaxFiles   \* bound: files in the storage

MCChunk == {"x", "y", "t"}
MCPlainSize == [c \in MCChunk |-> IF c = "t" THEN 6 ELSE 3]
MCComprSize == [c \in MCChunk |-> IF c = "t" THEN 2 ELSE 3]

\* Two files, of the contents x and t, with and without a bundle of both.
MCFiles == [p \in {1, 2} |-> ScanFile(IF p = 1 THEN <<"x">> ELSE <<"t">>)]
MCDbs == {MakeBundles(MCFiles, << >>), MakeBundles(MCFiles, << <<1, 2>> >>)}

Body(c, compr) == Stored(<< <<c, compr>> >>)
XT == Stored(<< <<"x", FALSE>>, <<"t", TRUE>> >>)
YT == Stored(<< <<"y", FALSE>>, <<"t", TRUE>> >>)

\* name, size and body of the files that may be there, each up to twice
Kinds ==
  << [name |-> PartName("x"), size |-> 3, body |-> Body("x", FALSE)],
     [name |-> PartName("x"), size |-> 3, body |-> Body("y", FALSE)],
     [name |-> PartName("t"), size |-> 2, body |-> Body("t", TRUE)],
     [name |-> PartName("t"), size |-> 6, body |-> Body("t", FALSE)],
     [name |-> PartName("y"), size |-> 3, body |-> Body("y", FALSE)],
     [name |-> BundleName(<<"x", "t">>), size |-> 5, body |-> XT],
     [name |-> BundleName(<<"x", "t">>), size |-> 5, body |-> YT],
     [name |-> BundleName(<<"y", "t">>), size |-> 5, body |-> YT],
     [name |-> IndexName, size |-> 1, body |-> [nonce |-> 0]],
     [name |-> [kind |-> "rest", plain |-> << >>], size |-> 1,
      body |-> Stored(<< >>)] >>

Online(i) ==
  [id |-> i, name |-> Kinds[(i + 1) \div 2].name, size |-> Kinds[(i + 1) \div 2].size,
   body |-> IF (i + 1) \div 2 = 9 THEN [nonce |-> i] ELSE Kinds[(i + 1) \div 2].body]

MCInit ==
  /\ lastId = 20
  /\ store \in {{Online(i) : i \in S} :
                  S \in {S \in SUBSET (1..20) : Cardinality(S) <= MaxFiles}}
  /\ CleanInit

MCSpec == MCInit /\ [][CleanNext]_allVars

=============================================================================

------------------------------ MODULE MCUpload ------------------------------
(***************************************************************************)
(* A small instance of Upload.  Sizes are in units; a part is 10 of them.  *)
(*   "x", "y"  incompressible, of the same size                            *)
(*   "t"       compressible                                                *)
(***************************************************************************)
EXTENDS PublishedReads

MCChunk == {"x", "y", "t"}
MCPlainSize == [c \in MCChunk |-> IF c = "t" THEN 6 ELSE 3]
MCComprSize == [c \in MCChunk |-> IF c = "t" THEN 2 ELSE 3]

MCContents == {<<"x">>, <<"y">>, <<"t">>}
MCContentsPair == {<<"x">>, <<"t">>, << >>}

\* Two copies of a folder with an image and a text.
MCInitCopies ==
  Init /\ disk = [p \in Path |-> IF p % 2 = 1 THEN <<"x">> ELSE <<"t">>]

MCSpecCopies == MCInitCopies /\ [][Next]_vars

=============================================================================

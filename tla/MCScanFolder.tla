---------------------------- MODULE MCScanFolder ----------------------------
(***************************************************************************)
(* Two names.  Sizes are in units; a part is 10 of them.                   *)
(*   "x", "y"  incompressible, of the same size      "F"  a full part      *)
(*   "t"       compressible                                                *)
(***************************************************************************)
EXTENDS ScanFolder

MCChunk == {"x", "y", "t", "F"}
MCPlainSize == [c \in MCChunk |-> CASE c = "F" -> 10 [] c = "t" -> 6 [] OTHER -> 3]
MCComprSize == [c \in MCChunk |-> CASE c = "F" -> 10 [] c = "t" -> 2 [] OTHER -> 3]
MCContents == {<<"x">>, <<"y">>, <<"t">>, <<"F", "t">>}

\* The folders the runs begin with.
MCFolders == {<< >>, << <<"x">> >>, << <<"t">>, Dir >>, << <<"F", "t">>, <<"x">> >>}

MCInit == Init /\ disk \in MCFolders

MCSpec == MCInit /\ [][Next]_vars /\ WF_vars(ScanStep) /\ WF_vars(StartScan)

=============================================================================

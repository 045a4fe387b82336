----------------------------- MODULE MCPublisher -----------------------------
(***************************************************************************)
(* A folder with up to two files: empty, with one part, with two parts.    *)
(* Sizes are in units; a part is 10 of them.                               *)
(***************************************************************************)
EXTENDS Publisher

MCChunk == {"x", "t", "F"}   \* incompressible, compressible, a full part
MCPlainSize == [c \in MCChunk |-> CASE c = "F" -> 10 [] c = "t" -> 6 [] c = "x" -> 3]
MCComprSize == [MCPlainSize EXCEPT !["t"] = 2]
MCContents == {<< >>, <<"t">>, <<"F", "t">>}

\* The folders the runs begin with: none or two files, the second one small.
MCFolders == {<< >>} \cup {<<c, <<"t">> >> : c \in MCContents}

MCInit == PublisherInit /\ disk \in MCFolders

MCSpec ==
  /\ MCInit /\ [][PublisherNext]_publisherVars
  /\ WF_publisherVars(Proceed)
  /\ WF_publisherVars(StartUpload(FALSE))

=============================================================================

--------------------------- MODULE MCUploadProofs ---------------------------
(***************************************************************************)
(* The instance of MCUpload, with the inductive invariant of the proofs.   *)
(***************************************************************************)
EXTENDS MCUpload, UploadProofs

=============================================================================

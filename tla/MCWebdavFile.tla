---------------------------- MODULE MCWebdavFile ----------------------------
(***************************************************************************)
(* A file of 21 bytes in a bundle of more than db.PartSize: it begins in   *)
(* the last but one block of the first GiB, behind which the counter has a *)
(* carry through three bytes, and ends in the second GiB.                  *)
(***************************************************************************)
EXTENDS WebdavFile

MCBase == 1073741824 - 18
MCOffsets == {-3, 0, 17}

=============================================================================

------------------------------- MODULE Mirror -------------------------------
(***************************************************************************)
(* What `splitfs upload' promises to those who read the storage: the index *)
(* online is never anything but the latest snapshot a publisher took of    *)
(* the folder, as a whole.  While it is replaced there may be none.  It is *)
(* never a mixture, never two at a time, and never goes back to an older   *)
(* snapshot.                                                               *)
(***************************************************************************)
VARIABLES
  folder,   \* the local folder
  draft,    \* the latest snapshot of it
  online    \* the snapshots a reader can find: none, or one

vars == <<folder, draft, online>>

Init == draft = << >> /\ online = {}

Edit == folder' # folder /\ UNCHANGED <<draft, online>>

Snapshot == draft' = folder /\ UNCHANGED <<folder, online>>

Withdraw == online' = {} /\ UNCHANGED <<folder, draft>>

Publish == online = {} /\ online' = {draft} /\ UNCHANGED <<folder, draft>>

Next == Edit \/ Snapshot \/ Withdraw \/ Publish

Spec == Init /\ [][Next]_vars

=============================================================================

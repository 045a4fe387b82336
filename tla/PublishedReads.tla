--------------------------- MODULE PublishedReads ---------------------------
(***************************************************************************)
(* What Upload writes and Open reads, end to end.                          *)
(***************************************************************************)
EXTENDS Upload, OpenFile

\* "The data can be read directly in plain text.  Smaller files are preferably
\* read from a bundle": for an index whose upload no edit interfered with, a
\* reader with an up-to-date file list gets, for every file, exactly the
\* content that was scanned, whichever of the matching storage files it is
\* given, through a bundle or not.
ReadsWhatWasScanned ==
  \A f \in Named(store, IndexName) :
    excuse[f.id] = {} =>
      LET db == f.body.db
      IN  \A p \in DOMAIN db.VFiles :
            Open(p, db.VFiles[p], db, store) = {ScannedContent(db.VFiles[p])}

=============================================================================

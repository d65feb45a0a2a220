--------------------------- MODULE MCUploadClient ---------------------------
(* Small instances of UploadClient for TLC.                                *)
EXTENDS UploadClient

Both == {"http", "https"}
BothSchemes == [sp \in SP |-> Both]
=============================================================================

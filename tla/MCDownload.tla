----------------------------- MODULE MCDownload -----------------------------
(* Three files, two workers, a run that may be killed and one after it.    *)
EXTENDS Download

CONSTANTS f1, f2, f3
=============================================================================

--------------------------- MODULE MCCleanupLoop ---------------------------
(* CleanupLoop on a small instance: the loop and one request goroutine. *)
EXTENDS CleanupLoop
=============================================================================

-------------------------- MODULE MCCleanupArchive --------------------------
(* A small instance of CleanupArchive. *)
EXTENDS CleanupArchive

=============================================================================

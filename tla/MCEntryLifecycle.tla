------------------------ MODULE MCEntryLifecycle ------------------------
(* The instances give every constant in the .cfg file. *)
EXTENDS EntryLifecycle
=============================================================================

--------------------------- MODULE MCLibraryCache ---------------------------
(* LibraryCache for TLC. *)
EXTENDS LibraryCache

MCEnvironments == {{}, {"readers"}, {"restrict"}}

=============================================================================

------------------------- MODULE MCTemporaryFiles -------------------------
(* TemporaryFiles for TLC. *)
EXTENDS TemporaryFiles

MCEnvironments == {{}, {"ioerror"}, {"crash"}}

=============================================================================

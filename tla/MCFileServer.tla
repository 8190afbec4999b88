--------------------------- MODULE MCFileServer ---------------------------
(***************************************************************************)
(* Instances of FileServer for TLC.                                        *)
(***************************************************************************)
EXTENDS FileServer, TLC

=============================================================================

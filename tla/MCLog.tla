-------------------------------- MODULE MCLog --------------------------------
(***************************************************************************)
(* The logger with small buffers.                                          *)
(***************************************************************************)
EXTENDS Log
==============================================================================

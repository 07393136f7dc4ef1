----------------------------- MODULE MCPictures -----------------------------
(***************************************************************************)
(* Pictures for TLC.                                                       *)
(***************************************************************************)
EXTENDS Pictures
=============================================================================

--------------------------- MODULE MCServerTools ---------------------------
(***************************************************************************)
(* ServerTools for TLC: every combination of stream or JSON, tool search,  *)
(* advisor and draining model.                                             *)
(***************************************************************************)
EXTENDS ServerTools
=============================================================================

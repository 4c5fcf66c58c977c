--------------------------- MODULE MCUpstreamCall ---------------------------
(***************************************************************************)
(* UpstreamCall for TLC: two requests that share the manager, each with up *)
(* to MaxCalls upstream calls of three attempts, while tokens are issued,  *)
(* expire and are revoked at any moment.                                   *)
(***************************************************************************)
EXTENDS UpstreamCall, TLC

CallerSymmetry == Permutations(Callers)
=============================================================================

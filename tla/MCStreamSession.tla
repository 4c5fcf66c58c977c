-------------------------- MODULE MCStreamSession --------------------------
(***************************************************************************)
(* StreamSession for TLC: a handful of semantic items and keep-alives are  *)
(* enough for every interleaving of one buffered burst, one retry, one     *)
(* promotion and one final error with the heartbeat and with Stop.         *)
(***************************************************************************)
EXTENDS StreamSession
=============================================================================

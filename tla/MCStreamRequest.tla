-------------------------- MODULE MCStreamRequest --------------------------
(***************************************************************************)
(* StreamRequest for TLC, streamed and not: up to MaxFrames frames in each *)
(* of the two attempts, one keep-alive at any moment, a client that leaves *)
(* at any moment and a socket that fails at any write.                     *)
(***************************************************************************)
EXTENDS StreamRequest
=============================================================================

----------------------------- MODULE MCTransport -----------------------------
(***************************************************************************)
(* The instance of Transport for TLC, with what its streams are held to.   *)
(***************************************************************************)
EXTENDS Streams
=============================================================================

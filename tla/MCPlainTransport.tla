-------------------------- MODULE MCPlainTransport --------------------------
(* One client, a ring that can overflow, reads longer and shorter than it. *)
EXTENDS PlainTransport
=============================================================================

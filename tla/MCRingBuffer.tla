---------------------------- MODULE MCRingBuffer ----------------------------
(* Model values for RingBuffer. *)
EXTENDS RingBuffer
=============================================================================

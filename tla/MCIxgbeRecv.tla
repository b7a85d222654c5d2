---------------------------- MODULE MCIxgbeRecv ----------------------------
(***************************************************************************)
(* IxgbeRecv with two pollers and a ring of four descriptors, of which     *)
(* three hold packets, handed over in batches of two: a poll fills the     *)
(* array of frames and starts again.                                       *)
(***************************************************************************)
EXTENDS IxgbeRecv

CONSTANTS p, q, bad

MCPackets == {p, q, bad}
MCFaulty == {bad}
=============================================================================

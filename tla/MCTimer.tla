------------------------------ MODULE MCTimer ------------------------------
(***************************************************************************)
(* Timer with a low word of 8 ticks and a tick of one and a half           *)
(* nanoseconds, over three passages of the low word through zero.          *)
(***************************************************************************)
EXTENDS Timer
=============================================================================

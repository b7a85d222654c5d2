---------------------------- MODULE MCIxgbeXmit ----------------------------
(***************************************************************************)
(* IxgbeXmit with two senders and a ring of three descriptors, which holds *)
(* two frames: two calls fill it, and the indices wrap.  The calls send no *)
(* frame, two frames, and a frame that is too big before one that is not.  *)
(***************************************************************************)
EXTENDS IxgbeXmit

CONSTANTS f, g, h

MCFrames == {f, g, h}
MCBig == {h}
MCBatches == {<<>>, <<f, g>>, <<h, f>>}
=============================================================================

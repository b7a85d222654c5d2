----------------------------- MODULE FrameFilter -----------------------------
(***************************************************************************)
(* What is left of a sequence of frames when some are passed over: both    *)
(* loops of the driver (src/drivers/ixgbe.c) go on to the next frame where *)
(* one is at fault.                                                        *)
(***************************************************************************)
EXTENDS Integers, Sequences

(* The frames of s that are not in S, in their order (SelectSeq, as a      *)
(* function of how far s is looked at).                                    *)
Without(s, S) ==
    LET kept[k \in 0 .. Len(s)] ==
            IF k = 0 THEN <<>>
            ELSE IF s[k] \in S THEN kept[k - 1] ELSE Append(kept[k - 1], s[k])
    IN  kept[Len(s)]
=============================================================================

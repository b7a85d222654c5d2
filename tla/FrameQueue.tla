----------------------------- MODULE FrameQueue -----------------------------
(***************************************************************************)
(* What a descriptor ring promises to the two sides that share it: frames  *)
(* leave in the order they came in, none is lost, changed or doubled, and  *)
(* there are never more than Capacity of them.                             *)
(***************************************************************************)
EXTENDS Integers, Sequences

CONSTANTS Frames, Capacity

VARIABLE queue

Init == queue = <<>>

Put ==
    /\ queue' \in Seq(Frames)
    /\ Len(queue') \in Len(queue) + 1 .. Capacity
    /\ SubSeq(queue', 1, Len(queue)) = queue

Take == \E n \in 1 .. Len(queue) : queue' = SubSeq(queue, n + 1, Len(queue))

Next == Put \/ Take

Spec == Init /\ [][Next]_queue
=============================================================================

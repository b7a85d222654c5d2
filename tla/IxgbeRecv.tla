----------------------------- MODULE IxgbeRecv -----------------------------
(***************************************************************************)
(* The receive ring of the ixgbe driver (src/drivers/ixgbe.c).  The        *)
(* adapter fills the descriptors from RDH up to RDT on its own; several    *)
(* processors call ixgbe_recv_frames, one after the other under the        *)
(* driver's spin lock, which hands over what has arrived in batches and    *)
(* gives the descriptors back by moving RDT.                               *)
(***************************************************************************)
EXTENDS FrameFilter

CONSTANTS
    Callers,     \* the processors that poll
    Packets,     \* what arrives
    Faulty,      \* the packets whose descriptor lacks EOP or reports an error
    num_rdesc,   \* the descriptors of the ring
    num          \* the frames of one batch (16 in the code)

ASSUME RecvAssumption ==
    /\ Faulty \subseteq Packets
    /\ num_rdesc \in Nat \ {0, 1}
    /\ num \in Nat \ {0}

VARIABLES
    lock,           \* ixgbe->lock
    recv_enabled,   \* ixgbe->recv_enabled
    RDH, RDT,       \* the registers IXGBE_REG_RDH and IXGBE_REG_RDT
    rdesc_ring,     \* what each descriptor and its buffer hold
    present,        \* the adapter is there
    pc, head, tail, \* the callers' variables
    frames,         \* frames[0 .. i - 1]: descriptors whose buffer is referred to
    errstate,       \* errstate is not 0
    given           \* history: what the call has handed over

regs == <<RDH, RDT>>
locals == <<head, tail, frames, errstate, given>>
vars == <<lock, recv_enabled, regs, rdesc_ring, present, pc, locals>>

Descriptors == 0 .. num_rdesc - 1

(* 0xFFFFFFFF, more than num_rdesc: what a register reads as when there is *)
(* no adapter.  num_rdesc itself would pass the test as well, but an       *)
(* adapter's head and tail are descriptors of the ring.                    *)
AllOnes == num_rdesc + 1

Empty == "empty"

RecvTypeOK ==
    /\ lock \in {0, 1}
    /\ recv_enabled \in BOOLEAN
    /\ RDH \in Descriptors /\ RDT \in Descriptors
    /\ rdesc_ring \in [Descriptors -> Packets \cup {Empty}]
    /\ present \in BOOLEAN
    /\ pc \in [Callers -> {"idle", "lock", "head", "tail", "loop", "write", "end"}]
    /\ head \in [Callers -> Descriptors \cup {AllOnes}]
    /\ tail \in [Callers -> Descriptors \cup {AllOnes}]
    /\ frames \in [Callers -> Seq(Descriptors)]
    /\ \A c \in Callers : Len(frames[c]) <= num
    /\ given \in [Callers -> Seq(Packets)]
    /\ errstate \in [Callers -> BOOLEAN]
-----------------------------------------------------------------------------
(* The ring as ixgbe_setup_recv leaves it, just before its last step: all  *)
(* descriptors but one are the adapter's.                                  *)
RecvInit ==
    /\ lock = 0 /\ recv_enabled = FALSE
    /\ RDH = 0 /\ RDT = num_rdesc - 1
    /\ rdesc_ring = [d \in Descriptors |-> Empty]
    /\ present = TRUE
    /\ pc = [c \in Callers |-> "idle"]
    /\ head = [c \in Callers |-> 0]
    /\ tail = [c \in Callers |-> 0]
    /\ frames = [c \in Callers |-> <<>>]
    /\ errstate = [c \in Callers |-> FALSE]
    /\ given = [c \in Callers |-> <<>>]

ixgbe_setup_recv ==
    /\ ~recv_enabled /\ recv_enabled' = TRUE
    /\ UNCHANGED <<lock, regs, rdesc_ring, present, pc, locals>>

goto(c, where) == pc' = [pc EXCEPT ![c] = where]

ixgbe_read32(reg) == IF present THEN reg ELSE AllOnes

fails(c) == errstate' = [errstate EXCEPT ![c] = TRUE]

ixgbe_recv_frames(c) ==
    /\ pc[c] = "idle" /\ goto(c, "lock")
    /\ UNCHANGED <<lock, recv_enabled, regs, rdesc_ring, present, locals>>

spinlock_lock(c) ==
    /\ pc[c] = "lock" /\ lock = 0 /\ lock' = 1
    /\ goto(c, IF recv_enabled THEN "head" ELSE "end")
    /\ IF recv_enabled THEN UNCHANGED errstate ELSE fails(c)
    /\ UNCHANGED <<recv_enabled, regs, rdesc_ring, present, head, tail, frames, given>>

read_head(c) ==
    /\ pc[c] = "head" /\ goto(c, "tail")
    /\ head' = [head EXCEPT ![c] = ixgbe_read32(RDH)]
    /\ UNCHANGED <<lock, recv_enabled, regs, rdesc_ring, present,
                   tail, frames, errstate, given>>

read_tail(c) ==
    /\ pc[c] = "tail"
    /\ tail' = [tail EXCEPT ![c] = ixgbe_read32(RDT)]
    /\ IF head[c] > num_rdesc \/ tail'[c] > num_rdesc
       THEN goto(c, "end") /\ fails(c)
       ELSE goto(c, "loop") /\ UNCHANGED errstate
    /\ UNCHANGED <<lock, recv_enabled, regs, rdesc_ring, present, head, frames, given>>

nt(c) == IF tail[c] + 1 >= num_rdesc THEN 0 ELSE tail[c] + 1

(* The frames as whoever is told of them sees them.                        *)
Contents(c) == [k \in 1 .. Len(frames[c]) |-> rdesc_ring[frames[c][k]]]

hand_over(c) == given' = [given EXCEPT ![c] = @ \o Contents(c)]

(* Variant: a full batch is dropped.                                       *)
DropBatch(c, kept) ==
    /\ frames' = [frames EXCEPT ![c] = IF Len(@) = num THEN kept ELSE @ \o kept]
    /\ UNCHANGED given

(* Variant: the batch goes on beyond its array.                            *)
LongBatch(c, kept) ==
    /\ frames' = [frames EXCEPT ![c] = @ \o kept]
    /\ UNCHANGED given

(* The descriptors kept join the batch; a full one is handed over before.  *)
batch(c, kept) ==
    IF Len(frames[c]) = num
    THEN frames' = [frames EXCEPT ![c] = kept] /\ hand_over(c)
    ELSE frames' = [frames EXCEPT ![c] = @ \o kept] /\ UNCHANGED given

(* One round of the loop; a descriptor with an error is passed over.       *)
recv_frame(c) ==
    LET d == nt(c)
        faulty == rdesc_ring[d] \in Faulty
    IN  /\ pc[c] = "loop" /\ head[c] # d
        /\ tail' = [tail EXCEPT ![c] = d]
        /\ batch(c, IF faulty THEN <<>> ELSE <<d>>)
        /\ IF faulty THEN fails(c) ELSE UNCHANGED errstate
        /\ UNCHANGED <<lock, recv_enabled, regs, rdesc_ring, present, pc, head>>

recv_last(c) ==
    /\ pc[c] = "loop" /\ head[c] = nt(c)
    /\ hand_over(c) /\ goto(c, "write")
    /\ UNCHANGED <<lock, recv_enabled, regs, rdesc_ring, present,
                   head, tail, frames, errstate>>

(* Variant: the descriptor after the last one is given back as well.       *)
TailPast(c) ==
    /\ pc[c] = "write" /\ goto(c, "end")
    /\ RDT' = IF present THEN nt(c) ELSE RDT
    /\ UNCHANGED <<lock, recv_enabled, RDH, rdesc_ring, present, locals>>

write_tail(c) ==
    /\ pc[c] = "write" /\ goto(c, "end")
    /\ RDT' = IF present THEN tail[c] ELSE RDT
    /\ UNCHANGED <<lock, recv_enabled, RDH, rdesc_ring, present, locals>>

(* Variant: the driver returns without the unlock where it saw an error.   *)
KeepLock(c) ==
    /\ pc[c] = "end" /\ goto(c, "idle")
    /\ lock' = IF errstate[c] THEN lock ELSE 0
    /\ head' = [head EXCEPT ![c] = 0]
    /\ tail' = [tail EXCEPT ![c] = 0]
    /\ frames' = [frames EXCEPT ![c] = <<>>]
    /\ errstate' = [errstate EXCEPT ![c] = FALSE]
    /\ given' = [given EXCEPT ![c] = <<>>]
    /\ UNCHANGED <<recv_enabled, regs, rdesc_ring, present>>

spinlock_unlock(c) ==
    /\ pc[c] = "end" /\ goto(c, "idle")
    /\ lock' = 0
    /\ head' = [head EXCEPT ![c] = 0]
    /\ tail' = [tail EXCEPT ![c] = 0]
    /\ frames' = [frames EXCEPT ![c] = <<>>]
    /\ errstate' = [errstate EXCEPT ![c] = FALSE]
    /\ given' = [given EXCEPT ![c] = <<>>]
    /\ UNCHANGED <<recv_enabled, regs, rdesc_ring, present>>

(* A packet arrives; with no descriptor left the adapter drops it.         *)
nic_recv(packet) ==
    /\ present /\ RDH # RDT
    /\ rdesc_ring' = [rdesc_ring EXCEPT ![RDH] = packet]
    /\ RDH' = (RDH + 1) % num_rdesc
    /\ UNCHANGED <<lock, recv_enabled, RDT, present, pc, locals>>

nic_removed ==
    /\ present /\ present' = FALSE
    /\ UNCHANGED <<lock, recv_enabled, regs, rdesc_ring, pc, locals>>

holder(c) ==
    \/ read_head(c) \/ read_tail(c) \/ recv_frame(c) \/ recv_last(c)
    \/ write_tail(c) \/ spinlock_unlock(c)

RecvNext ==
    \/ ixgbe_setup_recv \/ nic_removed
    \/ \E packet \in Packets : nic_recv(packet)
    \/ \E c \in Callers : ixgbe_recv_frames(c) \/ spinlock_lock(c) \/ holder(c)

RecvSpec == RecvInit /\ [][RecvNext]_vars

(* Interrupts are off: who holds the lock goes on.                         *)
RecvFairSpec == RecvSpec /\ \A c \in Callers : WF_vars(holder(c))
-----------------------------------------------------------------------------
(* What has arrived and is not yet given back to the adapter.              *)
Queue ==
    [k \in 1 .. (RDH - RDT - 1) % num_rdesc |-> rdesc_ring[(RDT + k) % num_rdesc]]

(* The ring is a queue between adapter and driver: the adapter overwrites  *)
(* no packet that was not taken, and the driver takes packets in the order *)
(* they arrived (ixgbe_recv_frames).                                       *)
Ring == INSTANCE FrameQueue
            WITH Frames <- Packets, queue <- Queue, Capacity <- num_rdesc - 1
RingSpec == Ring!Spec

(* A call hands over what it gives back, once and in order, without the    *)
(* faulty packets: all that had arrived when it read RDH, though the array *)
(* of frames is filled several times and the ring's indices wrap.          *)
GivesWhatArrived ==
    [][\A c \in Callers : present /\ pc[c] = "write" /\ pc'[c] = "end" =>
           LET taken == (head[c] - RDT - 1) % num_rdesc
           IN  /\ Queue' = SubSeq(Queue, taken + 1, Len(Queue))
               /\ given[c] = Without(SubSeq(Queue, 1, taken), Faulty)]_vars

(* Every poll ends and gives the lock back, also when the adapter is gone: *)
(* its loop has no other end than a descriptor that is the one RDH was     *)
(* read to be (ixgbe_recv_frames).                                         *)
LockReturns == (lock = 1) ~> (lock = 0)
=============================================================================

----------------------------- MODULE IxgbeXmit -----------------------------
(***************************************************************************)
(* The transmit ring of the ixgbe driver (src/drivers/ixgbe.c).  Several   *)
(* processors call ixgbe_send_frames, one after the other under the        *)
(* driver's spin lock; the adapter sends the descriptors from TDH up to    *)
(* TDT on its own and moves TDH, and it may be pulled out at any time,     *)
(* after which its registers read as all ones.                             *)
(***************************************************************************)
EXTENDS FrameFilter

CONSTANTS
    Callers,     \* the processors that send
    Frames,      \* the frames they send
    Big,         \* the frames of bufsize bytes or more
    Batches,     \* the frames of one call
    num_tdesc    \* the descriptors of the ring

ASSUME XmitAssumption ==
    /\ Big \subseteq Frames
    /\ Batches \subseteq Seq(Frames)
    /\ num_tdesc \in Nat \ {0, 1}

VARIABLES
    lock,           \* ixgbe->lock
    xmit_enabled,   \* ixgbe->xmit_enabled
    TDH, TDT,       \* the registers IXGBE_REG_TDH and IXGBE_REG_TDT
    tdesc_ring,     \* what each descriptor and its buffer hold
    present,        \* the adapter is there
    pc, frames, i, head, tail, errstate   \* the callers' variables

regs == <<TDH, TDT>>
locals == <<frames, i, head, tail, errstate>>
vars == <<lock, xmit_enabled, regs, tdesc_ring, present, pc, locals>>

Descriptors == 0 .. num_tdesc - 1
AllOnes == num_tdesc + 1   \* 0xFFFFFFFF, no descriptor
Empty == "empty"

XmitTypeOK ==
    /\ lock \in {0, 1}
    /\ xmit_enabled \in BOOLEAN
    /\ TDH \in Descriptors /\ TDT \in Descriptors
    /\ tdesc_ring \in [Descriptors -> Frames \cup {Empty}]
    /\ present \in BOOLEAN
    /\ pc \in [Callers -> {"idle", "lock", "head", "tail", "loop", "end"}]
    /\ frames \in [Callers -> Batches \cup {<<>>}]
    /\ i \in [Callers -> Nat]
    /\ head \in [Callers -> Descriptors \cup {AllOnes}]
    /\ tail \in [Callers -> Descriptors \cup {AllOnes}]
    /\ errstate \in [Callers -> SUBSET {"XMTDIS", "XMTFULL", "XMTBIG"}]
-----------------------------------------------------------------------------
(* The ring as ixgbe_setup_xmit leaves it, just before its last step.      *)
XmitInit ==
    /\ lock = 0 /\ xmit_enabled = FALSE
    /\ TDH = 0 /\ TDT = 0
    /\ tdesc_ring = [d \in Descriptors |-> Empty]
    /\ present = TRUE
    /\ pc = [c \in Callers |-> "idle"]
    /\ frames = [c \in Callers |-> <<>>]
    /\ i = [c \in Callers |-> 1]
    /\ head = [c \in Callers |-> 0]
    /\ tail = [c \in Callers |-> 0]
    /\ errstate = [c \in Callers |-> {}]

ixgbe_setup_xmit ==
    /\ ~xmit_enabled /\ xmit_enabled' = TRUE
    /\ UNCHANGED <<lock, regs, tdesc_ring, present, pc, locals>>

goto(c, where) == pc' = [pc EXCEPT ![c] = where]

ixgbe_read32(reg) == IF present THEN reg ELSE AllOnes

fails(c, error) == errstate' = [errstate EXCEPT ![c] = @ \cup {error}]

ixgbe_send_frames(c, batch) ==
    /\ pc[c] = "idle" /\ goto(c, "lock")
    /\ frames' = [frames EXCEPT ![c] = batch]
    /\ UNCHANGED <<lock, xmit_enabled, regs, tdesc_ring, present,
                   i, head, tail, errstate>>

(* Variant: the lock is not waited for.                                    *)
NoLock(c) ==
    /\ pc[c] = "lock" /\ lock' = 1
    /\ goto(c, IF xmit_enabled THEN "head" ELSE "end")
    /\ IF xmit_enabled THEN UNCHANGED errstate ELSE fails(c, "XMTDIS")
    /\ UNCHANGED <<xmit_enabled, regs, tdesc_ring, present, frames, i, head, tail>>

spinlock_lock(c) ==
    /\ pc[c] = "lock" /\ lock = 0 /\ lock' = 1
    /\ goto(c, IF xmit_enabled THEN "head" ELSE "end")
    /\ IF xmit_enabled THEN UNCHANGED errstate ELSE fails(c, "XMTDIS")
    /\ UNCHANGED <<xmit_enabled, regs, tdesc_ring, present, frames, i, head, tail>>

read_head(c) ==
    /\ pc[c] = "head" /\ goto(c, "tail")
    /\ head' = [head EXCEPT ![c] = ixgbe_read32(TDH)]
    /\ UNCHANGED <<lock, xmit_enabled, regs, tdesc_ring, present,
                   frames, i, tail, errstate>>

read_tail(c) ==
    /\ pc[c] = "tail"
    /\ tail' = [tail EXCEPT ![c] = ixgbe_read32(TDT)]
    /\ IF AllOnes \in {head[c], tail'[c]}
       THEN goto(c, "end") /\ fails(c, "XMTDIS")
       ELSE goto(c, "loop") /\ UNCHANGED errstate
    /\ UNCHANGED <<lock, xmit_enabled, regs, tdesc_ring, present, frames, i, head>>

(* Variant: the ring wraps one descriptor late.                            *)
LateWrap(c) == IF tail[c] + 1 > num_tdesc THEN 0 ELSE tail[c] + 1

nt(c) == IF tail[c] + 1 >= num_tdesc THEN 0 ELSE tail[c] + 1

in_loop(c) == pc[c] = "loop" /\ i[c] <= Len(frames[c])

Full(c) == head[c] = nt(c)

write_tail(c) ==
    /\ TDT' = IF present THEN tail[c] ELSE TDT
    /\ UNCHANGED TDH

(* Variant: a full ring is not reported.                                   *)
SilentFull(c) ==
    /\ in_loop(c) /\ Full(c)
    /\ write_tail(c) /\ goto(c, "end")
    /\ UNCHANGED <<lock, xmit_enabled, tdesc_ring, present, locals>>

send_full(c) ==
    /\ in_loop(c) /\ Full(c)
    /\ fails(c, "XMTFULL")
    /\ write_tail(c) /\ goto(c, "end")
    /\ UNCHANGED <<lock, xmit_enabled, tdesc_ring, present, frames, i, head, tail>>

send_big(c) ==
    /\ in_loop(c) /\ ~Full(c)
    /\ frames[c][i[c]] \in Big
    /\ fails(c, "XMTBIG")
    /\ i' = [i EXCEPT ![c] = @ + 1]
    /\ UNCHANGED <<lock, xmit_enabled, regs, tdesc_ring, present, pc,
                   frames, head, tail>>

(* Copy to the buffer, descriptor and the local tail.                      *)
send_frame(c) ==
    /\ in_loop(c) /\ ~Full(c)
    /\ frames[c][i[c]] \notin Big
    /\ tdesc_ring' = [tdesc_ring EXCEPT ![tail[c]] = frames[c][i[c]]]
    /\ tail' = [tail EXCEPT ![c] = nt(c)]
    /\ i' = [i EXCEPT ![c] = @ + 1]
    /\ UNCHANGED <<lock, xmit_enabled, regs, present, pc, frames, head, errstate>>

send_done(c) ==
    /\ pc[c] = "loop" /\ i[c] > Len(frames[c])
    /\ write_tail(c) /\ goto(c, "end")
    /\ UNCHANGED <<lock, xmit_enabled, tdesc_ring, present, locals>>

(* Variant: the driver returns without the unlock where transmission is    *)
(* disabled.                                                               *)
KeepLock(c) ==
    /\ pc[c] = "end" /\ goto(c, "idle")
    /\ lock' = IF "XMTDIS" \in errstate[c] THEN lock ELSE 0
    /\ frames' = [frames EXCEPT ![c] = <<>>]
    /\ i' = [i EXCEPT ![c] = 1]
    /\ head' = [head EXCEPT ![c] = 0]
    /\ tail' = [tail EXCEPT ![c] = 0]
    /\ errstate' = [errstate EXCEPT ![c] = {}]
    /\ UNCHANGED <<xmit_enabled, regs, tdesc_ring, present>>

spinlock_unlock(c) ==
    /\ pc[c] = "end" /\ goto(c, "idle")
    /\ lock' = 0
    /\ frames' = [frames EXCEPT ![c] = <<>>]
    /\ i' = [i EXCEPT ![c] = 1]
    /\ head' = [head EXCEPT ![c] = 0]
    /\ tail' = [tail EXCEPT ![c] = 0]
    /\ errstate' = [errstate EXCEPT ![c] = {}]
    /\ UNCHANGED <<xmit_enabled, regs, tdesc_ring, present>>

(* The adapter sends the descriptor at TDH.                                *)
nic_xmit ==
    /\ present /\ TDH # TDT
    /\ TDH' = (TDH + 1) % num_tdesc
    /\ UNCHANGED <<lock, xmit_enabled, TDT, tdesc_ring, present, pc, locals>>

nic_removed ==
    /\ present /\ present' = FALSE
    /\ UNCHANGED <<lock, xmit_enabled, regs, tdesc_ring, pc, locals>>

holder(c) ==
    \/ read_head(c) \/ read_tail(c) \/ send_full(c) \/ send_big(c)
    \/ send_frame(c) \/ send_done(c) \/ spinlock_unlock(c)

XmitNext ==
    \/ ixgbe_setup_xmit \/ nic_xmit \/ nic_removed
    \/ \E c \in Callers :
           \/ \E batch \in Batches : ixgbe_send_frames(c, batch)
           \/ spinlock_lock(c) \/ holder(c)

XmitSpec == XmitInit /\ [][XmitNext]_vars

(* Interrupts are off: who holds the lock goes on.                         *)
XmitFairSpec == XmitSpec /\ \A c \in Callers : WF_vars(holder(c))
-----------------------------------------------------------------------------
(* What the adapter has been given and has not sent.                       *)
Queue ==
    [k \in 1 .. (TDT - TDH) % num_tdesc |-> tdesc_ring[(TDH + k - 1) % num_tdesc]]

(* The ring is a queue between driver and adapter: no descriptor the       *)
(* adapter may be reading is written, and moving TDT never drops or        *)
(* doubles a frame, though TDH moves on after it was read                  *)
(* (ixgbe_send_frames).                                                    *)
Ring == INSTANCE FrameQueue WITH queue <- Queue, Capacity <- num_tdesc - 1
RingSpec == Ring!Spec

(* What ixgbe_send_frames answers is true: without an error the adapter    *)
(* has all the frames of the call behind those it had, with XMTFULL the    *)
(* first of them, and in either case those too big are left out.           *)
SendTellsTheTruth ==
    [][\A c \in Callers :
           present /\ pc[c] = "loop" /\ pc'[c] = "end" =>
               LET done == SubSeq(frames[c], 1, i[c] - 1)
               IN  /\ Queue' = Queue \o Without(done, Big)
                   /\ done = frames[c] \/ "XMTFULL" \in errstate'[c]
                   /\ done = Without(done, Big) \/ "XMTBIG" \in errstate'[c]]_vars

(* Every call gives the lock back, also when the adapter is gone or the    *)
(* ring is full (ixgbe_send_frames' jumps to end).                         *)
LockReturns == (lock = 1) ~> (lock = 0)
=============================================================================

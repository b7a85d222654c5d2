--------------------------- MODULE IxgbeXmitProofs ---------------------------
(***************************************************************************)
(* Proofs about the transmit ring: for every size of the ring, number of   *)
(* callers and batch of frames, one caller at a time is between the lock   *)
(* and the unlock, the ring is a queue from driver to adapter, and what a  *)
(* call answers is true.                                                   *)
(***************************************************************************)
EXTENDS IxgbeXmit, RingLemmas

N == num_tdesc

Holding(c) == pc[c] \in {"head", "tail", "loop", "end"}

(* The spin lock lets one caller in (ixgbe->lock).                         *)
OneHolder ==
    /\ \A c \in Callers : Holding(c) => lock = 1
    /\ \A c, d \in Callers : Holding(c) /\ Holding(d) => c = d

(* A call's loop goes through its frames from the first on.                *)
CountsFromOne == \A c \in Callers : i[c] >= 1

(* TDH is not behind the head a caller has read, and TDT not behind TDH.   *)
HeadBehind ==
    \A c \in Callers : pc[c] \in {"tail", "loop"} /\ head[c] # AllOnes =>
        Ahead(head[c], TDH, N) <= Ahead(head[c], TDT, N)

(* The caller's tail is not behind TDT.                                    *)
TailAhead ==
    \A c \in Callers : pc[c] = "loop" =>
        /\ head[c] # AllOnes /\ tail[c] # AllOnes
        /\ Ahead(head[c], TDT, N) <= Ahead(head[c], tail[c], N)

(* The descriptors from h up to t hold frames.                             *)
Filled(h, t) == WindowIn(tdesc_ring, h, Ahead(h, t, N), N, Frames)

RingFilled ==
    /\ Filled(TDH, TDT)
    /\ \A c \in Callers : pc[c] = "loop" => Filled(TDH, tail[c])

(* The inductive invariant.  TDH moves on while a caller uses the head it  *)
(* has read; what keeps the ring sound is that the caller's head is behind *)
(* TDH, so what is full for the caller is at most what is full.            *)
XmitIInv ==
    /\ XmitTypeOK /\ OneHolder /\ CountsFromOne
    /\ HeadBehind /\ TailAhead /\ RingFilled

-----------------------------------------------------------------------------
(* The registers, and a caller's variables once they are read, are indices *)
(* of the ring.                                                            *)
LEMMA Indices ==
    ASSUME XmitTypeOK
    PROVE  /\ N \in Nat \ {0} /\ N > 1
           /\ Descriptors = 0 .. N - 1
           /\ TDH \in 0 .. N - 1 /\ TDT \in 0 .. N - 1
           /\ AllOnes \notin 0 .. N - 1
           /\ \A c \in Callers : head[c] # AllOnes => head[c] \in 0 .. N - 1
           /\ \A c \in Callers : tail[c] # AllOnes => tail[c] \in 0 .. N - 1
<1>1. N \in Nat \ {0, 1} /\ N \in Nat \ {0} /\ N > 1
  BY XmitAssumption DEF N
<1>2. Descriptors = 0 .. N - 1 /\ AllOnes = N + 1
  BY DEF Descriptors, AllOnes, N
<1> QED
  BY <1>1, <1>2 DEF XmitTypeOK

(* Without a modulus, how far the indices of the ring are from each other. *)
LEMMA Distances ==
    ASSUME XmitTypeOK
    PROVE  \A x, y \in 0 .. N - 1 :
               /\ Ahead(x, y, N) = IF x <= y THEN y - x ELSE y - x + N
               /\ Ahead(x, y, N) \in 0 .. N - 1
               /\ (x + Ahead(x, y, N)) % N = y
BY Indices, AheadIs

(* nt is the index after the caller's tail.                                *)
LEMMA NextTail ==
    ASSUME XmitTypeOK, NEW c \in Callers, tail[c] \in 0 .. N - 1
    PROVE  /\ nt(c) \in 0 .. N - 1
           /\ nt(c) = IF tail[c] = N - 1 THEN 0 ELSE tail[c] + 1
BY Indices DEF nt, N

(* What the adapter has been given is a window of the ring.                *)
LEMMA QueueIsWindow == Queue = Window(tdesc_ring, TDH, Ahead(TDH, TDT, N), N)
BY DEF Queue, Window, Ahead, N
-----------------------------------------------------------------------------
(* ixgbe_setup_xmit's ring satisfies the invariant.                        *)
LEMMA XmitInitInv == XmitInit => XmitIInv
<1> SUFFICES ASSUME XmitInit PROVE XmitIInv
  OBVIOUS
<1>1. XmitTypeOK
  <2>1. 0 \in Descriptors
    BY XmitAssumption DEF Descriptors
  <2>2. /\ errstate \in [Callers -> SUBSET {"XMTDIS", "XMTFULL", "XMTBIG"}]
        /\ frames \in [Callers -> Batches \cup {<<>>}]
    BY DEF XmitInit
  <2> QED
    BY <2>1, <2>2 DEF XmitInit, XmitTypeOK
<1>2. OneHolder /\ CountsFromOne /\ HeadBehind /\ TailAhead
  BY DEF XmitInit, OneHolder, Holding, CountsFromOne, HeadBehind, TailAhead
<1>3. Ahead(TDH, TDT, N) = 0
  BY <1>1, Distances, Indices DEF XmitInit
<1>4. RingFilled
  BY <1>3 DEF XmitInit, RingFilled, Filled, WindowIn
<1> QED
  BY <1>1, <1>2, <1>4 DEF XmitIInv

(* The variables keep their types.                                         *)
LEMMA XmitTypeStep == XmitIInv /\ [XmitNext]_vars => XmitTypeOK'
<1> SUFFICES ASSUME XmitIInv, [XmitNext]_vars PROVE XmitTypeOK'
  OBVIOUS
<1> USE XmitAssumption
<1>0. XmitTypeOK /\ CountsFromOne /\ TailAhead
  BY DEF XmitIInv
<1>1. CASE UNCHANGED vars
  BY <1>0, <1>1 DEF XmitTypeOK, vars, regs, locals
<1>2. CASE ixgbe_setup_xmit
  BY <1>0, <1>2 DEF XmitTypeOK, ixgbe_setup_xmit, regs, locals
<1>3. CASE nic_xmit
  <2>1. (TDH + 1) % num_tdesc \in Descriptors
    BY <1>0 DEF XmitTypeOK, Descriptors
  <2> QED
    BY <1>0, <1>3, <2>1 DEF XmitTypeOK, nic_xmit, locals
<1>4. CASE nic_removed
  BY <1>0, <1>4 DEF XmitTypeOK, nic_removed, regs, locals
<1>5. ASSUME NEW c \in Callers, NEW batch \in Batches, ixgbe_send_frames(c, batch)
      PROVE  XmitTypeOK'
  BY <1>0, <1>5 DEF XmitTypeOK, ixgbe_send_frames, goto, regs
<1>6. ASSUME NEW c \in Callers, spinlock_lock(c) PROVE XmitTypeOK'
  BY <1>0, <1>6 DEF XmitTypeOK, spinlock_lock, goto, fails, regs
<1>7. ASSUME NEW c \in Callers, read_head(c) PROVE XmitTypeOK'
  BY <1>0, <1>7 DEF XmitTypeOK, read_head, goto, ixgbe_read32, regs
<1>8. ASSUME NEW c \in Callers, read_tail(c) PROVE XmitTypeOK'
  BY <1>0, <1>8 DEF XmitTypeOK, read_tail, goto, fails, ixgbe_read32, regs
<1>9. ASSUME NEW c \in Callers, pc[c] = "loop", write_tail(c)
      PROVE  TDH' \in Descriptors /\ TDT' \in Descriptors
  BY <1>0, <1>9 DEF XmitTypeOK, write_tail, TailAhead
<1>10. ASSUME NEW c \in Callers, send_full(c) PROVE XmitTypeOK'
  BY <1>0, <1>9, <1>10 DEF XmitTypeOK, send_full, in_loop, goto, fails
<1>11. ASSUME NEW c \in Callers, send_big(c) PROVE XmitTypeOK'
  BY <1>0, <1>11 DEF XmitTypeOK, send_big, fails, regs
<1>12. ASSUME NEW c \in Callers, send_frame(c) PROVE XmitTypeOK'
  <2>1. tail[c] \in 0 .. N - 1 /\ nt(c) \in Descriptors
    BY <1>0, <1>12, Indices, NextTail DEF send_frame, in_loop, TailAhead
  <2>2. frames[c] \in Seq(Frames) /\ i[c] \in 1 .. Len(frames[c])
    BY <1>0, <1>12 DEF XmitTypeOK, CountsFromOne, send_frame, in_loop
  <2>3. frames[c][i[c]] \in Frames
    BY <2>2
  <2>4. tdesc_ring' \in [Descriptors -> Frames \cup {Empty}]
    BY <1>0, <1>12, <2>3 DEF XmitTypeOK, send_frame
  <2>5. tail' \in [Callers -> Descriptors \cup {AllOnes}] /\ i' \in [Callers -> Nat]
    BY <1>0, <1>12, <2>1 DEF XmitTypeOK, send_frame
  <2> QED
    BY <1>0, <1>12, <2>4, <2>5 DEF XmitTypeOK, send_frame, regs
<1>13. ASSUME NEW c \in Callers, send_done(c) PROVE XmitTypeOK'
  BY <1>0, <1>9, <1>13 DEF XmitTypeOK, send_done, goto, locals
<1>14. ASSUME NEW c \in Callers, spinlock_unlock(c) PROVE XmitTypeOK'
  <2>1. 0 \in Descriptors
    BY DEF Descriptors
  <2>2. /\ errstate' \in [Callers -> SUBSET {"XMTDIS", "XMTFULL", "XMTBIG"}]
        /\ frames' \in [Callers -> Batches \cup {<<>>}]
    BY <1>0, <1>14 DEF XmitTypeOK, spinlock_unlock
  <2> QED
    BY <1>0, <1>14, <2>1, <2>2 DEF XmitTypeOK, spinlock_unlock, goto, regs
<1> QED
  BY <1>1, <1>2, <1>3, <1>4, <1>5, <1>6, <1>7, <1>8, <1>10, <1>11, <1>12, <1>13,
     <1>14 DEF XmitNext, holder

(* One caller at a time holds the lock, and counts its frames from one.    *)
LEMMA XmitHolderStep == XmitIInv /\ [XmitNext]_vars => OneHolder' /\ CountsFromOne'
<1> SUFFICES ASSUME XmitIInv, [XmitNext]_vars PROVE OneHolder' /\ CountsFromOne'
  OBVIOUS
<1>0. XmitTypeOK /\ OneHolder /\ CountsFromOne
  BY DEF XmitIInv
<1>1. pc \in [Callers -> {"idle", "lock", "head", "tail", "loop", "end"}]
      /\ i \in [Callers -> Nat]
  BY <1>0 DEF XmitTypeOK
<1> USE DEF OneHolder, Holding, CountsFromOne, goto
<1>2. CASE UNCHANGED vars
  BY <1>0, <1>2 DEF vars, locals
<1>3. CASE ixgbe_setup_xmit \/ nic_xmit \/ nic_removed
  BY <1>0, <1>3 DEF ixgbe_setup_xmit, nic_xmit, nic_removed, locals
<1>4. ASSUME NEW c \in Callers, NEW batch \in Batches, ixgbe_send_frames(c, batch)
      PROVE  OneHolder' /\ CountsFromOne'
  BY <1>0, <1>1, <1>4 DEF ixgbe_send_frames
<1>5. ASSUME NEW c \in Callers, spinlock_lock(c) PROVE OneHolder' /\ CountsFromOne'
  BY <1>0, <1>1, <1>5 DEF spinlock_lock
<1>6. ASSUME NEW c \in Callers, read_head(c) \/ read_tail(c)
      PROVE  OneHolder' /\ CountsFromOne'
  BY <1>0, <1>1, <1>6 DEF read_head, read_tail
<1>7. ASSUME NEW c \in Callers, send_full(c) \/ send_big(c) \/ send_frame(c) \/ send_done(c)
      PROVE  OneHolder' /\ CountsFromOne'
  BY <1>0, <1>1, <1>7 DEF send_full, send_big, send_frame, send_done, in_loop, locals
<1>8. ASSUME NEW c \in Callers, spinlock_unlock(c) PROVE OneHolder' /\ CountsFromOne'
  BY <1>0, <1>1, <1>8 DEF spinlock_unlock
<1> QED
  BY <1>2, <1>3, <1>4, <1>5, <1>6, <1>7, <1>8 DEF XmitNext, holder

(* The adapter's next descriptor is further from the head a caller has     *)
(* read, and not beyond TDT.                                               *)
LEMMA AdapterAdvances ==
    ASSUME XmitTypeOK, XmitTypeOK', nic_xmit
    PROVE  /\ TDH' \in 0 .. N - 1
           /\ TDH' = IF TDH = N - 1 THEN 0 ELSE TDH + 1
           /\ Ahead(TDH', TDT, N) = Ahead(TDH, TDT, N) - 1
           /\ \A h \in 0 .. N - 1 :
                  Ahead(h, TDH, N) <= Ahead(h, TDT, N) =>
                      Ahead(h, TDH', N) <= Ahead(h, TDT, N)
           /\ \A k \in 0 .. N - 1 : (TDH' + k) % N = (TDH + (k + 1)) % N
<1>1. /\ TDH # TDT /\ TDH' = (TDH + 1) % N /\ TDT' = TDT
      /\ TDH \in 0 .. N - 1 /\ TDT \in 0 .. N - 1 /\ N \in Nat \ {0} /\ N > 1
  BY Indices DEF nic_xmit, N
<1>2. TDH' = IF TDH = N - 1 THEN 0 ELSE TDH + 1
  <2>1. (\A k \in 0 .. N - 1 : k % N = k) /\ (\A k \in N .. 2 * N - 1 : k % N = k - N)
    BY <1>1, Wraps
  <2> QED
    BY <1>1, <2>1
<1>3. TDH' \in 0 .. N - 1
  BY <1>1, <1>2
<1>4. \A k \in 0 .. N - 1 : (TDH' + k) % N = (TDH + (k + 1)) % N
  <2>1. ASSUME NEW k \in 0 .. N - 1
        PROVE  (((TDH + 1) % N) + k) % N = (TDH + 1 + k) % N
    BY <1>1, Steps
  <2> QED
    BY <1>1, <2>1
<1>5. Ahead(TDH', TDT, N) = Ahead(TDH, TDT, N) - 1
  BY <1>1, <1>2, AheadNext
<1>6. ASSUME NEW h \in 0 .. N - 1, Ahead(h, TDH, N) <= Ahead(h, TDT, N)
      PROVE  Ahead(h, TDH', N) <= Ahead(h, TDT, N)
  <2>1. Ahead(h, TDH, N) \in 0 .. N - 1 /\ Ahead(h, TDT, N) \in 0 .. N - 1
    BY <1>1, Distances
  <2>0. Ahead(h, h, N) = 0
    BY <1>1, AheadToSelf
  <2>2. Ahead(h, TDH, N) # Ahead(h, TDT, N)
    BY <1>1, AheadBetween
  <2>3. TDH' # h => Ahead(h, TDH', N) = Ahead(h, TDH, N) + 1
    BY <1>1, <1>2, AheadNext
  <2> QED
    BY <1>1, <1>6, <2>0, <2>1, <2>2, <2>3
<1> QED
  BY <1>2, <1>3, <1>4, <1>5, <1>6

(* A frame goes to a descriptor the adapter has not been given.            *)
LEMMA FrameBehindQueue ==
    ASSUME XmitIInv, NEW c \in Callers, send_frame(c)
    PROVE  /\ tail[c] \in 0 .. N - 1 /\ nt(c) \in 0 .. N - 1
           /\ Ahead(head[c], nt(c), N) = Ahead(head[c], tail[c], N) + 1
           /\ Ahead(TDH, nt(c), N) = Ahead(TDH, tail[c], N) + 1
           /\ Ahead(TDH, TDT, N) <= Ahead(TDH, tail[c], N)
           /\ \A k \in 0 .. Ahead(TDH, tail[c], N) - 1 : (TDH + k) % N # tail[c]
<1>1. /\ XmitTypeOK /\ pc[c] = "loop" /\ head[c] # nt(c)
      /\ head[c] \in 0 .. N - 1 /\ tail[c] \in 0 .. N - 1
      /\ TDH \in 0 .. N - 1 /\ TDT \in 0 .. N - 1 /\ N \in Nat \ {0} /\ N > 1
      /\ Ahead(head[c], TDH, N) <= Ahead(head[c], TDT, N)
      /\ Ahead(head[c], TDT, N) <= Ahead(head[c], tail[c], N)
  BY Indices DEF XmitIInv, send_frame, in_loop, Full, TailAhead, HeadBehind
<1>2. nt(c) \in 0 .. N - 1 /\ nt(c) = IF tail[c] = N - 1 THEN 0 ELSE tail[c] + 1
  BY <1>1, NextTail
<1>3. /\ Ahead(head[c], nt(c), N) = Ahead(head[c], tail[c], N) + 1
      /\ Ahead(TDH, nt(c), N) = Ahead(TDH, tail[c], N) + 1
      /\ Ahead(TDH, TDT, N) <= Ahead(TDH, tail[c], N)
      /\ Ahead(TDH, tail[c], N) \in 0 .. N - 1
      /\ (TDH + Ahead(TDH, tail[c], N)) % N = tail[c]
  <2>1. Ahead(head[c], nt(c), N) = Ahead(head[c], tail[c], N) + 1
    BY <1>1, <1>2, AheadNext
  <2>2. /\ Ahead(head[c], TDH, N) \in 0 .. N - 1
        /\ Ahead(head[c], TDT, N) \in 0 .. N - 1
        /\ Ahead(head[c], tail[c], N) \in 0 .. N - 1
        /\ Ahead(TDH, tail[c], N) \in 0 .. N - 1
    BY <1>1, Distances
  <2>3. /\ Ahead(TDH, nt(c), N) = Ahead(head[c], nt(c), N) - Ahead(head[c], TDH, N)
        /\ Ahead(TDH, tail[c], N) = Ahead(head[c], tail[c], N) - Ahead(head[c], TDH, N)
        /\ Ahead(TDH, TDT, N) = Ahead(head[c], TDT, N) - Ahead(head[c], TDH, N)
    <3>1. Ahead(head[c], TDH, N) <= Ahead(head[c], tail[c], N)
      BY <1>1, <2>2
    <3>2. Ahead(head[c], TDH, N) <= Ahead(head[c], nt(c), N)
      BY <1>1, <2>1, <2>2, <3>1
    <3> QED
      BY <1>1, <1>2, <3>1, <3>2, AheadBetween
  <2>4. (TDH + Ahead(TDH, tail[c], N)) % N = tail[c]
    BY <1>1, Distances
  <2> QED
    BY <1>1, <1>2, <2>1, <2>2, <2>3, <2>4
<1>4. ASSUME NEW k \in 0 .. Ahead(TDH, tail[c], N) - 1
      PROVE  (TDH + k) % N # tail[c]
  <2>1. k \in 0 .. N - 1 /\ k # Ahead(TDH, tail[c], N)
    BY <1>1, <1>3
  <2> QED
    BY <1>1, <1>3, <2>1, StepsApart
<1> QED
  BY <1>1, <1>2, <1>3, <1>4

(* What a step that touches neither the registers nor the ring keeps.      *)
LEMMA RingUntouched ==
    ASSUME XmitIInv, UNCHANGED <<regs, tdesc_ring>>,
           \A c \in Callers : pc'[c] \in {"tail", "loop"} =>
               /\ pc'[c] = pc[c] /\ head'[c] = head[c] /\ tail'[c] = tail[c]
    PROVE  HeadBehind' /\ TailAhead' /\ RingFilled'
<1>1. HeadBehind /\ TailAhead /\ RingFilled
  BY DEF XmitIInv
<1>2. TDH' = TDH /\ TDT' = TDT /\ tdesc_ring' = tdesc_ring /\ AllOnes' = AllOnes /\ N' = N
  BY DEF regs, AllOnes, N
<1>3. HeadBehind' /\ TailAhead'
  BY <1>1, <1>2 DEF HeadBehind, TailAhead
<1>4. RingFilled'
  BY <1>1, <1>2 DEF RingFilled, Filled, WindowIn
<1> QED
  BY <1>3, <1>4

(* Every step keeps what the invariant says of the ring.                   *)
LEMMA XmitRingStep ==
    ASSUME XmitIInv, [XmitNext]_vars, XmitTypeOK', OneHolder'
    PROVE  HeadBehind' /\ TailAhead' /\ RingFilled'
<1>0. /\ XmitTypeOK /\ OneHolder /\ HeadBehind /\ TailAhead /\ RingFilled
      /\ pc \in [Callers -> {"idle", "lock", "head", "tail", "loop", "end"}]
      /\ head \in [Callers -> Descriptors \cup {AllOnes}]
      /\ tail \in [Callers -> Descriptors \cup {AllOnes}]
  BY DEF XmitIInv, XmitTypeOK
<1>1. CASE UNCHANGED vars \/ ixgbe_setup_xmit \/ nic_removed
  BY <1>1, RingUntouched DEF vars, ixgbe_setup_xmit, nic_removed, locals
<1>2. CASE nic_xmit
  <2>1. /\ TDT' = TDT /\ tdesc_ring' = tdesc_ring /\ UNCHANGED <<pc, locals>>
        /\ N \in Nat \ {0} /\ TDH \in 0 .. N - 1 /\ TDT \in 0 .. N - 1
    BY <1>0, <1>2, Indices DEF nic_xmit
  <2>2. /\ TDH' \in 0 .. N - 1
        /\ TDH' = IF TDH = N - 1 THEN 0 ELSE TDH + 1
        /\ Ahead(TDH', TDT, N) = Ahead(TDH, TDT, N) - 1
        /\ \A h \in 0 .. N - 1 : Ahead(h, TDH, N) <= Ahead(h, TDT, N) =>
               Ahead(h, TDH', N) <= Ahead(h, TDT, N)
        /\ \A k \in 0 .. N - 1 : (TDH' + k) % N = (TDH + (k + 1)) % N
    BY <1>0, <1>2, AdapterAdvances
  <2>3. HeadBehind' /\ TailAhead'
    BY <1>0, <2>1, <2>2, Indices DEF HeadBehind, TailAhead, locals, AllOnes, N
  <2>4. ASSUME NEW t \in 0 .. N - 1, Filled(TDH, t), t # TDH
        PROVE  \A k \in 0 .. Ahead(TDH', t, N) - 1 : tdesc_ring'[(TDH' + k) % N] \in Frames
    <3>1. Ahead(TDH', t, N) = Ahead(TDH, t, N) - 1 /\ Ahead(TDH, t, N) \in 0 .. N - 1
      <4>1. Ahead(TDH', t, N) = Ahead(TDH, t, N) - 1
        BY <2>1, <2>2, <2>4, AheadNext
      <4>2. Ahead(TDH, t, N) \in 0 .. N - 1
        BY <1>0, <2>1, Distances
      <4> QED
        BY <4>1, <4>2
    <3>2. ASSUME NEW k \in 0 .. Ahead(TDH', t, N) - 1
          PROVE  tdesc_ring'[(TDH' + k) % N] \in Frames
      <4>1. k \in 0 .. N - 1 /\ k + 1 \in 0 .. Ahead(TDH, t, N) - 1
        BY <2>1, <3>1
      <4> QED
        BY <2>1, <2>2, <2>4, <4>1 DEF Filled, WindowIn
    <3> QED
      BY <3>2
  <2>5. Filled(TDH, TDT)'
    BY <1>0, <1>2, <2>1, <2>4 DEF RingFilled, Filled, WindowIn, nic_xmit, N
  <2>6. ASSUME NEW c \in Callers, pc'[c] = "loop"
        PROVE  Filled(TDH, tail[c])'
    <3>1. /\ pc[c] = "loop" /\ tail'[c] = tail[c]
          /\ tail[c] \in 0 .. N - 1 /\ head[c] \in 0 .. N - 1
          /\ Filled(TDH, tail[c]) /\ head[c] # AllOnes
      BY <1>0, <2>1, <2>6, Indices DEF TailAhead, RingFilled, locals
    <3>2. tail[c] # TDH
      <4>1. /\ Ahead(head[c], TDH, N) <= Ahead(head[c], TDT, N)
            /\ Ahead(head[c], TDT, N) <= Ahead(head[c], tail[c], N)
            /\ Ahead(head[c], TDH, N) \in 0 .. N - 1
            /\ Ahead(head[c], TDT, N) \in 0 .. N - 1
        BY <1>0, <2>1, <3>1, Distances DEF HeadBehind, TailAhead
      <4>2. Ahead(head[c], TDH, N) # Ahead(head[c], TDT, N)
        BY <1>2, <2>1, <3>1, AheadBetween DEF nic_xmit
      <4> QED
        BY <2>1, <4>1, <4>2
    <3> QED
      BY <2>4, <3>1, <3>2 DEF Filled, WindowIn, N
  <2> QED
    BY <2>3, <2>5, <2>6 DEF RingFilled
<1>3. ASSUME NEW c \in Callers,
             (\E batch \in Batches : ixgbe_send_frames(c, batch))
             \/ spinlock_lock(c) \/ spinlock_unlock(c)
      PROVE  HeadBehind' /\ TailAhead' /\ RingFilled'
  <2>1. UNCHANGED <<regs, tdesc_ring>>
    BY <1>3 DEF ixgbe_send_frames, spinlock_lock, spinlock_unlock
  <2>2. \A d \in Callers : pc'[d] \in {"tail", "loop"} =>
            pc'[d] = pc[d] /\ head'[d] = head[d] /\ tail'[d] = tail[d]
    BY <1>0, <1>3 DEF ixgbe_send_frames, spinlock_lock, spinlock_unlock, goto
  <2> QED
    BY <2>1, <2>2, RingUntouched
<1>4. ASSUME NEW c \in Callers, send_big(c)
      PROVE  HeadBehind' /\ TailAhead' /\ RingFilled'
  BY <1>4, RingUntouched DEF send_big
<1>5. ASSUME NEW c \in Callers, Holding(c), Holding(c)'
      PROVE  \A d \in Callers : d # c => pc[d] \in {"idle", "lock"} /\ pc'[d] \in {"idle", "lock"}
  <2>1. pc' \in [Callers -> {"idle", "lock", "head", "tail", "loop", "end"}]
    BY DEF XmitTypeOK
  <2> QED
    BY <1>0, <1>5, <2>1 DEF OneHolder, Holding
<1>6. ASSUME NEW c \in Callers, read_head(c)
      PROVE  HeadBehind' /\ TailAhead' /\ RingFilled'
  <2>1. /\ pc'[c] = "tail" /\ head'[c] \in {TDH, AllOnes}
        /\ TDH' = TDH /\ TDT' = TDT /\ tdesc_ring' = tdesc_ring
        /\ Holding(c) /\ Holding(c)'
    BY <1>0, <1>6 DEF read_head, goto, ixgbe_read32, Holding, regs
  <2>2. \A d \in Callers : pc'[d] = "tail" \/ pc'[d] = "loop" => d = c /\ pc'[d] = "tail"
    BY <1>5, <2>1
  <2>3. Ahead(TDH, TDH, N) = 0 /\ Ahead(TDH, TDT, N) \in 0 .. N - 1
    BY <1>0, Indices, Distances, AheadToSelf
  <2>4. HeadBehind'
    BY <2>1, <2>2, <2>3, Indices DEF HeadBehind, AllOnes, N
  <2> QED
    BY <1>0, <2>1, <2>2, <2>4 DEF TailAhead, RingFilled, Filled, WindowIn, N
<1>7. ASSUME NEW c \in Callers, read_tail(c)
      PROVE  HeadBehind' /\ TailAhead' /\ RingFilled'
  <2>1. /\ pc[c] = "tail" /\ pc'[c] \in {"loop", "end"} /\ head' = head
        /\ TDH' = TDH /\ TDT' = TDT /\ tdesc_ring' = tdesc_ring
        /\ pc'[c] = "loop" => tail'[c] = TDT /\ head[c] # AllOnes /\ tail'[c] # AllOnes
        /\ Holding(c) /\ Holding(c)'
    BY <1>0, <1>7 DEF read_tail, goto, ixgbe_read32, Holding, regs
  <2>2. \A d \in Callers : pc'[d] = "tail" \/ pc'[d] = "loop" => d = c /\ pc'[d] = "loop"
    BY <1>5, <2>1
  <2>3. HeadBehind'
    BY <1>0, <2>1, <2>2 DEF HeadBehind, AllOnes, N
  <2>4. TailAhead'
    <3>1. pc'[c] = "loop" => Ahead(head[c], TDT, N) \in Int
      BY <1>0, <2>1, Indices, Distances
    <3> QED
      BY <2>1, <2>2, <3>1 DEF TailAhead, AllOnes, N
  <2> QED
    BY <1>0, <2>1, <2>2, <2>3, <2>4 DEF RingFilled, Filled, WindowIn, N
<1>8. ASSUME NEW c \in Callers, send_full(c) \/ send_done(c)
      PROVE  HeadBehind' /\ TailAhead' /\ RingFilled'
  <2>1. /\ pc[c] = "loop" /\ pc'[c] = "end"
        /\ TDH' = TDH /\ TDT' \in {TDT, tail[c]} /\ tdesc_ring' = tdesc_ring
        /\ Holding(c) /\ Holding(c)'
    BY <1>0, <1>8 DEF send_full, send_done, in_loop, goto, write_tail, Holding
  <2>2. \A d \in Callers : pc'[d] # "tail" /\ pc'[d] # "loop"
    BY <1>5, <2>1
  <2>3. Filled(TDH, TDT) /\ Filled(TDH, tail[c])
    BY <1>0, <2>1 DEF RingFilled
  <2>4. Filled(TDH, TDT)'
    BY <2>1, <2>3 DEF Filled, WindowIn, N
  <2> QED
    BY <2>2, <2>4 DEF HeadBehind, TailAhead, RingFilled
<1>9. ASSUME NEW c \in Callers, send_frame(c)
      PROVE  HeadBehind' /\ TailAhead' /\ RingFilled'
  <2>1. /\ pc[c] = "loop" /\ pc' = pc /\ head' = head
        /\ TDH' = TDH /\ TDT' = TDT
        /\ tail'[c] = nt(c)
        /\ tdesc_ring' = [tdesc_ring EXCEPT ![tail[c]] = frames[c][i[c]]]
        /\ tdesc_ring \in [Descriptors -> Frames \cup {Empty}]
        /\ Holding(c) /\ Holding(c)'
    BY <1>0, <1>9 DEF send_frame, in_loop, Holding, regs, XmitTypeOK
  <2>2. \A d \in Callers : pc[d] = "tail" \/ pc[d] = "loop" => d = c
    BY <1>5, <2>1
  <2>3. /\ tail[c] \in 0 .. N - 1 /\ nt(c) \in 0 .. N - 1
        /\ Ahead(head[c], nt(c), N) = Ahead(head[c], tail[c], N) + 1
        /\ Ahead(TDH, nt(c), N) = Ahead(TDH, tail[c], N) + 1
        /\ Ahead(TDH, TDT, N) <= Ahead(TDH, tail[c], N)
        /\ \A k \in 0 .. Ahead(TDH, tail[c], N) - 1 : (TDH + k) % N # tail[c]
    BY <1>9, FrameBehindQueue
  <2>4. /\ N \in Nat \ {0} /\ Descriptors = 0 .. N - 1 /\ AllOnes \notin 0 .. N - 1
        /\ TDH \in 0 .. N - 1 /\ TDT \in 0 .. N - 1
        /\ head[c] # AllOnes /\ head[c] \in 0 .. N - 1
        /\ Ahead(head[c], TDT, N) <= Ahead(head[c], tail[c], N)
    BY <1>0, <2>1, Indices DEF TailAhead
  <2>5. HeadBehind'
    BY <1>0, <2>1 DEF HeadBehind, AllOnes, N
  <2>6. /\ Ahead(head[c], tail[c], N) \in 0 .. N - 1
        /\ Ahead(head[c], TDT, N) \in 0 .. N - 1
        /\ Ahead(TDH, tail[c], N) \in 0 .. N - 1
        /\ Ahead(TDH, TDT, N) \in 0 .. N - 1
        /\ (TDH + Ahead(TDH, tail[c], N)) % N = tail[c]
    BY <1>0, <2>3, <2>4, Distances
  <2>7. TailAhead'
    <3>1. Ahead(head[c], TDT, N) <= Ahead(head[c], nt(c), N)
      BY <2>3, <2>4, <2>6
    <3>2. \A d \in Callers : pc'[d] = "loop" => d = c
      BY <2>1, <2>2
    <3> QED
      BY <2>1, <2>3, <2>4, <3>1, <3>2 DEF TailAhead, AllOnes, N
  <2>8. frames[c][i[c]] \in Frames
    <3>1. frames[c] \in Seq(Frames) /\ i[c] \in 1 .. Len(frames[c])
      BY <1>0, <1>9, XmitAssumption DEF XmitIInv, XmitTypeOK, CountsFromOne, send_frame, in_loop
    <3> QED
      BY <3>1
  <2>9. ASSUME NEW k \in 0 .. Ahead(TDH, tail[c], N) - 1
        PROVE  tdesc_ring'[(TDH + k) % N] = tdesc_ring[(TDH + k) % N]
               /\ tdesc_ring[(TDH + k) % N] \in Frames
    <3>1. Filled(TDH, tail[c])
      BY <1>0, <2>1 DEF RingFilled
    <3> QED
      BY <2>1, <2>3, <3>1 DEF Filled, WindowIn
  <2>10. tdesc_ring'[(TDH + Ahead(TDH, tail[c], N)) % N] \in Frames
    BY <2>1, <2>3, <2>4, <2>6, <2>8
  <2>11. Filled(TDH, TDT)'
    <3>1. ASSUME NEW k \in 0 .. Ahead(TDH, TDT, N) - 1
          PROVE  tdesc_ring'[(TDH + k) % N] \in Frames
      <4>1. k \in 0 .. Ahead(TDH, tail[c], N) - 1
        BY <2>3, <2>6
      <4> QED
        BY <2>9, <4>1
    <3> QED
      BY <2>1, <3>1 DEF Filled, WindowIn, N
  <2>12. Filled(TDH, tail[c])'
    <3>1. ASSUME NEW k \in 0 .. Ahead(TDH, nt(c), N) - 1
          PROVE  tdesc_ring'[(TDH + k) % N] \in Frames
      <4>1. k \in 0 .. Ahead(TDH, tail[c], N) - 1 \/ k = Ahead(TDH, tail[c], N)
        BY <2>3, <2>6
      <4> QED
        BY <2>9, <2>10, <4>1
    <3> QED
      BY <2>1, <3>1 DEF Filled, WindowIn, N
  <2> QED
    BY <2>1, <2>2, <2>5, <2>7, <2>11, <2>12 DEF RingFilled
<1> QED
  BY <1>1, <1>2, <1>3, <1>4, <1>6, <1>7, <1>8, <1>9 DEF XmitNext, holder

(* The invariant holds in every state.                                     *)
THEOREM XmitInvariant == XmitSpec => []XmitIInv
<1>1. XmitIInv /\ [XmitNext]_vars => XmitIInv'
  <2> SUFFICES ASSUME XmitIInv, [XmitNext]_vars PROVE XmitIInv'
    OBVIOUS
  <2>1. XmitTypeOK' /\ OneHolder' /\ CountsFromOne'
    BY XmitTypeStep, XmitHolderStep
  <2> QED
    BY <2>1, XmitRingStep DEF XmitIInv
<1> QED
  BY <1>1, XmitInitInv, PTL DEF XmitSpec

(* The driver's variables and registers keep their types, for every ring,  *)
(* number of callers and batch (ixgbe_send_frames).                        *)
THEOREM XmitTypes == XmitSpec => []XmitTypeOK
<1>1. XmitIInv => XmitTypeOK
  BY DEF XmitIInv
<1> QED
  BY <1>1, XmitInvariant, PTL
-----------------------------------------------------------------------------
(* What the abstract queue holds is made of frames.                        *)
LEMMA QueueOfFrames ==
    ASSUME XmitIInv
    PROVE  /\ Queue \in Seq(Frames)
           /\ Len(Queue) = Ahead(TDH, TDT, N)
           /\ Ahead(TDH, TDT, N) \in 0 .. N - 1
<1>1. /\ N \in Nat \ {0} /\ TDH \in 0 .. N - 1 /\ TDT \in 0 .. N - 1
      /\ Ahead(TDH, TDT, N) \in 0 .. N - 1
  BY Indices, Distances DEF XmitIInv
<1> DEFINE n == Ahead(TDH, TDT, N)
<1>2. n \in Nat /\ WindowIn(tdesc_ring, TDH, n, N, Frames)
  BY <1>1 DEF XmitIInv, RingFilled, Filled
<1>3. Window(tdesc_ring, TDH, n, N) \in Seq(Frames) /\ Len(Window(tdesc_ring, TDH, n, N)) = n
  <2> HIDE DEF n
  <2> QED
    BY <1>1, <1>2, WindowSeq
<1> QED
  BY <1>1, <1>3, QueueIsWindow

(* The adapter takes the oldest frame.                                     *)
LEMMA AdapterTakes ==
    ASSUME XmitIInv, XmitIInv', nic_xmit
    PROVE  Ring!Take
<1>1. /\ N \in Nat \ {0} /\ TDH \in 0 .. N - 1 /\ TDT \in 0 .. N - 1
      /\ TDH # TDT /\ TDH' = (TDH + 1) % N /\ TDT' = TDT /\ tdesc_ring' = tdesc_ring
  BY Indices DEF XmitIInv, nic_xmit, N
<1> DEFINE n == Ahead(TDH, TDT, N)
<1>3. Ahead(TDH', TDT, N) = n - 1 /\ n \in 1 .. N
  <2>1. XmitTypeOK /\ XmitTypeOK'
    BY DEF XmitIInv
  <2>2. /\ TDH' \in 0 .. N - 1
        /\ Ahead(TDH', TDT, N) = n - 1
    BY <2>1, AdapterAdvances
  <2>3. Ahead(TDH', TDT, N) \in 0 .. N - 1 /\ n \in 0 .. N - 1
    BY <1>1, <2>1, <2>2, Distances
  <2> QED
    BY <1>1, <2>2, <2>3
<1>4. Queue' = Window(tdesc_ring, (TDH + 1) % N, n - 1, N)
  BY <1>1, <1>3, QueueIsWindow DEF Queue, Window, Ahead, N
<1>5. SubSeq(Window(tdesc_ring, TDH, n, N), 1 + 1, n)
          = Window(tdesc_ring, (TDH + 1) % N, n - 1, N)
  <2>1. 1 \in 0 .. n
    BY <1>3
  <2> HIDE DEF n
  <2> QED
    BY <1>1, <1>3, <2>1, WindowSuffix
<1>6. Len(Queue) = n /\ 1 \in 1 .. n
  BY <1>3, QueueOfFrames
<1>7. Queue' = SubSeq(Queue, 1 + 1, Len(Queue))
  BY <1>4, <1>5, <1>6, QueueIsWindow
<1> QED
  BY <1>6, <1>7 DEF Ring!Take

(* A write of TDT gives the adapter the frames up to the caller's tail.    *)
LEMMA WritePuts ==
    ASSUME XmitIInv, XmitIInv', NEW c \in Callers, send_full(c) \/ send_done(c)
    PROVE  Ring!Put \/ UNCHANGED Queue
<1>1. /\ pc[c] = "loop" /\ TDH' = TDH /\ tdesc_ring' = tdesc_ring
      /\ TDT' = TDT \/ TDT' = tail[c]
  BY DEF send_full, send_done, in_loop, write_tail, locals
<1>2. CASE TDT' = TDT
  BY <1>1, <1>2 DEF Queue
<1>3. CASE TDT' = tail[c] /\ TDT' # TDT
  <2> DEFINE n == Ahead(TDH, TDT, N)
             m == Ahead(TDH, tail[c], N)
  <2>1. /\ XmitTypeOK
        /\ N \in Nat \ {0} /\ TDH \in 0 .. N - 1 /\ TDT \in 0 .. N - 1
        /\ tail[c] \in 0 .. N - 1 /\ head[c] \in 0 .. N - 1
        /\ Ahead(head[c], TDH, N) <= Ahead(head[c], TDT, N)
        /\ Ahead(head[c], TDT, N) <= Ahead(head[c], tail[c], N)
    BY <1>1, Indices DEF XmitIInv, HeadBehind, TailAhead
  <2>2. /\ n \in 0 .. N - 1 /\ m \in 0 .. N - 1
        /\ Ahead(head[c], TDH, N) \in 0 .. N - 1
        /\ Ahead(head[c], TDT, N) \in 0 .. N - 1
        /\ Ahead(head[c], tail[c], N) \in 0 .. N - 1
    BY <2>1, Distances
  <2>3. /\ n = Ahead(head[c], TDT, N) - Ahead(head[c], TDH, N)
        /\ m = Ahead(head[c], tail[c], N) - Ahead(head[c], TDH, N)
    <3>1. Ahead(head[c], TDH, N) <= Ahead(head[c], tail[c], N)
      BY <2>1, <2>2
    <3> QED
      BY <2>1, <3>1, AheadBetween
  <2>4. n # m
    BY <1>3, <2>1, AheadBetween
  <2>5. n < m
    BY <2>1, <2>2, <2>3, <2>4
  <2>6. Queue = Window(tdesc_ring, TDH, n, N) /\ Queue' = Window(tdesc_ring, TDH, m, N)
    BY <1>1, <1>3, QueueIsWindow DEF Queue, Window, Ahead, N
  <2>7. SubSeq(Queue', 1, n) = Queue
    <3>1. m \in Nat /\ n \in 0 .. m
      BY <2>2, <2>5
    <3> HIDE DEF n, m
    <3> QED
      BY <2>1, <2>6, <3>1, WindowPrefix
  <2>8. Len(Queue) = n
    BY QueueOfFrames
  <2>9. Queue' \in Seq(Frames) /\ Len(Queue') = m
    <3>1. WindowIn(tdesc_ring, TDH, m, N, Frames)
      BY <1>1 DEF XmitIInv, RingFilled, Filled
    <3>2. m \in Nat
      BY <2>2
    <3>3. Window(tdesc_ring, TDH, m, N) \in Seq(Frames) /\ Len(Window(tdesc_ring, TDH, m, N)) = m
      <4>1. N \in Nat \ {0} /\ TDH \in 0 .. N - 1
        BY <2>1
      <4> HIDE DEF m
      <4> QED
        BY <3>1, <3>2, <4>1, WindowSeq
    <3> QED
      BY <2>6, <3>3
  <2>10. m \in n + 1 .. num_tdesc - 1
    BY <2>1, <2>2, <2>5 DEF N
  <2> QED
    BY <2>7, <2>8, <2>9, <2>10 DEF Ring!Put
<1> QED
  BY <1>1, <1>2, <1>3

(* Writing a descriptor does not change what the adapter has been given.   *)
LEMMA FrameUnseen ==
    ASSUME XmitIInv, NEW c \in Callers, send_frame(c)
    PROVE  UNCHANGED Queue
<1>1. /\ TDH' = TDH /\ TDT' = TDT
      /\ tdesc_ring' = [tdesc_ring EXCEPT ![tail[c]] = frames[c][i[c]]]
      /\ tdesc_ring \in [Descriptors -> Frames \cup {Empty}]
  BY DEF XmitIInv, XmitTypeOK, send_frame, regs
<1>2. /\ Ahead(TDH, TDT, N) <= Ahead(TDH, tail[c], N)
      /\ \A k \in 0 .. Ahead(TDH, tail[c], N) - 1 : (TDH + k) % N # tail[c]
      /\ Ahead(TDH, tail[c], N) \in 0 .. N - 1 /\ Ahead(TDH, TDT, N) \in 0 .. N - 1
      /\ N \in Nat \ {0} /\ TDH \in 0 .. N - 1
  BY FrameBehindQueue, Distances, Indices DEF XmitIInv
<1>3. ASSUME NEW k \in 1 .. Ahead(TDH, TDT, N)
      PROVE  tdesc_ring'[(TDH + k - 1) % N] = tdesc_ring[(TDH + k - 1) % N]
  <2>1. k - 1 \in 0 .. Ahead(TDH, tail[c], N) - 1 /\ TDH + (k - 1) = TDH + k - 1
    BY <1>2
  <2>2. (TDH + k - 1) % N # tail[c]
    BY <1>2, <2>1
  <2> QED
    BY <1>1, <2>2
<1> QED
  BY <1>1, <1>3 DEF Queue, Ahead, N

(* Every step of the ring is a step of the queue, or none.                 *)
LEMMA XmitStepRefines ==
    ASSUME XmitIInv, XmitIInv', [XmitNext]_vars
    PROVE  [Ring!Next]_Queue
<1>1. CASE nic_xmit
  BY <1>1, AdapterTakes DEF Ring!Next
<1>2. ASSUME NEW c \in Callers, send_full(c) \/ send_done(c)
      PROVE  [Ring!Next]_Queue
  BY <1>2, WritePuts DEF Ring!Next
<1>3. ASSUME NEW c \in Callers, send_frame(c)
      PROVE  UNCHANGED Queue
  BY <1>3, FrameUnseen
<1>4. ASSUME UNCHANGED <<regs, tdesc_ring>>
      PROVE  UNCHANGED Queue
  BY <1>4 DEF Queue, regs
<1>5. CASE UNCHANGED vars \/ ixgbe_setup_xmit \/ nic_removed
  BY <1>4, <1>5 DEF vars, ixgbe_setup_xmit, nic_removed
<1>6. ASSUME NEW c \in Callers,
             (\E batch \in Batches : ixgbe_send_frames(c, batch))
             \/ spinlock_lock(c) \/ read_head(c) \/ read_tail(c)
             \/ send_big(c) \/ spinlock_unlock(c)
      PROVE  UNCHANGED Queue
  BY <1>4, <1>6 DEF ixgbe_send_frames, spinlock_lock, read_head, read_tail,
                    send_big, spinlock_unlock
<1> QED
  BY <1>1, <1>2, <1>3, <1>5, <1>6 DEF XmitNext, holder

(* ixgbe_send_frames and the adapter implement the bounded queue, for      *)
(* every number of descriptors and of processors that send.                *)
THEOREM XmitRefines == XmitSpec => RingSpec
<1>1. XmitInit => Ring!Init
  <2> SUFFICES ASSUME XmitInit PROVE Queue = <<>>
    BY DEF Ring!Init
  <2>1. XmitIInv
    BY XmitInitInv
  <2>2. Ahead(TDH, TDT, N) = 0
    BY <2>1, Indices, AheadToSelf DEF XmitInit, XmitIInv
  <2> QED
    BY <2>1, <2>2, QueueOfFrames
<1>2. XmitIInv /\ XmitIInv' /\ [XmitNext]_vars => [Ring!Next]_Queue
  BY XmitStepRefines
<1> QED
  BY <1>1, <1>2, XmitInvariant, PTL DEF XmitSpec, RingSpec, Ring!Spec
-----------------------------------------------------------------------------
(* The frames of its call that a caller's loop is through with, and what   *)
(* the ring holds from TDT to the caller's tail.                           *)
Through(c) == SubSeq(frames[c], 1, i[c] - 1)
Written(c) == Window(tdesc_ring, TDT, Ahead(TDT, tail[c], N), N)

(* The latter are the former without those too big, and if there was one   *)
(* of these the call will say so.                                          *)
CallTells(c) ==
    /\ pc[c] \in {"idle", "lock", "head", "tail"} => i[c] = 1
    /\ pc[c] = "loop" =>
           /\ i[c] <= Len(frames[c]) + 1
           /\ Written(c) = Without(Through(c), Big)
           /\ Through(c) = Without(Through(c), Big) \/ "XMTBIG" \in errstate[c]

CallsTell == \A c \in Callers : CallTells(c)

(* Frames a loop has not come to and steps of others leave it alone.       *)
LEMMA CallUntouched ==
    ASSUME NEW c \in Callers, CallTells(c), TDT' = TDT, tdesc_ring' = tdesc_ring,
           pc'[c] = pc[c], i'[c] = i[c], frames'[c] = frames[c], tail'[c] = tail[c],
           errstate'[c] = errstate[c]
    PROVE  CallTells(c)'
<1>1. Through(c)' = Through(c)
  BY DEF Through
<1>2. Written(c)' = Written(c)
  BY DEF Written, Window, Ahead, N
<1> QED
  BY <1>1, <1>2 DEF CallTells

(* The loop begins with nothing.                                           *)
LEMMA LoopBegins ==
    ASSUME XmitIInv, XmitIInv', NEW c \in Callers, CallTells(c), read_tail(c)
    PROVE  CallTells(c)'
<1>1. /\ pc[c] = "tail" /\ pc'[c] \in {"loop", "end"} /\ i[c] = 1 /\ i'[c] = 1
      /\ frames' = frames /\ TDT' = TDT /\ tdesc_ring' = tdesc_ring
      /\ pc'[c] = "loop" => tail'[c] = TDT
      /\ frames[c] \in Seq(Frames)
  <2>1. /\ pc \in [Callers -> {"idle", "lock", "head", "tail", "loop", "end"}]
        /\ tail \in [Callers -> Descriptors \cup {AllOnes}]
        /\ frames[c] \in Batches \cup {<<>>}
    BY DEF XmitIInv, XmitTypeOK
  <2>2. frames[c] \in Seq(Frames)
    <3>1. <<>> \in Seq(Frames)
      OBVIOUS
    <3> QED
      BY <2>1, <3>1, XmitAssumption
  <2> QED
    BY <2>1, <2>2 DEF CallTells, read_tail, goto, ixgbe_read32, regs
<1>2. CASE pc'[c] = "loop"
  <2>1. Through(c)' = <<>>
    BY <1>1 DEF Through
  <2>2. Ahead(TDT, TDT, N) = 0
    BY Indices, AheadToSelf DEF XmitIInv
  <2>3. Written(c)' = <<>>
    BY <1>1, <1>2, <2>2 DEF Written, Window, Ahead, N
  <2>4. i'[c] <= Len(frames'[c]) + 1
    BY <1>1
  <2> QED
    BY <1>2, <2>1, <2>3, <2>4, WithoutEmpty DEF CallTells
<1>3. CASE pc'[c] = "end"
  BY <1>3 DEF CallTells
<1> QED
  BY <1>1, <1>2, <1>3

(* One frame more is through the loop.                                     *)
LEMMA ThroughNext ==
    ASSUME XmitIInv, NEW c \in Callers, in_loop(c), frames' = frames, i'[c] = i[c] + 1
    PROVE  /\ Through(c) \in Seq(Frames) /\ frames[c][i[c]] \in Frames
           /\ Through(c)' = Append(Through(c), frames[c][i[c]])
           /\ i'[c] <= Len(frames'[c]) + 1
<1>1. frames[c] \in Seq(Frames) /\ i[c] \in 1 .. Len(frames[c])
  BY XmitAssumption DEF XmitIInv, XmitTypeOK, CountsFromOne, in_loop
<1>2. PICK f \in Seq(Frames) : f = frames[c]
  BY <1>1
<1>3. PICK k \in 1 .. Len(f) : k = i[c]
  BY <1>1, <1>2
<1>4. i'[c] - 1 = k /\ i'[c] <= Len(f) + 1
  BY <1>3
<1>5. Through(c)' = SubSeq(f, 1, k) /\ Through(c) = SubSeq(f, 1, k - 1)
  BY <1>2, <1>3, <1>4 DEF Through
<1>6. /\ SubSeq(f, 1, k - 1) \in Seq(Frames) /\ f[k] \in Frames
      /\ SubSeq(f, 1, k) = Append(SubSeq(f, 1, k - 1), f[k])
  BY FirstFrames
<1> QED
  BY <1>2, <1>3, <1>4, <1>5, <1>6

(* A frame too big is passed over, and the call says so.                   *)
LEMMA BigTold ==
    ASSUME XmitIInv, NEW c \in Callers, CallTells(c), send_big(c)
    PROVE  CallTells(c)'
<1>1. /\ pc[c] = "loop" /\ pc' = pc /\ frames' = frames /\ i'[c] = i[c] + 1
      /\ TDT' = TDT /\ tdesc_ring' = tdesc_ring /\ tail' = tail
      /\ frames[c][i[c]] \in Big /\ "XMTBIG" \in errstate'[c]
  BY DEF XmitIInv, XmitTypeOK, send_big, in_loop, fails, regs
<1>2. /\ Through(c) \in Seq(Frames) /\ frames[c][i[c]] \in Frames
      /\ Through(c)' = Append(Through(c), frames[c][i[c]])
      /\ i'[c] <= Len(frames'[c]) + 1
  BY <1>1, ThroughNext DEF send_big
<1>3. Without(Through(c)', Big) = Without(Through(c), Big)
  BY <1>1, <1>2, WithoutAppend
<1>4. Written(c)' = Written(c)
  BY <1>1 DEF Written, Window, Ahead, N
<1> QED
  BY <1>1, <1>2, <1>3, <1>4 DEF CallTells

(* A frame written to a descriptor joins those the adapter will be given.  *)
LEMMA FrameWritten ==
    ASSUME XmitIInv, NEW c \in Callers, CallTells(c), send_frame(c)
    PROVE  CallTells(c)'
<1>1. /\ pc[c] = "loop" /\ pc' = pc /\ frames' = frames /\ i'[c] = i[c] + 1
      /\ TDT' = TDT /\ tail'[c] = nt(c) /\ errstate' = errstate
      /\ tdesc_ring' = [tdesc_ring EXCEPT ![tail[c]] = frames[c][i[c]]]
      /\ tdesc_ring \in [Descriptors -> Frames \cup {Empty}]
      /\ frames[c][i[c]] \notin Big
  BY DEF XmitIInv, XmitTypeOK, send_frame, in_loop, regs
<1>2. /\ Through(c) \in Seq(Frames) /\ frames[c][i[c]] \in Frames
      /\ Through(c)' = Append(Through(c), frames[c][i[c]])
      /\ i'[c] <= Len(frames'[c]) + 1
  BY <1>1, ThroughNext DEF send_frame
<1>3. Without(Through(c)', Big) = Append(Without(Through(c), Big), frames[c][i[c]])
  BY <1>1, <1>2, WithoutAppend
<1>4. Written(c)' = Append(Written(c), frames[c][i[c]])
  <2>1. /\ N \in Nat \ {0} /\ TDT \in 0 .. N - 1 /\ Descriptors = 0 .. N - 1
        /\ tail[c] \in 0 .. N - 1 /\ nt(c) \in 0 .. N - 1
        /\ nt(c) = IF tail[c] = N - 1 THEN 0 ELSE tail[c] + 1
        /\ head[c] \in 0 .. N - 1
        /\ Ahead(head[c], nt(c), N) = Ahead(head[c], tail[c], N) + 1
        /\ Ahead(head[c], TDT, N) <= Ahead(head[c], tail[c], N)
    BY <1>1, FrameBehindQueue, Indices, NextTail DEF XmitIInv, TailAhead
  <2>2. nt(c) # TDT
    <3>1. /\ Ahead(head[c], tail[c], N) \in 0 .. N - 1
          /\ Ahead(head[c], TDT, N) \in 0 .. N - 1
      BY <2>1, Distances DEF XmitIInv
    <3> QED
      BY <2>1, <3>1
  <2>3. PICK n \in 0 .. N - 1 : n = Ahead(TDT, tail[c], N)
    BY <2>1, Distances DEF XmitIInv
  <2>4. Ahead(TDT, nt(c), N) = n + 1 /\ (TDT + n) % N = tail[c]
    <3>1. Ahead(TDT, nt(c), N) = Ahead(TDT, tail[c], N) + 1
      BY <2>1, <2>2, AheadNext
    <3>2. (TDT + Ahead(TDT, tail[c], N)) % N = tail[c]
      BY <2>1, Distances DEF XmitIInv
    <3> QED
      BY <2>3, <3>1, <3>2
  <2>5. ASSUME NEW k \in 0 .. n - 1
        PROVE  tdesc_ring'[(TDT + k) % N] = tdesc_ring[(TDT + k) % N]
    <3>1. N \in Nat \ {0} /\ TDT \in 0 .. N - 1 /\ k \in 0 .. N - 1 /\ k # n
      BY <2>1
    <3>2. (TDT + k) % N # (TDT + n) % N
      BY <3>1, StepsApart
    <3> QED
      BY <1>1, <2>4, <3>2
  <2>6. tdesc_ring'[(TDT + n) % N] = frames[c][i[c]]
    BY <1>1, <2>1, <2>4
  <2>7. Window(tdesc_ring', TDT, n + 1, N)
            = Append(Window(tdesc_ring, TDT, n, N), frames[c][i[c]])
    <3>1. PICK q : q = tdesc_ring'
      OBVIOUS
    <3>2. PICK e : e = frames[c][i[c]]
      OBVIOUS
    <3>3. N \in Nat \ {0} /\ TDT \in 0 .. N - 1 /\ n \in Nat
      BY <2>1
    <3>4. SameIn(tdesc_ring, q, TDT, n, N)
      BY <2>5, <3>1 DEF SameIn
    <3>5. q[(TDT + n) % N] = e
      BY <2>6, <3>1, <3>2
    <3>6. Window(q, TDT, n + 1, N) = Append(Window(tdesc_ring, TDT, n, N), e)
      BY <3>3, <3>4, <3>5, WindowGrows
    <3> QED
      BY <3>1, <3>2, <3>6
  <2> QED
    BY <1>1, <2>3, <2>4, <2>7 DEF Written, N
<1> QED
  BY <1>1, <1>2, <1>3, <1>4 DEF CallTells

LEMMA CallsTellStep ==
    ASSUME XmitIInv, XmitIInv', CallsTell, [XmitNext]_vars
    PROVE  CallsTell'
<1>0. /\ pc \in [Callers -> {"idle", "lock", "head", "tail", "loop", "end"}]
      /\ frames \in [Callers -> Batches \cup {<<>>}] /\ i \in [Callers -> Nat]
      /\ tail \in [Callers -> Descriptors \cup {AllOnes}]
      /\ errstate \in [Callers -> SUBSET {"XMTDIS", "XMTFULL", "XMTBIG"}]
      /\ \A c \in Callers : CallTells(c)
  BY DEF XmitIInv, XmitTypeOK, CallsTell
<1> USE DEF goto
<1>1. CASE UNCHANGED vars \/ ixgbe_setup_xmit \/ nic_xmit \/ nic_removed
  <2>1. TDT' = TDT /\ UNCHANGED <<tdesc_ring, pc, locals>>
    BY <1>1 DEF vars, ixgbe_setup_xmit, nic_xmit, nic_removed, regs
  <2> QED
    BY <1>0, <2>1, CallUntouched DEF CallsTell, locals
<1>2. ASSUME NEW c \in Callers, NEW d \in Callers, d # c, CallTells(d),
             \/ \E batch \in Batches : ixgbe_send_frames(c, batch)
             \/ spinlock_lock(c) \/ read_head(c) \/ read_tail(c)
             \/ send_big(c) \/ spinlock_unlock(c)
      PROVE  CallTells(d)'
  BY <1>0, <1>2, CallUntouched
     DEF ixgbe_send_frames, spinlock_lock, read_head, read_tail, send_big,
         spinlock_unlock, fails, regs
<1>3. ASSUME NEW c \in Callers, NEW d \in Callers, d # c, CallTells(d),
             send_full(c) \/ send_frame(c) \/ send_done(c)
      PROVE  CallTells(d)'
  <2>1. /\ pc'[d] = pc[d] /\ i'[d] = i[d] /\ Holding(c)
    BY <1>0, <1>3 DEF send_full, send_frame, send_done, in_loop, Holding, locals
  <2>2. pc[d] \in {"idle", "lock"}
    BY <1>0, <1>3, <2>1 DEF XmitIInv, OneHolder, Holding
  <2> QED
    BY <1>3, <2>1, <2>2 DEF CallTells
<1>4. ASSUME NEW c \in Callers,
             \/ \E batch \in Batches : ixgbe_send_frames(c, batch)
             \/ spinlock_lock(c) \/ read_head(c) \/ spinlock_unlock(c)
             \/ send_full(c) \/ send_done(c)
      PROVE  CallTells(c)'
  BY <1>0, <1>4
     DEF CallTells, ixgbe_send_frames, spinlock_lock, read_head, spinlock_unlock,
         send_full, send_done, in_loop, locals
<1> QED
  BY <1>0, <1>1, <1>2, <1>3, <1>4, LoopBegins, BigTold, FrameWritten
     DEF XmitNext, holder, CallsTell

(* Between any two steps the ring holds, behind what the adapter has been  *)
(* given, the frames its sender is through with.                           *)
THEOREM CallsInvariant == XmitSpec => [](XmitIInv /\ CallsTell)
<1>1. XmitInit => CallsTell
  BY DEF XmitInit, CallsTell, CallTells
<1> QED
  BY <1>1, CallsTellStep, XmitInvariant, PTL DEF XmitSpec

(* A call ends by the write of TDT, with an error where the ring is full.  *)
LEMMA EndsByWrite ==
    ASSUME XmitIInv, [XmitNext]_vars, NEW c \in Callers, pc[c] = "loop", pc'[c] = "end"
    PROVE  send_full(c) \/ send_done(c)
<1>0. pc \in [Callers -> {"idle", "lock", "head", "tail", "loop", "end"}]
  BY DEF XmitIInv, XmitTypeOK
<1> USE DEF goto
<1>1. CASE UNCHANGED vars \/ ixgbe_setup_xmit \/ nic_xmit \/ nic_removed
  BY <1>1 DEF vars, ixgbe_setup_xmit, nic_xmit, nic_removed
<1>2. ASSUME NEW d \in Callers,
             \/ \E batch \in Batches : ixgbe_send_frames(d, batch)
             \/ spinlock_lock(d) \/ read_head(d) \/ read_tail(d)
             \/ send_big(d) \/ send_frame(d) \/ spinlock_unlock(d)
      PROVE  FALSE
  BY <1>0, <1>2
     DEF ixgbe_send_frames, spinlock_lock, read_head, read_tail, send_big, send_frame,
         in_loop, spinlock_unlock
<1>3. ASSUME NEW d \in Callers, send_full(d) \/ send_done(d)
      PROVE  d = c
  BY <1>0, <1>3 DEF send_full, send_done, in_loop
<1> QED
  BY <1>1, <1>2, <1>3 DEF XmitNext, holder

(* The adapter then has what was written, behind what it had.              *)
LEMMA GivesWritten ==
    ASSUME XmitIInv, NEW c \in Callers, pc[c] = "loop",
           TDT' = tail[c], TDH' = TDH, tdesc_ring' = tdesc_ring
    PROVE  Queue' = Queue \o Written(c)
<1>1. /\ XmitTypeOK
      /\ N \in Nat \ {0} /\ TDH \in 0 .. N - 1 /\ TDT \in 0 .. N - 1
      /\ tail[c] \in 0 .. N - 1 /\ head[c] \in 0 .. N - 1
      /\ Ahead(head[c], TDH, N) <= Ahead(head[c], TDT, N)
      /\ Ahead(head[c], TDT, N) <= Ahead(head[c], tail[c], N)
  BY Indices DEF XmitIInv, HeadBehind, TailAhead
<1>2. /\ Ahead(TDH, TDT, N) \in 0 .. N - 1
      /\ Ahead(TDH, tail[c], N) \in 0 .. N - 1
      /\ Ahead(head[c], TDH, N) \in 0 .. N - 1
      /\ Ahead(head[c], TDT, N) \in 0 .. N - 1
      /\ Ahead(head[c], tail[c], N) \in 0 .. N - 1
      /\ (TDH + Ahead(TDH, TDT, N)) % N = TDT
  BY <1>1, Distances
<1>3. PICK n \in 0 .. N - 1 : n = Ahead(TDH, TDT, N)
  BY <1>2
<1>4. PICK m \in 0 .. N - 1 : m = Ahead(TDH, tail[c], N)
  BY <1>2
<1>5. n <= m
  <2>1. Ahead(head[c], TDH, N) <= Ahead(head[c], tail[c], N)
    BY <1>1, <1>2
  <2>2. /\ n = Ahead(head[c], TDT, N) - Ahead(head[c], TDH, N)
        /\ m = Ahead(head[c], tail[c], N) - Ahead(head[c], TDH, N)
    BY <1>1, <1>3, <1>4, <2>1, AheadBetween
  <2> QED
    BY <1>1, <1>2, <2>2
<1>6. Ahead(TDT, tail[c], N) = m - n
  BY <1>1, <1>3, <1>4, <1>5, AheadBetween
<1>7. Queue = Window(tdesc_ring, TDH, n, N) /\ Queue' = Window(tdesc_ring, TDH, m, N)
  BY <1>3, <1>4, QueueIsWindow DEF Queue, Window, Ahead, N
<1>8. Window(tdesc_ring, TDH, m, N)
          = Window(tdesc_ring, TDH, n, N) \o Window(tdesc_ring, (TDH + n) % N, m - n, N)
  <2>1. N \in Nat \ {0} /\ TDH \in 0 .. N - 1 /\ m \in 0 .. N /\ n \in 0 .. m
    BY <1>1, <1>5
  <2> QED
    BY <2>1, WindowSplits
<1> QED
  BY <1>2, <1>3, <1>6, <1>7, <1>8 DEF Written

(* What ixgbe_send_frames answers is true, for every ring, number of       *)
(* processors and batch of frames, though the adapter takes frames all the *)
(* time: without an error it has all frames of the call behind those it    *)
(* had, with XMTFULL the first of them; those too big are left out.        *)
THEOREM AnswersAreTrue == XmitSpec => SendTellsTheTruth
<1> DEFINE done(c) == SubSeq(frames[c], 1, i[c] - 1)
           Answer(c) == /\ Queue' = Queue \o Without(done(c), Big)
                        /\ done(c) = frames[c] \/ "XMTFULL" \in errstate'[c]
                        /\ done(c) = Without(done(c), Big) \/ "XMTBIG" \in errstate'[c]
<1>1. ASSUME XmitIInv, CallsTell, [XmitNext]_vars,
             NEW c \in Callers, present, pc[c] = "loop", pc'[c] = "end"
      PROVE  Answer(c)
  <2>1. /\ TDT' = tail[c] /\ TDH' = TDH /\ tdesc_ring' = tdesc_ring
        /\ "XMTBIG" \in errstate[c] => "XMTBIG" \in errstate'[c]
        /\ "XMTFULL" \in errstate'[c] \/ i[c] > Len(frames[c])
    <3>1. /\ errstate \in [Callers -> SUBSET {"XMTDIS", "XMTFULL", "XMTBIG"}]
          /\ send_full(c) \/ send_done(c)
      BY <1>1, EndsByWrite DEF XmitIInv, XmitTypeOK
    <3>2. CASE send_full(c)
      BY <1>1, <3>1, <3>2 DEF send_full, write_tail, fails
    <3>3. CASE send_done(c)
      BY <1>1, <3>3 DEF send_done, write_tail, locals
    <3> QED
      BY <3>1, <3>2, <3>3
  <2>2. /\ i[c] <= Len(frames[c]) + 1
        /\ Written(c) = Without(done(c), Big)
        /\ done(c) = Without(done(c), Big) \/ "XMTBIG" \in errstate[c]
    BY <1>1 DEF CallsTell, CallTells, Through
  <2>3. Queue' = Queue \o Without(done(c), Big)
    BY <1>1, <2>1, <2>2, GivesWritten
  <2>4. i[c] > Len(frames[c]) => done(c) = frames[c]
    <3>1. frames[c] \in Seq(Frames) /\ i[c] \in Nat
      <4>1. frames[c] \in Batches \cup {<<>>} /\ i[c] \in Nat
        BY <1>1 DEF XmitIInv, XmitTypeOK
      <4>2. <<>> \in Seq(Frames)
        OBVIOUS
      <4> QED
        BY <4>1, <4>2, XmitAssumption
    <3>2. i[c] > Len(frames[c]) => i[c] - 1 = Len(frames[c])
      BY <2>2, <3>1
    <3>3. SubSeq(frames[c], 1, Len(frames[c])) = frames[c]
      BY <3>1
    <3> QED
      BY <3>2, <3>3
  <2> QED
    BY <2>1, <2>2, <2>3, <2>4
<1>2. XmitIInv /\ CallsTell /\ [XmitNext]_vars
      => [\A c \in Callers : present /\ pc[c] = "loop" /\ pc'[c] = "end" => Answer(c)]_vars
  BY <1>1
<1>3. SendTellsTheTruth
      <=> [][\A c \in Callers :
                 present /\ pc[c] = "loop" /\ pc'[c] = "end" => Answer(c)]_vars
  BY DEF SendTellsTheTruth
<1> QED
  BY <1>2, <1>3, CallsInvariant, PTL DEF XmitSpec
=============================================================================

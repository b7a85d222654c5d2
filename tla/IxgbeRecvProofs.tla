--------------------------- MODULE IxgbeRecvProofs ---------------------------
(***************************************************************************)
(* Proofs about the receive ring: for every size of the ring and of a      *)
(* batch and every number of pollers, one poller at a time is between the  *)
(* lock and the unlock, the batch stays within its array, the ring is a    *)
(* queue from adapter to driver, and a call hands over what it gives back. *)
(***************************************************************************)
EXTENDS IxgbeRecv, RingLemmas

N == num_rdesc

After(d) == IF d + 1 >= num_rdesc THEN 0 ELSE d + 1

Holding(c) == pc[c] \in {"head", "tail", "loop", "write", "end"}

(* The spin lock lets one poller in (ixgbe->lock).                         *)
OneHolder ==
    /\ \A c \in Callers : Holding(c) => lock = 1
    /\ \A c, d \in Callers : Holding(c) /\ Holding(d) => c = d

(* The oldest packet that is not given back.                               *)
Oldest == After(RDT)

(* The head a poller has read is not beyond RDH.                           *)
HeadBehind ==
    \A c \in Callers : pc[c] \in {"tail", "loop", "write"} /\ head[c] # AllOnes =>
        Ahead(Oldest, head[c], N) <= Ahead(Oldest, RDH, N)

(* The poller goes from the oldest packet to the head it has read, and     *)
(* writes RDT when it is there.                                            *)
TailBehind ==
    \A c \in Callers : pc[c] \in {"loop", "write"} =>
        /\ head[c] \in 0 .. N - 1 /\ tail[c] \in 0 .. N - 1
        /\ Ahead(Oldest, nt(c), N) <= Ahead(Oldest, head[c], N)
        /\ pc[c] = "write" => head[c] = nt(c)

(* What has arrived is there, and so is what a batch refers to.            *)
Arrived ==
    /\ WindowIn(rdesc_ring, Oldest, Ahead(Oldest, RDH, N), N, Packets)
    /\ \A c \in Callers : \A k \in 1 .. Len(frames[c]) :
           rdesc_ring[frames[c][k]] \in Packets

(* The inductive invariant.  The adapter fills descriptors while a poller  *)
(* uses the head it has read; what it takes lies between the oldest packet *)
(* and that head, and the adapter stays out of there.                      *)
RecvIInv ==
    /\ RecvTypeOK /\ OneHolder
    /\ HeadBehind /\ TailBehind /\ Arrived

-----------------------------------------------------------------------------
(* The registers, and a poller's variables once they are read, are indices *)
(* of the ring.                                                            *)
LEMMA Indices ==
    ASSUME RecvTypeOK
    PROVE  /\ N \in Nat \ {0} /\ N > 1
           /\ Descriptors = 0 .. N - 1
           /\ RDH \in 0 .. N - 1 /\ RDT \in 0 .. N - 1
           /\ AllOnes \notin 0 .. N - 1
           /\ \A c \in Callers : head[c] # AllOnes => head[c] \in 0 .. N - 1
           /\ \A c \in Callers : tail[c] # AllOnes => tail[c] \in 0 .. N - 1
<1>1. N \in Nat \ {0, 1} /\ N \in Nat \ {0} /\ N > 1
  BY RecvAssumption DEF N
<1>2. Descriptors = 0 .. N - 1 /\ AllOnes = N + 1
  BY DEF Descriptors, AllOnes, N
<1> QED
  BY <1>1, <1>2 DEF RecvTypeOK

(* The next index.                                                         *)
LEMMA AfterIs ==
    ASSUME N \in Nat \ {0}, NEW d \in 0 .. N - 1
    PROVE  /\ After(d) \in 0 .. N - 1
           /\ After(d) = IF d = N - 1 THEN 0 ELSE d + 1
           /\ After(d) = (d + 1) % N
<1>1. After(d) = IF d = N - 1 THEN 0 ELSE d + 1
  BY DEF After, N
<1>2. (d + 1) % N = IF d = N - 1 THEN 0 ELSE d + 1
  <2>1. CASE d = N - 1
    BY <2>1, Wraps
  <2>2. CASE d # N - 1
    BY <2>2, Wraps
  <2> QED
    BY <2>1, <2>2
<1> QED
  BY <1>1, <1>2

(* Without a modulus, how far the indices of the ring are from each other. *)
LEMMA Distances ==
    ASSUME RecvTypeOK
    PROVE  \A x, y \in 0 .. N - 1 :
               /\ Ahead(x, y, N) \in 0 .. N - 1
               /\ (x + Ahead(x, y, N)) % N = y
BY Indices, AheadIs

(* From the descriptor after t to h.                                       *)
LEMMA FromAfter ==
    ASSUME N \in Nat \ {0}, NEW h \in 0 .. N - 1, NEW t \in 0 .. N - 1
    PROVE  (h - t - 1) % N = Ahead(After(t), h, N)
<1>1. After(t) \in 0 .. N - 1 /\ After(t) = IF t = N - 1 THEN 0 ELSE t + 1
  BY AfterIs
<1>2. CASE t = N - 1
  <2>1. h - t - 1 = h - N /\ h - N \in -N .. -1 /\ h - 0 = h
    BY <1>2
  <2>2. (h - N) % N = h - N + N /\ h % N = h
    BY <2>1, Wraps
  <2> QED
    BY <1>1, <1>2, <2>1, <2>2 DEF Ahead
<1>3. CASE t # N - 1
  <2>1. h - t - 1 = h - (t + 1)
    OBVIOUS
  <2> QED
    BY <1>1, <1>3, <2>1 DEF Ahead
<1> QED
  BY <1>2, <1>3

(* What has arrived, for given registers and ring, is a window of the ring. *)
LEMMA ArrivedIsWindow ==
    ASSUME N \in Nat \ {0}, NEW r, NEW h \in 0 .. N - 1, NEW t \in 0 .. N - 1
    PROVE  [k \in 1 .. (h - t - 1) % num_rdesc |-> r[(t + k) % num_rdesc]]
               = Window(r, After(t), Ahead(After(t), h, N), N)
<1>1. /\ After(t) = (t + 1) % N /\ After(t) \in 0 .. N - 1
      /\ After(t) = IF t = N - 1 THEN 0 ELSE t + 1
  BY AfterIs
<1> DEFINE n == Ahead(After(t), h, N)
<1>2. (h - t - 1) % N = n
  BY FromAfter
<1>3. n \in 0 .. N - 1
  BY <1>1, AheadIs
<1>4. ASSUME NEW k \in 1 .. n
      PROVE  (t + k) % N = (After(t) + k - 1) % N
  <2>1. k - 1 \in 0 .. N /\ 1 \in 0 .. N /\ 1 + (k - 1) <= N
    BY <1>3
  <2>2. (((t + 1) % N) + (k - 1)) % N = (t + 1 + (k - 1)) % N
    BY <2>1, Steps
  <2>3. t + 1 + (k - 1) = t + k /\ After(t) + (k - 1) = After(t) + k - 1
    BY <1>1
  <2> QED
    BY <1>1, <2>2, <2>3
<1> HIDE DEF n
<1> QED
  BY <1>2, <1>4 DEF Window, N, n

(* So are the queue before a step and the queue after it.                  *)
LEMMA QueueIsWindow ==
    /\ RecvTypeOK => Queue = Window(rdesc_ring, Oldest, Ahead(Oldest, RDH, N), N)
    /\ RecvTypeOK' => Queue' = Window(rdesc_ring', Oldest', Ahead(Oldest', RDH', N), N)
<1>1. N \in Nat \ {0} /\ Descriptors = 0 .. N - 1
  BY RecvAssumption DEF N, Descriptors
<1>2. Oldest = After(RDT) /\ Oldest' = After(RDT')
  BY DEF Oldest, After
<1>3. ASSUME RecvTypeOK
      PROVE  Queue = Window(rdesc_ring, Oldest, Ahead(Oldest, RDH, N), N)
  <2>1. RDH \in 0 .. N - 1 /\ RDT \in 0 .. N - 1
    BY <1>1, <1>3 DEF RecvTypeOK
  <2>2. Queue = Window(rdesc_ring, After(RDT), Ahead(After(RDT), RDH, N), N)
    BY <1>1, <2>1, ArrivedIsWindow DEF Queue
  <2> QED
    BY <1>2, <2>2
<1>4. ASSUME RecvTypeOK'
      PROVE  Queue' = Window(rdesc_ring', Oldest', Ahead(Oldest', RDH', N), N)
  <2>1. RDH' \in 0 .. N - 1 /\ RDT' \in 0 .. N - 1
    BY <1>1, <1>4 DEF RecvTypeOK, Descriptors
  <2>2. Queue' = Window(rdesc_ring', After(RDT'), Ahead(After(RDT'), RDH', N), N)
    BY <1>1, <2>1, ArrivedIsWindow DEF Queue
  <2> QED
    BY <1>2, <2>2
<1> QED
  BY <1>3, <1>4
-----------------------------------------------------------------------------
(* ixgbe_setup_recv's ring satisfies the invariant.                        *)
LEMMA RecvInitInv == RecvInit => RecvIInv
<1> SUFFICES ASSUME RecvInit PROVE RecvIInv
  OBVIOUS
<1>1. RecvTypeOK
  <2>1. 0 \in Descriptors /\ num_rdesc - 1 \in Descriptors /\ 0 <= num
    BY RecvAssumption DEF Descriptors
  <2>2. /\ frames \in [Callers -> Seq(Descriptors)] /\ given \in [Callers -> Seq(Packets)]
        /\ \A c \in Callers : Len(frames[c]) = 0
    BY DEF RecvInit
  <2> QED
    BY <2>1, <2>2 DEF RecvInit, RecvTypeOK
<1>2. OneHolder /\ HeadBehind /\ TailBehind
  BY DEF RecvInit, OneHolder, Holding, HeadBehind, TailBehind
<1>3. Oldest = 0 /\ RDH = 0
  BY <1>1, Indices, AfterIs DEF RecvInit, Oldest, N
<1>4. Ahead(Oldest, RDH, N) = 0
  BY <1>1, <1>3, Indices, AheadToSelf
<1>5. Arrived
  BY <1>4 DEF RecvInit, Arrived, WindowIn
<1> QED
  BY <1>1, <1>2, <1>5 DEF RecvIInv

(* What a poller hands over is packets.                                    *)
LEMMA ContentsArePackets ==
    ASSUME RecvTypeOK, Arrived, NEW c \in Callers
    PROVE  Contents(c) \in Seq(Packets)
<1>1. frames[c] \in Seq(Descriptors)
  BY DEF RecvTypeOK
<1>2. Len(frames[c]) \in Nat
  BY <1>1
<1>3. \A k \in 1 .. Len(frames[c]) : rdesc_ring[frames[c][k]] \in Packets
  BY DEF Arrived
<1>4. Contents(c) \in [1 .. Len(frames[c]) -> Packets]
  BY <1>3 DEF Contents
<1> QED
  BY <1>2, <1>4

(* The loop's next descriptor holds a packet that has arrived.             *)
LEMMA NextHasArrived ==
    ASSUME RecvIInv, NEW c \in Callers, pc[c] = "loop", head[c] # nt(c)
    PROVE  /\ nt(c) \in 0 .. N - 1
           /\ rdesc_ring[nt(c)] \in Packets
           /\ Ahead(Oldest, After(nt(c)), N) = Ahead(Oldest, nt(c), N) + 1
           /\ Ahead(Oldest, After(nt(c)), N) <= Ahead(Oldest, head[c], N)
<1>1. /\ RecvTypeOK /\ N \in Nat \ {0} /\ N > 1
      /\ RDT \in 0 .. N - 1 /\ RDH \in 0 .. N - 1
      /\ head[c] \in 0 .. N - 1 /\ tail[c] \in 0 .. N - 1
      /\ head[c] # AllOnes
      /\ Ahead(Oldest, head[c], N) <= Ahead(Oldest, RDH, N)
      /\ Ahead(Oldest, nt(c), N) <= Ahead(Oldest, head[c], N)
      /\ nt(c) = After(tail[c])
  BY Indices DEF RecvIInv, HeadBehind, TailBehind, nt, After
<1>2. /\ nt(c) \in 0 .. N - 1 /\ Oldest \in 0 .. N - 1
      /\ After(nt(c)) \in 0 .. N - 1
      /\ After(nt(c)) = IF nt(c) = N - 1 THEN 0 ELSE nt(c) + 1
  BY <1>1, AfterIs DEF Oldest
<1>3. /\ Ahead(Oldest, nt(c), N) \in 0 .. N - 1
      /\ Ahead(Oldest, head[c], N) \in 0 .. N - 1
      /\ Ahead(Oldest, RDH, N) \in 0 .. N - 1
      /\ (Oldest + Ahead(Oldest, nt(c), N)) % N = nt(c)
  BY <1>1, <1>2, Distances
<1>4. Ahead(Oldest, nt(c), N) # Ahead(Oldest, head[c], N)
  BY <1>1, <1>2, AheadBetween
<1>5. After(nt(c)) # Oldest => Ahead(Oldest, After(nt(c)), N) = Ahead(Oldest, nt(c), N) + 1
  BY <1>1, <1>2, AheadNext
<1>6. After(nt(c)) # Oldest
  <2>1. SUFFICES ASSUME After(nt(c)) = Oldest PROVE FALSE
    OBVIOUS
  <2>2. Ahead(Oldest, nt(c), N) =
            IF Oldest <= nt(c) THEN nt(c) - Oldest ELSE nt(c) - Oldest + N
    BY <1>1, <1>2, AheadIs
  <2>3. Ahead(Oldest, nt(c), N) = N - 1
    BY <1>1, <1>2, <2>1, <2>2
  <2> QED
    BY <1>1, <1>3, <1>4, <2>3
<1>7. rdesc_ring[nt(c)] \in Packets
  <2>1. Ahead(Oldest, nt(c), N) \in 0 .. Ahead(Oldest, RDH, N) - 1
    BY <1>1, <1>3, <1>4
  <2> QED
    BY <1>3, <2>1 DEF RecvIInv, Arrived, WindowIn
<1> QED
  BY <1>1, <1>2, <1>3, <1>4, <1>5, <1>6, <1>7

(* The batch stays within its array and refers to packets that have        *)
(* arrived, whether or not it was full.                                    *)
LEMMA BatchFits ==
    ASSUME RecvIInv, NEW c \in Callers, recv_frame(c)
    PROVE  /\ frames' \in [Callers -> Seq(Descriptors)]
           /\ \A d \in Callers : Len(frames'[d]) <= num
           /\ given' \in [Callers -> Seq(Packets)]
           /\ \A d \in Callers : \A k \in 1 .. Len(frames'[d]) :
                  rdesc_ring[frames'[d][k]] \in Packets
<1>1. /\ RecvTypeOK /\ Arrived /\ num \in Nat \ {0}
      /\ frames \in [Callers -> Seq(Descriptors)]
      /\ given \in [Callers -> Seq(Packets)]
      /\ Len(frames[c]) <= num /\ Len(frames[c]) \in Nat
  BY RecvAssumption DEF RecvIInv, RecvTypeOK
<1>2. nt(c) \in Descriptors /\ rdesc_ring[nt(c)] \in Packets
  BY <1>1, NextHasArrived, Indices DEF recv_frame
<1>3. PICK kept \in {<<>>, <<nt(c)>>} : batch(c, kept)
  BY DEF recv_frame
<1>4. kept \in Seq(Descriptors) /\ Len(kept) <= 1 /\ Len(kept) \in Nat
  <2>1. /\ <<>> \in Seq(Descriptors) /\ Len(<<>>) = 0
        /\ <<nt(c)>> \in Seq(Descriptors) /\ Len(<<nt(c)>>) = 1
    BY <1>2
  <2>2. kept = <<>> \/ kept = <<nt(c)>>
    BY <1>3
  <2>3. CASE kept = <<>>
    BY <2>1, <2>3
  <2>4. CASE kept = <<nt(c)>>
    BY <2>1, <2>4
  <2> QED
    BY <2>2, <2>3, <2>4
<1>5. \A k \in 1 .. Len(kept) : rdesc_ring[kept[k]] \in Packets
  BY <1>2, <1>3
<1>6. \A d \in Callers : \A k \in 1 .. Len(frames[d]) : rdesc_ring[frames[d][k]] \in Packets
  BY <1>1 DEF Arrived
<1>7. CASE Len(frames[c]) = num
  <2>1. frames' = [frames EXCEPT ![c] = kept]
        /\ given' = [given EXCEPT ![c] = given[c] \o Contents(c)]
    BY <1>3, <1>7 DEF batch, hand_over
  <2>2. given[c] \o Contents(c) \in Seq(Packets)
    BY <1>1, ContentsArePackets
  <2>3. given' \in [Callers -> Seq(Packets)] /\ frames' \in [Callers -> Seq(Descriptors)]
    BY <1>1, <1>4, <2>1, <2>2
  <2>4. \A d \in Callers : frames'[d] = IF d = c THEN kept ELSE frames[d]
    BY <1>1, <2>1
  <2> QED
    BY <1>1, <1>4, <1>5, <1>6, <2>3, <2>4 DEF RecvTypeOK
<1>8. CASE Len(frames[c]) # num
  <2>1. frames' = [frames EXCEPT ![c] = frames[c] \o kept] /\ given' = given
    BY <1>3, <1>8 DEF batch
  <2>2. /\ frames[c] \o kept \in Seq(Descriptors)
        /\ Len(frames[c] \o kept) = Len(frames[c]) + Len(kept)
    BY <1>1, <1>4
  <2>3. Len(frames[c] \o kept) <= num
    BY <1>1, <1>4, <1>8, <2>2
  <2>4. ASSUME NEW k \in 1 .. Len(frames[c] \o kept)
        PROVE  rdesc_ring[(frames[c] \o kept)[k]] \in Packets
    <3>1. CASE k <= Len(frames[c])
      <4>1. (frames[c] \o kept)[k] = frames[c][k] /\ k \in 1 .. Len(frames[c])
        BY <1>1, <1>4, <3>1
      <4> QED
        BY <1>6, <4>1
    <3>2. CASE ~(k <= Len(frames[c]))
      <4>1. /\ (frames[c] \o kept)[k] = kept[k - Len(frames[c])]
            /\ k - Len(frames[c]) \in 1 .. Len(kept)
        BY <1>1, <1>4, <2>2, <3>2
      <4> QED
        BY <1>5, <4>1
    <3> QED
      BY <3>1, <3>2
  <2>5. \A d \in Callers : frames'[d] = IF d = c THEN frames[c] \o kept ELSE frames[d]
    BY <1>1, <2>1
  <2>6. frames' \in [Callers -> Seq(Descriptors)]
    BY <1>1, <2>1, <2>2
  <2> QED
    BY <1>1, <1>6, <2>1, <2>3, <2>4, <2>5, <2>6 DEF RecvTypeOK
<1> QED
  BY <1>7, <1>8

(* The variables keep their types.                                         *)
LEMMA RecvTypeStep == RecvIInv /\ [RecvNext]_vars => RecvTypeOK'
<1> SUFFICES ASSUME RecvIInv, [RecvNext]_vars PROVE RecvTypeOK'
  OBVIOUS
<1> USE RecvAssumption
<1>0. RecvTypeOK /\ TailBehind /\ Arrived /\ Descriptors = 0 .. N - 1
  BY Indices DEF RecvIInv
<1>1. CASE UNCHANGED vars
  BY <1>0, <1>1 DEF RecvTypeOK, vars, regs, locals
<1>2. CASE ixgbe_setup_recv
  BY <1>0, <1>2 DEF RecvTypeOK, ixgbe_setup_recv, regs, locals
<1>3. CASE nic_removed
  BY <1>0, <1>3 DEF RecvTypeOK, nic_removed, regs, locals
<1>4. ASSUME NEW packet \in Packets, nic_recv(packet) PROVE RecvTypeOK'
  <2>1. (RDH + 1) % num_rdesc \in Descriptors
    BY <1>0 DEF RecvTypeOK, Descriptors
  <2> QED
    BY <1>0, <1>4, <2>1 DEF RecvTypeOK, nic_recv, locals
<1>5. ASSUME NEW c \in Callers, ixgbe_recv_frames(c) PROVE RecvTypeOK'
  BY <1>0, <1>5 DEF RecvTypeOK, ixgbe_recv_frames, goto, regs, locals
<1>6. ASSUME NEW c \in Callers, spinlock_lock(c) PROVE RecvTypeOK'
  BY <1>0, <1>6 DEF RecvTypeOK, spinlock_lock, goto, fails, regs
<1>7. ASSUME NEW c \in Callers, read_head(c) PROVE RecvTypeOK'
  BY <1>0, <1>7 DEF RecvTypeOK, read_head, goto, ixgbe_read32, regs
<1>8. ASSUME NEW c \in Callers, read_tail(c) PROVE RecvTypeOK'
  BY <1>0, <1>8 DEF RecvTypeOK, read_tail, goto, fails, ixgbe_read32, regs
<1>9. ASSUME NEW c \in Callers, recv_frame(c) PROVE RecvTypeOK'
  <2>1. nt(c) \in Descriptors
    BY <1>0, <1>9, NextHasArrived DEF recv_frame
  <2>2. /\ frames' \in [Callers -> Seq(Descriptors)]
        /\ \A d \in Callers : Len(frames'[d]) <= num
        /\ given' \in [Callers -> Seq(Packets)]
    BY <1>9, BatchFits
  <2> QED
    BY <1>0, <1>9, <2>1, <2>2 DEF RecvTypeOK, recv_frame, fails, regs
<1>10. ASSUME NEW c \in Callers, recv_last(c) PROVE RecvTypeOK'
  <2>1. given[c] \in Seq(Packets) /\ Contents(c) \in Seq(Packets)
    BY <1>0, ContentsArePackets DEF RecvTypeOK
  <2>2. given[c] \o Contents(c) \in Seq(Packets)
    BY <2>1
  <2>3. given' \in [Callers -> Seq(Packets)]
    BY <1>0, <1>10, <2>2 DEF RecvTypeOK, recv_last, hand_over
  <2> QED
    BY <1>0, <1>10, <2>3 DEF RecvTypeOK, recv_last, goto, regs
<1>11. ASSUME NEW c \in Callers, write_tail(c) PROVE RecvTypeOK'
  <2>1. tail[c] \in Descriptors
    BY <1>0, <1>11 DEF write_tail, TailBehind
  <2> QED
    BY <1>0, <1>11, <2>1 DEF RecvTypeOK, write_tail, goto, locals
<1>12. ASSUME NEW c \in Callers, spinlock_unlock(c) PROVE RecvTypeOK'
  <2>1. 0 \in Descriptors
    BY DEF Descriptors
  <2>2. /\ frames' \in [Callers -> Seq(Descriptors)] /\ given' \in [Callers -> Seq(Packets)]
    BY <1>0, <1>12 DEF RecvTypeOK, spinlock_unlock
  <2>3. \A d \in Callers : frames'[d] = IF d = c THEN <<>> ELSE frames[d]
    BY <1>0, <1>12 DEF RecvTypeOK, spinlock_unlock
  <2>4. \A d \in Callers : Len(frames'[d]) <= num
    BY <1>0, <2>3 DEF RecvTypeOK
  <2> QED
    BY <1>0, <1>12, <2>1, <2>2, <2>4 DEF RecvTypeOK, spinlock_unlock, goto, regs
<1> QED
  BY <1>1, <1>2, <1>3, <1>4, <1>5, <1>6, <1>7, <1>8, <1>9, <1>10, <1>11, <1>12
     DEF RecvNext, holder

(* One poller at a time holds the lock.                                    *)
LEMMA RecvHolderStep == RecvIInv /\ [RecvNext]_vars => OneHolder'
<1> SUFFICES ASSUME RecvIInv, [RecvNext]_vars PROVE OneHolder'
  OBVIOUS
<1>0. OneHolder /\ pc \in [Callers -> {"idle", "lock", "head", "tail", "loop", "write", "end"}]
  BY DEF RecvIInv, RecvTypeOK
<1> USE DEF OneHolder, Holding, goto
<1>1. CASE UNCHANGED vars
  BY <1>0, <1>1 DEF vars
<1>2. CASE ixgbe_setup_recv \/ nic_removed \/ \E packet \in Packets : nic_recv(packet)
  BY <1>0, <1>2 DEF ixgbe_setup_recv, nic_removed, nic_recv
<1>3. ASSUME NEW c \in Callers, ixgbe_recv_frames(c) PROVE OneHolder'
  BY <1>0, <1>3 DEF ixgbe_recv_frames
<1>4. ASSUME NEW c \in Callers, spinlock_lock(c) PROVE OneHolder'
  BY <1>0, <1>4 DEF spinlock_lock
<1>5. ASSUME NEW c \in Callers, read_head(c) \/ read_tail(c) PROVE OneHolder'
  BY <1>0, <1>5 DEF read_head, read_tail
<1>6. ASSUME NEW c \in Callers, recv_frame(c) \/ recv_last(c) \/ write_tail(c)
      PROVE  OneHolder'
  BY <1>0, <1>6 DEF recv_frame, recv_last, write_tail
<1>7. ASSUME NEW c \in Callers, spinlock_unlock(c) PROVE OneHolder'
  BY <1>0, <1>7 DEF spinlock_unlock
<1> QED
  BY <1>1, <1>2, <1>3, <1>4, <1>5, <1>6, <1>7 DEF RecvNext, holder

(* The adapter fills the descriptor after those a poller may read, and     *)
(* stops before the oldest packet.                                         *)
LEMMA AdapterAdvances ==
    ASSUME RecvTypeOK, NEW packet \in Packets, nic_recv(packet)
    PROVE  /\ Oldest \in 0 .. N - 1 /\ Oldest' = Oldest
           /\ Ahead(Oldest, RDH, N) \in 0 .. N - 1
           /\ Ahead(Oldest, RDH', N) = Ahead(Oldest, RDH, N) + 1
           /\ \A k \in 0 .. Ahead(Oldest, RDH, N) - 1 :
                  rdesc_ring'[(Oldest + k) % N] = rdesc_ring[(Oldest + k) % N]
           /\ rdesc_ring'[(Oldest + Ahead(Oldest, RDH, N)) % N] = packet
           /\ \A d \in Descriptors : rdesc_ring'[d] \in {rdesc_ring[d], packet}
<1>1. /\ N \in Nat \ {0} /\ RDH \in 0 .. N - 1 /\ RDT \in 0 .. N - 1
      /\ RDH # RDT /\ RDH' = (RDH + 1) % N /\ RDT' = RDT
      /\ rdesc_ring' = [rdesc_ring EXCEPT ![RDH] = packet]
      /\ rdesc_ring \in [Descriptors -> Packets \cup {Empty}]
      /\ Descriptors = 0 .. N - 1
  BY Indices DEF nic_recv, N, RecvTypeOK
<1>2. /\ Oldest \in 0 .. N - 1 /\ Oldest = IF RDT = N - 1 THEN 0 ELSE RDT + 1
      /\ RDH' \in 0 .. N - 1 /\ RDH' = IF RDH = N - 1 THEN 0 ELSE RDH + 1
  BY <1>1, AfterIs DEF Oldest
<1>3. Oldest' = Oldest
  BY <1>1 DEF Oldest, After
<1>4. /\ Ahead(Oldest, RDH, N) \in 0 .. N - 1
      /\ (Oldest + Ahead(Oldest, RDH, N)) % N = RDH
  BY <1>1, <1>2, Distances
<1>5. Ahead(Oldest, RDH', N) = Ahead(Oldest, RDH, N) + 1
  <2>1. RDH' # Oldest
    BY <1>1, <1>2
  <2> QED
    BY <1>1, <1>2, <2>1, AheadNext
<1>6. ASSUME NEW k \in 0 .. Ahead(Oldest, RDH, N) - 1
      PROVE  rdesc_ring'[(Oldest + k) % N] = rdesc_ring[(Oldest + k) % N]
  <2>1. k \in 0 .. N - 1 /\ k # Ahead(Oldest, RDH, N)
    BY <1>1, <1>4
  <2>2. (Oldest + k) % N # RDH
    <3>1. N \in Nat \ {0} /\ Oldest \in 0 .. N - 1 /\ Ahead(Oldest, RDH, N) \in 0 .. N - 1
      BY <1>1, <1>2, <1>4
    <3>2. (Oldest + k) % N # (Oldest + Ahead(Oldest, RDH, N)) % N
      BY <2>1, <3>1, StepsApart
    <3> QED
      BY <1>4, <3>2
  <2> QED
    BY <1>1, <2>2
<1>7. /\ rdesc_ring'[RDH] = packet
      /\ \A d \in Descriptors : rdesc_ring'[d] \in {rdesc_ring[d], packet}
  BY <1>1
<1> QED
  BY <1>2, <1>3, <1>4, <1>5, <1>6, <1>7

(* What a step keeps that touches neither the registers nor the ring nor   *)
(* what a poller in its loop has.                                          *)
LEMMA RingUntouched ==
    ASSUME RecvIInv, UNCHANGED <<regs, rdesc_ring>>,
           \A c \in Callers : pc'[c] \in {"tail", "loop", "write"} =>
               /\ pc'[c] = pc[c] /\ head'[c] = head[c] /\ tail'[c] = tail[c],
           \A c \in Callers : frames'[c] \in {frames[c], <<>>}
    PROVE  HeadBehind' /\ TailBehind' /\ Arrived'
<1>1. HeadBehind /\ TailBehind /\ Arrived
  BY DEF RecvIInv
<1>2. /\ RDH' = RDH /\ RDT' = RDT /\ rdesc_ring' = rdesc_ring
      /\ AllOnes' = AllOnes /\ N' = N /\ Oldest' = Oldest
  BY DEF regs, AllOnes, N, Oldest, After
<1>3. HeadBehind' /\ TailBehind'
  BY <1>1, <1>2 DEF HeadBehind, TailBehind, nt, N
<1>4. Arrived'
  <2>1. \A c \in Callers : \A k \in 1 .. Len(frames'[c]) : rdesc_ring[frames'[c][k]] \in Packets
    BY <1>1 DEF Arrived
  <2> QED
    BY <1>1, <1>2, <2>1 DEF Arrived, WindowIn
<1> QED
  BY <1>3, <1>4

(* Every step keeps what the invariant says of the ring.                   *)
LEMMA RecvRingStep ==
    ASSUME RecvIInv, [RecvNext]_vars, RecvTypeOK', OneHolder'
    PROVE  HeadBehind' /\ TailBehind' /\ Arrived'
<1>0. /\ RecvTypeOK /\ OneHolder /\ HeadBehind /\ TailBehind /\ Arrived
      /\ pc \in [Callers -> {"idle", "lock", "head", "tail", "loop", "write", "end"}]
      /\ pc' \in [Callers -> {"idle", "lock", "head", "tail", "loop", "write", "end"}]
      /\ head \in [Callers -> Descriptors \cup {AllOnes}]
      /\ tail \in [Callers -> Descriptors \cup {AllOnes}]
      /\ frames \in [Callers -> Seq(Descriptors)]
      /\ N \in Nat \ {0} /\ N' = N /\ AllOnes' = AllOnes
      /\ RDH \in 0 .. N - 1 /\ RDT \in 0 .. N - 1 /\ Oldest \in 0 .. N - 1
      /\ Descriptors = 0 .. N - 1 /\ AllOnes \notin 0 .. N - 1
  <2>1. N \in Nat \ {0} /\ RDT \in 0 .. N - 1 => Oldest \in 0 .. N - 1
    BY AfterIs DEF Oldest
  <2> QED
    BY <2>1, Indices DEF RecvIInv, RecvTypeOK, N, AllOnes
<1>1. CASE UNCHANGED vars \/ ixgbe_setup_recv \/ nic_removed
  BY <1>1, RingUntouched DEF vars, ixgbe_setup_recv, nic_removed, locals
<1>2. ASSUME NEW packet \in Packets, nic_recv(packet)
      PROVE  HeadBehind' /\ TailBehind' /\ Arrived'
  <2>1. /\ Oldest' = Oldest /\ UNCHANGED <<pc, head, tail, frames>>
        /\ Ahead(Oldest, RDH, N) \in 0 .. N - 1
        /\ Ahead(Oldest, RDH', N) = Ahead(Oldest, RDH, N) + 1
        /\ \A k \in 0 .. Ahead(Oldest, RDH, N) - 1 :
               rdesc_ring'[(Oldest + k) % N] = rdesc_ring[(Oldest + k) % N]
        /\ rdesc_ring'[(Oldest + Ahead(Oldest, RDH, N)) % N] = packet
        /\ \A d \in Descriptors : rdesc_ring'[d] \in {rdesc_ring[d], packet}
    BY <1>0, <1>2, AdapterAdvances DEF nic_recv, locals
  <2>2. HeadBehind'
    <3>1. ASSUME NEW c \in Callers, pc[c] \in {"tail", "loop", "write"}, head[c] # AllOnes
          PROVE  Ahead(Oldest, head[c], N) <= Ahead(Oldest, RDH, N) + 1
      <4>1. /\ Ahead(Oldest, head[c], N) <= Ahead(Oldest, RDH, N)
            /\ Ahead(Oldest, head[c], N) \in 0 .. N - 1
        BY <1>0, <3>1, Indices, Distances DEF HeadBehind
      <4> QED
        BY <2>1, <4>1
    <3> QED
      BY <1>0, <2>1, <3>1 DEF HeadBehind
  <2>3. TailBehind'
    BY <1>0, <2>1 DEF TailBehind, nt, N
  <2>4. ASSUME NEW k \in 0 .. Ahead(Oldest, RDH', N) - 1
        PROVE  rdesc_ring'[(Oldest + k) % N] \in Packets
    <3>1. k \in 0 .. Ahead(Oldest, RDH, N) - 1 \/ k = Ahead(Oldest, RDH, N)
      BY <2>1
    <3> QED
      BY <1>0, <2>1, <3>1 DEF Arrived, WindowIn
  <2>5. ASSUME NEW c \in Callers, NEW k \in 1 .. Len(frames[c])
        PROVE  rdesc_ring'[frames[c][k]] \in Packets
    <3>1. frames[c][k] \in Descriptors
      BY <1>0
    <3> QED
      BY <1>0, <2>1, <3>1 DEF Arrived
  <2>6. Arrived'
    BY <1>0, <2>1, <2>4, <2>5 DEF Arrived, WindowIn
  <2> QED
    BY <2>2, <2>3, <2>6
<1>3. ASSUME NEW c \in Callers,
             ixgbe_recv_frames(c) \/ spinlock_lock(c) \/ spinlock_unlock(c)
      PROVE  HeadBehind' /\ TailBehind' /\ Arrived'
  <2>1. UNCHANGED <<regs, rdesc_ring>>
    BY <1>3 DEF ixgbe_recv_frames, spinlock_lock, spinlock_unlock
  <2>2. \A d \in Callers : pc'[d] \in {"tail", "loop", "write"} =>
            pc'[d] = pc[d] /\ head'[d] = head[d] /\ tail'[d] = tail[d]
    BY <1>0, <1>3 DEF ixgbe_recv_frames, spinlock_lock, spinlock_unlock, goto, locals
  <2>3. \A d \in Callers : frames'[d] \in {frames[d], <<>>}
    BY <1>0, <1>3 DEF ixgbe_recv_frames, spinlock_lock, spinlock_unlock, locals
  <2> QED
    BY <2>1, <2>2, <2>3, RingUntouched
<1>4. ASSUME NEW c \in Callers, Holding(c), Holding(c)'
      PROVE  \A d \in Callers : d # c =>
                 pc[d] \in {"idle", "lock"} /\ pc'[d] \in {"idle", "lock"}
  BY <1>0, <1>4 DEF OneHolder, Holding
<1>5. ASSUME NEW c \in Callers, read_head(c)
      PROVE  HeadBehind' /\ TailBehind' /\ Arrived'
  <2>1. /\ pc'[c] = "tail" /\ head'[c] \in {RDH, AllOnes}
        /\ RDH' = RDH /\ RDT' = RDT /\ rdesc_ring' = rdesc_ring /\ frames' = frames
        /\ Oldest' = Oldest /\ Holding(c) /\ Holding(c)'
    BY <1>0, <1>5 DEF read_head, goto, ixgbe_read32, Holding, regs, Oldest, After
  <2>2. \A d \in Callers :
            pc'[d] \in {"tail", "loop", "write"} => d = c /\ pc'[d] = "tail"
    BY <1>4, <2>1
  <2>3. Ahead(Oldest, RDH, N) \in Int
    BY <1>0, Distances
  <2>4. HeadBehind' /\ TailBehind'
    BY <1>0, <2>1, <2>2, <2>3 DEF HeadBehind, TailBehind
  <2> QED
    BY <1>0, <2>1, <2>4 DEF Arrived, WindowIn
<1>6. ASSUME NEW c \in Callers, read_tail(c)
      PROVE  HeadBehind' /\ TailBehind' /\ Arrived'
  <2>1. /\ pc[c] = "tail" /\ pc'[c] \in {"loop", "end"} /\ head' = head
        /\ RDH' = RDH /\ RDT' = RDT /\ rdesc_ring' = rdesc_ring /\ frames' = frames
        /\ pc'[c] = "loop" =>
               tail'[c] \in {RDT, AllOnes} /\ head[c] # AllOnes /\ tail'[c] # AllOnes
        /\ Oldest' = Oldest /\ Holding(c) /\ Holding(c)'
    BY <1>0, <1>6 DEF read_tail, goto, ixgbe_read32, Holding, regs, Oldest, After,
                      AllOnes, N
  <2>2. \A d \in Callers :
            pc'[d] \in {"tail", "loop", "write"} => d = c /\ pc'[d] = "loop"
    BY <1>4, <2>1
  <2>3. HeadBehind'
    BY <1>0, <2>1, <2>2 DEF HeadBehind
  <2>4. ASSUME pc'[c] = "loop"
        PROVE  /\ head[c] \in 0 .. N - 1 /\ tail'[c] \in 0 .. N - 1
               /\ nt(c)' = Oldest
               /\ Ahead(Oldest, Oldest, N) <= Ahead(Oldest, head[c], N)
    <3>1. /\ head[c] \in 0 .. N - 1 /\ tail'[c] = RDT /\ nt(c)' = Oldest
      BY <1>0, <2>1, <2>4 DEF nt, Oldest, After
    <3>2. Ahead(Oldest, Oldest, N) = 0 /\ Ahead(Oldest, head[c], N) \in 0 .. N - 1
      BY <1>0, <3>1, Distances, AheadToSelf
    <3> QED
      BY <1>0, <3>1, <3>2
  <2>5. TailBehind'
    BY <1>0, <2>1, <2>2, <2>4 DEF TailBehind
  <2> QED
    BY <1>0, <2>1, <2>3, <2>5 DEF Arrived, WindowIn
<1>7. ASSUME NEW c \in Callers, recv_frame(c)
      PROVE  HeadBehind' /\ TailBehind' /\ Arrived'
  <2>1. /\ pc[c] = "loop" /\ pc' = pc /\ head' = head /\ head[c] # nt(c)
        /\ tail' = [tail EXCEPT ![c] = nt(c)]
        /\ RDH' = RDH /\ RDT' = RDT /\ rdesc_ring' = rdesc_ring
        /\ Oldest' = Oldest /\ Holding(c) /\ Holding(c)'
    BY <1>7 DEF recv_frame, Holding, regs, Oldest, After
  <2>2. \A d \in Callers : pc[d] \in {"tail", "loop", "write"} => d = c
    BY <1>4, <2>1
  <2>3. /\ nt(c) \in 0 .. N - 1
        /\ Ahead(Oldest, After(nt(c)), N) <= Ahead(Oldest, head[c], N)
    BY <2>1, NextHasArrived
  <2>4. HeadBehind'
    BY <1>0, <2>1 DEF HeadBehind
  <2>5. tail'[c] = nt(c) /\ nt(c)' = After(nt(c)) /\ head[c] \in 0 .. N - 1
    BY <1>0, <2>1 DEF nt, After, TailBehind
  <2>6. TailBehind'
    BY <1>0, <2>1, <2>2, <2>3, <2>5 DEF TailBehind
  <2>7. Arrived'
    BY <1>0, <1>7, <2>1, BatchFits DEF Arrived, WindowIn
  <2> QED
    BY <2>4, <2>6, <2>7
<1>8. ASSUME NEW c \in Callers, recv_last(c)
      PROVE  HeadBehind' /\ TailBehind' /\ Arrived'
  <2>1. /\ pc[c] = "loop" /\ pc'[c] = "write" /\ head[c] = nt(c)
        /\ RDH' = RDH /\ RDT' = RDT /\ UNCHANGED <<rdesc_ring, head, tail, frames>>
        /\ Oldest' = Oldest /\ Holding(c) /\ Holding(c)'
    BY <1>0, <1>8 DEF recv_last, goto, Holding, regs, Oldest, After
  <2>2. \A d \in Callers : pc'[d] \in {"tail", "loop", "write"} => d = c
    BY <1>4, <2>1
  <2>3. HeadBehind' /\ TailBehind'
    BY <1>0, <2>1, <2>2 DEF HeadBehind, TailBehind, nt
  <2> QED
    BY <1>0, <2>1, <2>3 DEF Arrived, WindowIn
<1>9. ASSUME NEW c \in Callers, write_tail(c)
      PROVE  HeadBehind' /\ TailBehind' /\ Arrived'
  <2>1. /\ pc[c] = "write" /\ pc'[c] = "end"
        /\ RDH' = RDH /\ RDT' \in {RDT, tail[c]} /\ UNCHANGED <<rdesc_ring, frames>>
        /\ Holding(c) /\ Holding(c)'
    BY <1>0, <1>9 DEF write_tail, goto, Holding, locals
  <2>2. \A d \in Callers : pc'[d] \notin {"tail", "loop", "write"}
    BY <1>4, <2>1
  <2>3. HeadBehind' /\ TailBehind'
    BY <2>2 DEF HeadBehind, TailBehind
  <2>4. CASE RDT' = RDT
    <3>1. Oldest' = Oldest
      BY <2>4 DEF Oldest, After
    <3> QED
      BY <1>0, <2>1, <2>3, <3>1 DEF Arrived, WindowIn
  <2>5. CASE RDT' = tail[c]
    <3>1. Oldest' = head[c]
      BY <1>0, <2>1, <2>5 DEF TailBehind, Oldest, After, nt
    <3>2. head[c] \in 0 .. N - 1
      BY <1>0, <2>1 DEF TailBehind
    <3>3. /\ Ahead(Oldest, head[c], N) <= Ahead(Oldest, RDH, N)
          /\ Ahead(Oldest, head[c], N) \in 0 .. N - 1
          /\ Ahead(Oldest, RDH, N) \in 0 .. N - 1
          /\ (Oldest + Ahead(Oldest, head[c], N)) % N = head[c]
      BY <1>0, <2>1, <3>2, Distances DEF HeadBehind
    <3>4. Ahead(head[c], RDH, N) = Ahead(Oldest, RDH, N) - Ahead(Oldest, head[c], N)
      BY <1>0, <3>2, <3>3, AheadBetween
    <3>5. ASSUME NEW k \in 0 .. Ahead(head[c], RDH, N) - 1
          PROVE  rdesc_ring[(head[c] + k) % N] \in Packets
      <4> DEFINE j == Ahead(Oldest, head[c], N)
                 m == Ahead(Oldest, RDH, N)
      <4>0. /\ j \in 0 .. N - 1 /\ m \in 0 .. N - 1 /\ k \in 0 .. m - j - 1
            /\ N \in Nat \ {0} /\ Oldest \in 0 .. N - 1 /\ (Oldest + j) % N = head[c]
        BY <1>0, <3>3, <3>4
      <4> HIDE DEF j, m
      <4>1. /\ j + k \in 0 .. m - 1 /\ j \in 0 .. N /\ k \in 0 .. N /\ j + k <= N
            /\ Oldest + j + k = Oldest + (j + k)
        BY <4>0
      <4>2. (head[c] + k) % N = (Oldest + (j + k)) % N
        <5>1. (((Oldest + j) % N) + k) % N = (Oldest + j + k) % N
          BY <4>0, <4>1, Steps
        <5> QED
          BY <4>0, <4>1, <5>1
      <4>3. rdesc_ring[(Oldest + (j + k)) % N] \in Packets
        BY <1>0, <4>1 DEF Arrived, WindowIn, m
      <4> QED
        BY <4>2, <4>3
    <3> QED
      BY <1>0, <2>1, <2>3, <3>1, <3>5 DEF Arrived, WindowIn
  <2> QED
    BY <2>1, <2>4, <2>5
<1> QED
  BY <1>1, <1>2, <1>3, <1>5, <1>6, <1>7, <1>8, <1>9 DEF RecvNext, holder

(* The invariant holds in every state.                                     *)
THEOREM RecvInvariant == RecvSpec => []RecvIInv
<1>1. RecvIInv /\ [RecvNext]_vars => RecvIInv'
  <2> SUFFICES ASSUME RecvIInv, [RecvNext]_vars PROVE RecvIInv'
    OBVIOUS
  <2>1. RecvTypeOK' /\ OneHolder'
    BY RecvTypeStep, RecvHolderStep
  <2> QED
    BY <2>1, RecvRingStep DEF RecvIInv
<1> QED
  BY <1>1, RecvInitInv, PTL DEF RecvSpec

(* The driver's variables and registers keep their types, and the batch    *)
(* stays within its array of num frames (ixgbe_recv_frames).               *)
THEOREM RecvTypes == RecvSpec => []RecvTypeOK
<1>1. RecvIInv => RecvTypeOK
  BY DEF RecvIInv
<1> QED
  BY <1>1, RecvInvariant, PTL
-----------------------------------------------------------------------------
(* What the abstract queue holds is made of packets.                       *)
LEMMA QueueOfPackets ==
    ASSUME RecvIInv
    PROVE  /\ Queue \in Seq(Packets)
           /\ Len(Queue) = Ahead(Oldest, RDH, N)
           /\ Ahead(Oldest, RDH, N) \in 0 .. N - 1
<1>1. /\ N \in Nat \ {0} /\ RDH \in 0 .. N - 1 /\ Oldest \in 0 .. N - 1
      /\ Ahead(Oldest, RDH, N) \in 0 .. N - 1
  <2>1. N \in Nat \ {0} /\ RDH \in 0 .. N - 1 /\ RDT \in 0 .. N - 1
    BY Indices DEF RecvIInv
  <2>2. Oldest \in 0 .. N - 1
    BY <2>1, AfterIs DEF Oldest
  <2> QED
    BY <2>1, <2>2, Distances DEF RecvIInv
<1> DEFINE n == Ahead(Oldest, RDH, N)
<1>2. n \in Nat /\ WindowIn(rdesc_ring, Oldest, n, N, Packets)
  BY <1>1 DEF RecvIInv, Arrived
<1>3. Window(rdesc_ring, Oldest, n, N) \in Seq(Packets) /\ Len(Window(rdesc_ring, Oldest, n, N)) = n
  <2> HIDE DEF n
  <2> QED
    BY <1>1, <1>2, WindowSeq
<1> QED
  BY <1>1, <1>3, QueueIsWindow DEF RecvIInv

(* A packet that arrives joins the queue at its end.                       *)
LEMMA AdapterPuts ==
    ASSUME RecvIInv, RecvIInv', NEW packet \in Packets, nic_recv(packet)
    PROVE  Ring!Put
<1> DEFINE n == Ahead(Oldest, RDH, N)
<1>1. /\ N \in Nat \ {0} /\ Oldest \in 0 .. N - 1 /\ Oldest' = Oldest /\ N' = N
      /\ n \in 0 .. N - 1 /\ Ahead(Oldest, RDH', N) = n + 1
      /\ \A k \in 0 .. n - 1 :
             rdesc_ring'[(Oldest + k) % N] = rdesc_ring[(Oldest + k) % N]
  BY Indices, AdapterAdvances DEF RecvIInv, N
<1>2. /\ Queue = Window(rdesc_ring, Oldest, n, N) /\ Len(Queue) = n
  BY QueueIsWindow, QueueOfPackets DEF RecvIInv
<1>3. Queue' = Window(rdesc_ring', Oldest, n + 1, N)
  BY <1>1, QueueIsWindow DEF RecvIInv
<1>4. /\ Queue' \in Seq(Packets) /\ Len(Queue') = n + 1 /\ n + 1 \in 0 .. N - 1
  <2>1. WindowIn(rdesc_ring', Oldest, n + 1, N, Packets)
    BY <1>1 DEF RecvIInv, Arrived, WindowIn, N
  <2>2. n + 1 \in Nat
    BY <1>1
  <2>3. /\ Window(rdesc_ring', Oldest, n + 1, N) \in Seq(Packets)
        /\ Len(Window(rdesc_ring', Oldest, n + 1, N)) = n + 1
    <3>1. N \in Nat \ {0} /\ Oldest \in 0 .. N - 1
      BY <1>1
    <3> DEFINE m == n + 1
               r == rdesc_ring'
    <3>2. m \in Nat /\ WindowIn(r, Oldest, m, N, Packets)
      BY <2>1, <2>2
    <3> HIDE DEF m, r
    <3>3. Window(r, Oldest, m, N) \in Seq(Packets) /\ Len(Window(r, Oldest, m, N)) = m
      BY <3>1, <3>2, WindowSeq
    <3> QED
      BY <3>3 DEF m, r
  <2>4. n + 1 \in 0 .. N - 1
    <3>1. Ahead(Oldest, RDH', N) \in 0 .. N - 1
      <4>1. RDH' \in 0 .. N - 1
        BY RecvAssumption DEF RecvIInv, RecvTypeOK, Descriptors, N
      <4> QED
        BY <1>1, <4>1, Distances DEF RecvIInv
    <3> QED
      BY <1>1, <3>1
  <2> QED
    BY <1>3, <2>3, <2>4
<1>5. Window(rdesc_ring', Oldest, n, N) = Window(rdesc_ring, Oldest, n, N)
  <2>1. ASSUME NEW k \in 1 .. n
        PROVE  rdesc_ring'[(Oldest + k - 1) % N] = rdesc_ring[(Oldest + k - 1) % N]
    <3>1. k - 1 \in 0 .. n - 1 /\ Oldest + (k - 1) = Oldest + k - 1
      BY <1>1
    <3> QED
      BY <1>1, <3>1
  <2> QED
    BY <2>1 DEF Window
<1>6. SubSeq(Window(rdesc_ring', Oldest, n + 1, N), 1, n) = Window(rdesc_ring', Oldest, n, N)
  <2>1. n + 1 \in Nat /\ n \in 0 .. n + 1
    BY <1>1
  <2> HIDE DEF n
  <2> QED
    BY <1>1, <2>1, WindowPrefix
<1>7. Len(Queue') \in Len(Queue) + 1 .. num_rdesc - 1
  BY <1>1, <1>2, <1>4 DEF N
<1> QED
  BY <1>2, <1>4, <1>3, <1>5, <1>6, <1>7 DEF Ring!Put

(* A write of RDT gives back the packets up to the head the poller has     *)
(* read.                                                                   *)
LEMMA GivesBack ==
    ASSUME RecvIInv, RecvIInv', NEW c \in Callers, write_tail(c), RDT' = tail[c]
    PROVE  /\ Ahead(Oldest, head[c], N) \in 0 .. Len(Queue)
           /\ Queue' = SubSeq(Queue, Ahead(Oldest, head[c], N) + 1, Len(Queue))
<1> DEFINE m == Ahead(Oldest, RDH, N)
           n == Ahead(Oldest, head[c], N)
<1>1. /\ pc[c] = "write" /\ RDH' = RDH /\ rdesc_ring' = rdesc_ring
      /\ RecvTypeOK /\ N \in Nat \ {0} /\ N' = N /\ RDH \in 0 .. N - 1
      /\ RDT \in 0 .. N - 1 /\ head[c] \in 0 .. N - 1 /\ n <= m
      /\ head[c] = nt(c)
  BY Indices DEF RecvIInv, HeadBehind, TailBehind, N, write_tail, locals
<1>2. Oldest \in 0 .. N - 1 /\ Oldest' = head[c]
  BY <1>1, AfterIs DEF Oldest, After, nt
<1>3. /\ m \in 0 .. N - 1 /\ n \in 0 .. N - 1 /\ (Oldest + n) % N = head[c]
  BY <1>1, <1>2, Distances
<1>4. Ahead(head[c], RDH, N) = m - n
  BY <1>1, <1>2, AheadBetween
<1>5. Queue = Window(rdesc_ring, Oldest, m, N) /\ Len(Queue) = m
  BY QueueIsWindow, QueueOfPackets DEF RecvIInv
<1>6. Queue' = Window(rdesc_ring, (Oldest + n) % N, m - n, N)
  BY <1>1, <1>2, <1>3, <1>4, QueueIsWindow DEF RecvIInv
<1>7. SubSeq(Window(rdesc_ring, Oldest, m, N), n + 1, m)
          = Window(rdesc_ring, (Oldest + n) % N, m - n, N)
  <2>1. m \in 0 .. N /\ n \in 0 .. m
    BY <1>1, <1>3
  <2>2. N \in Nat \ {0} /\ Oldest \in 0 .. N - 1
    BY <1>1, <1>2
  <2> HIDE DEF m, n
  <2> QED
    BY <2>1, <2>2, WindowSuffix
<1>8. n \in 0 .. Len(Queue)
  BY <1>1, <1>3, <1>5
<1> QED
  BY <1>5, <1>6, <1>7, <1>8

(* It takes packets from the queue's front, if any.                        *)
LEMMA WriteTakes ==
    ASSUME RecvIInv, RecvIInv', NEW c \in Callers, write_tail(c)
    PROVE  Ring!Take \/ UNCHANGED Queue
<1>1. RDH' = RDH /\ rdesc_ring' = rdesc_ring /\ RDT' \in {RDT, tail[c]}
  BY DEF write_tail, locals
<1>2. CASE RDT' = RDT
  BY <1>1, <1>2 DEF Queue
<1>3. CASE RDT' = tail[c]
  <2>1. PICK n : n = Ahead(Oldest, head[c], N)
    OBVIOUS
  <2>2. n \in 0 .. Len(Queue) /\ Queue' = SubSeq(Queue, n + 1, Len(Queue))
    BY <1>3, <2>1, GivesBack
  <2>3. Len(Queue) \in Nat /\ SubSeq(Queue, 1, Len(Queue)) = Queue
    BY QueueOfPackets
  <2>4. CASE n = 0
    BY <2>2, <2>3, <2>4
  <2>5. CASE n # 0
    BY <2>2, <2>3, <2>5 DEF Ring!Take
  <2> QED
    BY <2>4, <2>5
<1> QED
  BY <1>1, <1>2, <1>3

(* Every step of the ring is a step of the queue, or none.                 *)
LEMMA RecvStepRefines ==
    ASSUME RecvIInv, RecvIInv', [RecvNext]_vars
    PROVE  [Ring!Next]_Queue
<1>1. ASSUME NEW packet \in Packets, nic_recv(packet)
      PROVE  [Ring!Next]_Queue
  BY <1>1, AdapterPuts DEF Ring!Next
<1>2. ASSUME NEW c \in Callers, write_tail(c)
      PROVE  [Ring!Next]_Queue
  BY <1>2, WriteTakes DEF Ring!Next
<1>3. ASSUME UNCHANGED <<regs, rdesc_ring>>
      PROVE  UNCHANGED Queue
  BY <1>3 DEF Queue, regs
<1>4. CASE UNCHANGED vars \/ ixgbe_setup_recv \/ nic_removed
  BY <1>3, <1>4 DEF vars, ixgbe_setup_recv, nic_removed
<1>5. ASSUME NEW c \in Callers,
             ixgbe_recv_frames(c) \/ spinlock_lock(c) \/ read_head(c) \/ read_tail(c)
             \/ recv_frame(c) \/ recv_last(c) \/ spinlock_unlock(c)
      PROVE  UNCHANGED Queue
  BY <1>3, <1>5 DEF ixgbe_recv_frames, spinlock_lock, read_head, read_tail,
                    recv_frame, recv_last, spinlock_unlock
<1> QED
  BY <1>1, <1>2, <1>4, <1>5 DEF RecvNext, holder

(* ixgbe_recv_frames and the adapter implement the bounded queue, for      *)
(* every number of descriptors and of processors that poll.                *)
THEOREM RecvRefines == RecvSpec => RingSpec
<1>1. RecvInit => Ring!Init
  <2> SUFFICES ASSUME RecvInit PROVE Queue = <<>>
    BY DEF Ring!Init
  <2>1. RecvIInv
    BY RecvInitInv
  <2>2. Ahead(Oldest, RDH, N) = 0
    <3>1. Oldest = 0 /\ RDH = 0 /\ N \in Nat \ {0} /\ 0 \in 0 .. N - 1
      BY <2>1, Indices, AfterIs DEF RecvInit, RecvIInv, Oldest, N
    <3> QED
      BY <3>1, AheadToSelf
  <2> QED
    BY <2>1, <2>2, QueueOfPackets
<1>2. RecvIInv /\ RecvIInv' /\ [RecvNext]_vars => [Ring!Next]_Queue
  BY RecvStepRefines
<1> QED
  BY <1>1, <1>2, RecvInvariant, PTL DEF RecvSpec, RingSpec, Ring!Spec
-----------------------------------------------------------------------------
(* The packets a poller's loop is through with.                            *)
Passed(c) == Window(rdesc_ring, Oldest, Ahead(Oldest, nt(c), N), N)

(* They are what was handed over and what its batch refers to, without the *)
(* faulty ones, and the batch refers to none that is still to come.        *)
PollTells(c) ==
    /\ pc[c] \in {"idle", "lock", "head", "tail"} => frames[c] = <<>> /\ given[c] = <<>>
    /\ pc[c] = "loop" =>
           /\ \A k \in 1 .. Len(frames[c]) : \E j \in 0 .. Ahead(Oldest, nt(c), N) - 1 :
                  frames[c][k] = (Oldest + j) % N
           /\ given[c] \o Contents(c) = Without(Passed(c), Faulty)
    /\ pc[c] = "write" => given[c] = Without(Passed(c), Faulty)

PollsTell == \A c \in Callers : PollTells(c)

(* What the descriptors of a batch hold.                                   *)
Held(refs) == [k \in 1 .. Len(refs) |-> rdesc_ring[refs[k]]]

LEMMA HeldFacts ==
    ASSUME NEW b \in Seq(Descriptors), NEW d \in Descriptors
    PROVE  /\ Held(<<>>) = <<>>
           /\ Held(<<d>>) = <<rdesc_ring[d]>>
           /\ Held(b \o <<d>>) = Append(Held(b), rdesc_ring[d])
<1>1. Held(<<>>) = <<>> /\ Held(<<d>>) = <<rdesc_ring[d]>>
  BY DEF Held
<1>2. Held(b \o <<d>>) = Append(Held(b), rdesc_ring[d])
  <2>1. PICK a : a = b \o <<d>>
    OBVIOUS
  <2>2. /\ Len(b) \in Nat /\ Len(a) = Len(b) + 1 /\ a[Len(b) + 1] = d
        /\ \A k \in 1 .. Len(b) : a[k] = b[k]
    BY <2>1
  <2>3. PICK n \in Nat : n = Len(b)
    BY <2>2
  <2>4. PICK h : h = [k \in 1 .. n |-> rdesc_ring[b[k]]]
    OBVIOUS
  <2>5. Append(h, rdesc_ring[d])
            = [k \in 1 .. n + 1 |-> IF k = n + 1 THEN rdesc_ring[d] ELSE h[k]]
    BY <2>4
  <2>6. ASSUME NEW k \in 1 .. n + 1
        PROVE  rdesc_ring[a[k]] = IF k = n + 1 THEN rdesc_ring[d] ELSE h[k]
    BY <2>2, <2>3, <2>4
  <2> QED
    BY <2>1, <2>2, <2>3, <2>4, <2>5, <2>6 DEF Held
<1> QED
  BY <1>1, <1>2

(* What a poller has passed arrived before the head it has read, where the *)
(* adapter does not write.                                                 *)
LEMMA PassedFacts ==
    ASSUME RecvIInv, NEW c \in Callers, pc[c] \in {"loop", "write"}
    PROVE  /\ N \in Nat \ {0} /\ Oldest \in 0 .. N - 1
           /\ Ahead(Oldest, nt(c), N) \in 0 .. N - 1
           /\ Ahead(Oldest, nt(c), N) <= Ahead(Oldest, RDH, N)
           /\ (Oldest + Ahead(Oldest, nt(c), N)) % N = nt(c)
           /\ Passed(c) \in Seq(Packets)
<1>1. /\ RecvTypeOK /\ N \in Nat \ {0} /\ RDT \in 0 .. N - 1 /\ RDH \in 0 .. N - 1
      /\ head[c] \in 0 .. N - 1 /\ tail[c] \in 0 .. N - 1 /\ head[c] # AllOnes
      /\ Ahead(Oldest, head[c], N) <= Ahead(Oldest, RDH, N)
      /\ Ahead(Oldest, nt(c), N) <= Ahead(Oldest, head[c], N)
      /\ nt(c) = After(tail[c])
  BY Indices DEF RecvIInv, HeadBehind, TailBehind, nt, After
<1>2. nt(c) \in 0 .. N - 1 /\ Oldest \in 0 .. N - 1
  BY <1>1, AfterIs DEF Oldest
<1>3. /\ Ahead(Oldest, nt(c), N) \in 0 .. N - 1
      /\ Ahead(Oldest, head[c], N) \in 0 .. N - 1
      /\ Ahead(Oldest, RDH, N) \in 0 .. N - 1
      /\ (Oldest + Ahead(Oldest, nt(c), N)) % N = nt(c)
  BY <1>1, <1>2, Distances
<1>4. PICK n \in 0 .. N - 1 : n = Ahead(Oldest, nt(c), N)
  BY <1>3
<1>5. n <= Ahead(Oldest, RDH, N)
  BY <1>1, <1>3, <1>4
<1>6. WindowIn(rdesc_ring, Oldest, n, N, Packets)
  BY <1>3, <1>5 DEF RecvIInv, Arrived, WindowIn
<1>7. n \in Nat
  BY <1>1
<1>8. Passed(c) \in Seq(Packets)
  BY <1>1, <1>2, <1>4, <1>6, <1>7, WindowSeq DEF Passed
<1> QED
  BY <1>1, <1>2, <1>3, <1>4, <1>5, <1>8

(* Steps that leave a poller and the ring alone.                           *)
LEMMA PollUntouched ==
    ASSUME NEW c \in Callers, PollTells(c), RDT' = RDT, rdesc_ring' = rdesc_ring,
           pc'[c] = pc[c], tail'[c] = tail[c], frames'[c] = frames[c], given'[c] = given[c]
    PROVE  PollTells(c)'
<1>1. nt(c)' = nt(c) /\ Oldest' = Oldest
  BY DEF nt, Oldest, After
<1>2. Passed(c)' = Passed(c)
  BY <1>1 DEF Passed, Window, Ahead, N
<1>3. Contents(c)' = Contents(c)
  BY DEF Contents
<1> QED
  BY <1>1, <1>2, <1>3 DEF PollTells, Ahead, N

(* The adapter writes behind what a poller has passed.                     *)
LEMMA AdapterKeepsPolls ==
    ASSUME RecvIInv, NEW packet \in Packets, nic_recv(packet), NEW c \in Callers, PollTells(c)
    PROVE  PollTells(c)'
<1>1. UNCHANGED <<pc, tail, frames, given>> /\ RDT' = RDT
  BY DEF nic_recv, locals
<1>2. CASE pc[c] \notin {"loop", "write"}
  BY <1>1, <1>2 DEF PollTells
<1>3. CASE pc[c] \in {"loop", "write"}
  <2>1. PICK n \in 0 .. N - 1 : n = Ahead(Oldest, nt(c), N)
    BY <1>3, PassedFacts
  <2>2. /\ N \in Nat \ {0} /\ Oldest \in 0 .. N - 1 /\ n \in Nat
        /\ n <= Ahead(Oldest, RDH, N) /\ Ahead(Oldest, RDH, N) \in 0 .. N - 1
    BY <1>3, <2>1, PassedFacts, AdapterAdvances DEF RecvIInv
  <2>3. \A k \in 0 .. n - 1 : rdesc_ring'[(Oldest + k) % N] = rdesc_ring[(Oldest + k) % N]
    BY <2>2, AdapterAdvances DEF RecvIInv
  <2>4. nt(c)' = nt(c) /\ Oldest' = Oldest
    BY <1>1 DEF nt, Oldest, After
  <2>5. Passed(c)' = Passed(c)
    <3>1. PICK q : q = rdesc_ring'
      OBVIOUS
    <3>2. SameIn(rdesc_ring, q, Oldest, n, N)
      BY <2>3, <3>1 DEF SameIn
    <3>3. Window(q, Oldest, n, N) = Window(rdesc_ring, Oldest, n, N)
      BY <2>2, <3>2, WindowSame
    <3> QED
      BY <2>1, <2>4, <3>1, <3>3 DEF Passed, N
  <2>6. CASE pc[c] = "loop"
    <3>1. ASSUME NEW k \in 1 .. Len(frames[c])
          PROVE  /\ \E j \in 0 .. n - 1 : frames[c][k] = (Oldest + j) % N
                 /\ rdesc_ring'[frames[c][k]] = rdesc_ring[frames[c][k]]
      <4>1. \E j \in 0 .. n - 1 : frames[c][k] = (Oldest + j) % N
        BY <2>1, <2>6 DEF PollTells
      <4> QED
        BY <2>3, <4>1
    <3>2. Contents(c)' = Contents(c)
      BY <1>1, <3>1 DEF Contents
    <3> QED
      BY <1>1, <2>1, <2>4, <2>5, <2>6, <3>1, <3>2 DEF PollTells, N
  <2>7. CASE pc[c] = "write"
    BY <1>1, <2>5, <2>7 DEF PollTells
  <2> QED
    BY <1>3, <2>6, <2>7
<1> QED
  BY <1>2, <1>3

(* The loop begins with nothing.                                           *)
LEMMA PollBegins ==
    ASSUME RecvIInv, NEW c \in Callers, PollTells(c), read_tail(c)
    PROVE  PollTells(c)'
<1>1. /\ pc[c] = "tail" /\ pc'[c] \in {"loop", "end"} /\ frames' = frames /\ given' = given
      /\ RDT' = RDT /\ rdesc_ring' = rdesc_ring
      /\ pc'[c] = "loop" => tail'[c] \in {RDT, AllOnes} /\ tail'[c] <= num_rdesc
  <2>1. /\ pc \in [Callers -> {"idle", "lock", "head", "tail", "loop", "write", "end"}]
        /\ tail \in [Callers -> Descriptors \cup {AllOnes}] /\ num_rdesc \in Nat
        /\ RDT \in Nat
    BY RecvAssumption DEF RecvIInv, RecvTypeOK, Descriptors
  <2> QED
    BY <2>1 DEF read_tail, goto, ixgbe_read32, regs, AllOnes
<1>2. CASE pc'[c] = "loop"
  <2>1. N \in Nat \ {0} /\ RDT \in 0 .. N - 1 /\ tail'[c] = RDT
    BY <1>1, <1>2, Indices DEF RecvIInv, AllOnes, N
  <2>2. nt(c)' = Oldest /\ Oldest' = Oldest
    BY <1>1, <2>1 DEF nt, Oldest, After
  <2>3. Ahead(Oldest, Oldest, N) = 0
    BY <2>1, AfterIs, AheadToSelf DEF Oldest
  <2>4. Passed(c)' = <<>>
    BY <2>2, <2>3 DEF Passed, Window, N
  <2>5. frames'[c] = <<>> /\ given'[c] = <<>>
    BY <1>1 DEF PollTells
  <2>6. Contents(c)' = <<>>
    BY <2>5 DEF Contents
  <2>7. <<>> \o <<>> = Without(<<>>, Faulty)
    BY WithoutEmpty
  <2> QED
    BY <1>2, <2>4, <2>5, <2>6, <2>7 DEF PollTells
<1>3. CASE pc'[c] = "end"
  BY <1>3 DEF PollTells
<1> QED
  BY <1>1, <1>2, <1>3

(* The batch as it is after a round, kept being what joins it.             *)
LEMMA BatchKeepsAll ==
    ASSUME RecvIInv, NEW c \in Callers, NEW d \in Descriptors, rdesc_ring[d] \in Packets,
           NEW kept \in {<<>>, <<d>>}, batch(c, kept)
    PROVE  /\ given'[c] \o Held(frames'[c])
                  = IF kept = <<>> THEN given[c] \o Contents(c)
                    ELSE Append(given[c] \o Contents(c), rdesc_ring[d])
           /\ \A k \in 1 .. Len(frames'[c]) :
                  \/ frames'[c][k] = d /\ kept = <<d>>
                  \/ \E l \in 1 .. Len(frames[c]) : frames'[c][k] = frames[c][l]
<1>1. /\ frames \in [Callers -> Seq(Descriptors)] /\ given \in [Callers -> Seq(Packets)]
      /\ Contents(c) \in Seq(Packets)
  BY ContentsArePackets DEF RecvIInv, RecvTypeOK
<1>2. PICK b \in Seq(Descriptors) : b = frames[c]
  BY <1>1
<1>3. PICK g \in Seq(Packets) : g = given[c]
  BY <1>1
<1>4. PICK h \in Seq(Packets) : h = Contents(c)
  BY <1>1
<1>5. h = Held(b)
  BY <1>2, <1>4 DEF Contents, Held
<1>6. /\ Held(<<>>) = <<>> /\ Held(<<d>>) = <<rdesc_ring[d]>>
      /\ Held(b \o <<d>>) = Append(h, rdesc_ring[d])
  BY <1>5, HeldFacts
<1>7. <<d>> # <<>>
  OBVIOUS
<1>8. CASE Len(b) = num
  <2>1. frames'[c] = kept /\ given'[c] = g \o h
    BY <1>1, <1>2, <1>3, <1>4, <1>8 DEF batch, hand_over
  <2>2. CASE kept = <<>>
    <3>1. (g \o h) \o <<>> = g \o h
      OBVIOUS
    <3>2. frames'[c] = <<>>
      BY <2>1, <2>2
    <3>3. given'[c] \o Held(frames'[c]) = g \o h
      BY <1>6, <2>1, <3>1, <3>2
    <3>4. 1 .. Len(frames'[c]) = {}
      BY <3>2
    <3> QED
      BY <1>3, <1>4, <2>2, <3>3, <3>4
  <2>3. CASE kept = <<d>>
    <3>1. (g \o h) \o <<rdesc_ring[d]>> = Append(g \o h, rdesc_ring[d])
      OBVIOUS
    <3>2. given'[c] \o Held(frames'[c]) = Append(g \o h, rdesc_ring[d])
      BY <1>6, <2>1, <2>3, <3>1
    <3>3. \A k \in 1 .. Len(frames'[c]) : frames'[c][k] = d
      BY <2>1, <2>3
    <3> QED
      BY <1>3, <1>4, <1>7, <2>3, <3>2, <3>3
  <2> QED
    BY <2>2, <2>3
<1>9. CASE Len(b) # num
  <2>1. frames'[c] = b \o kept /\ given'[c] = g
    BY <1>1, <1>2, <1>3, <1>9 DEF batch
  <2>2. CASE kept = <<>>
    <3>1. b \o <<>> = b
      OBVIOUS
    <3> QED
      BY <1>2, <1>3, <1>4, <1>5, <2>1, <2>2, <3>1
  <2>3. CASE kept = <<d>>
    <3>1. g \o Append(h, rdesc_ring[d]) = Append(g \o h, rdesc_ring[d])
      OBVIOUS
    <3>2. ASSUME NEW k \in 1 .. Len(b \o <<d>>)
          PROVE  (b \o <<d>>)[k] = d \/ \E l \in 1 .. Len(b) : (b \o <<d>>)[k] = b[l]
      <4>1. Len(b) \in Nat /\ Len(b \o <<d>>) = Len(b) + 1
        OBVIOUS
      <4>2. k = Len(b) + 1 => (b \o <<d>>)[k] = d
        OBVIOUS
      <4>3. k \in 1 .. Len(b) => (b \o <<d>>)[k] = b[k]
        OBVIOUS
      <4> QED
        BY <4>1, <4>2, <4>3
    <3>3. frames'[c] = b \o <<d>>
      BY <2>1, <2>3
    <3>4. Held(frames'[c]) = Append(h, rdesc_ring[d])
      BY <1>6, <3>3
    <3>5. given'[c] \o Held(frames'[c]) = Append(g \o h, rdesc_ring[d])
      BY <2>1, <3>1, <3>4
    <3>6. ASSUME NEW k \in 1 .. Len(frames'[c])
          PROVE  \/ frames'[c][k] = d
                 \/ \E l \in 1 .. Len(frames[c]) : frames'[c][k] = frames[c][l]
      BY <1>2, <3>2, <3>3
    <3> QED
      BY <1>3, <1>4, <1>7, <2>3, <3>5, <3>6
  <2> QED
    BY <2>2, <2>3
<1> QED
  BY <1>2, <1>8, <1>9

(* A round passes one packet, and keeps it unless it is faulty.            *)
LEMMA RoundTells ==
    ASSUME RecvIInv, NEW c \in Callers, PollTells(c), recv_frame(c)
    PROVE  PollTells(c)'
<1>1. /\ pc[c] = "loop" /\ pc' = pc /\ head[c] # nt(c) /\ RDT' = RDT
      /\ rdesc_ring' = rdesc_ring /\ tail'[c] = nt(c)
      /\ batch(c, IF rdesc_ring[nt(c)] \in Faulty THEN <<>> ELSE <<nt(c)>>)
  <2>1. tail \in [Callers -> Descriptors \cup {AllOnes}]
    BY DEF RecvIInv, RecvTypeOK
  <2> QED
    BY <2>1 DEF recv_frame, regs
<1>2. /\ N \in Nat \ {0} /\ Oldest \in 0 .. N - 1 /\ nt(c) \in 0 .. N - 1
      /\ Ahead(Oldest, nt(c), N) \in 0 .. N - 1
      /\ (Oldest + Ahead(Oldest, nt(c), N)) % N = nt(c)
      /\ Ahead(Oldest, After(nt(c)), N) = Ahead(Oldest, nt(c), N) + 1
      /\ rdesc_ring[nt(c)] \in Packets /\ Passed(c) \in Seq(Packets)
  BY <1>1, NextHasArrived, PassedFacts
<1>3. PICK n \in 0 .. N - 1 : n = Ahead(Oldest, nt(c), N)
  BY <1>2
<1>4. PICK d \in Descriptors : d = nt(c)
  BY <1>2 DEF Descriptors, N
<1>5. PICK packet \in Packets : packet = rdesc_ring[d]
  BY <1>2, <1>4
<1>6. nt(c)' = After(nt(c)) /\ Oldest' = Oldest
  BY <1>1 DEF nt, Oldest, After
<1>7. Ahead(Oldest, nt(c), N)' = n + 1
  BY <1>2, <1>3, <1>6 DEF N
<1>8. Passed(c)' = Append(Passed(c), packet)
  <2>1. SameIn(rdesc_ring, rdesc_ring, Oldest, n, N)
    BY DEF SameIn
  <2>2. /\ n \in Nat /\ N \in Nat \ {0} /\ Oldest \in 0 .. N - 1
        /\ rdesc_ring[(Oldest + n) % N] = packet
    <3>1. (Oldest + n) % N = d
      BY <1>2, <1>3, <1>4
    <3>2. n \in Nat
      BY <1>2
    <3> QED
      BY <1>2, <1>5, <3>1, <3>2
  <2>3. Window(rdesc_ring, Oldest, n + 1, N) = Append(Window(rdesc_ring, Oldest, n, N), packet)
    BY <2>1, <2>2, WindowGrows
  <2> QED
    BY <1>1, <1>3, <1>6, <1>7, <2>3 DEF Passed, N
<1>9. /\ given[c] \o Contents(c) = Without(Passed(c), Faulty)
      /\ \A k \in 1 .. Len(frames[c]) : \E j \in 0 .. n - 1 : frames[c][k] = (Oldest + j) % N
  BY <1>1, <1>3 DEF PollTells
<1>10. Without(Passed(c)', Faulty) = IF packet \in Faulty THEN given[c] \o Contents(c)
                                     ELSE Append(given[c] \o Contents(c), packet)
  <2>1. PICK s \in Seq(Packets) : s = Passed(c)
    BY <1>2
  <2>2. Without(Append(s, packet), Faulty)
            = IF packet \in Faulty THEN Without(s, Faulty) ELSE Append(Without(s, Faulty), packet)
    BY WithoutAppend
  <2>3. Without(s, Faulty) = given[c] \o Contents(c) /\ Passed(c)' = Append(s, packet)
    BY <1>8, <1>9, <2>1
  <2> QED
    BY <2>2, <2>3
<1>11. PICK kept \in {<<>>, <<d>>} : kept = IF packet \in Faulty THEN <<>> ELSE <<d>>
  OBVIOUS
<1>12. <<d>> # <<>>
  OBVIOUS
<1>13. batch(c, kept)
  BY <1>1, <1>4, <1>5, <1>11
<1>14. /\ given'[c] \o Held(frames'[c])
              = IF kept = <<>> THEN given[c] \o Contents(c)
                ELSE Append(given[c] \o Contents(c), packet)
       /\ \A k \in 1 .. Len(frames'[c]) :
              \/ frames'[c][k] = d
              \/ \E l \in 1 .. Len(frames[c]) : frames'[c][k] = frames[c][l]
  BY <1>5, <1>13, BatchKeepsAll
<1>15. Contents(c)' = Held(frames'[c])
  BY <1>1 DEF Contents, Held
<1>16. (given[c] \o Contents(c))' = Without(Passed(c)', Faulty)
  BY <1>10, <1>11, <1>12, <1>14, <1>15
<1>17. ASSUME NEW k \in 1 .. Len(frames'[c])
       PROVE  \E j \in 0 .. n : frames'[c][k] = (Oldest + j) % N
  <2>1. CASE frames'[c][k] = d
    BY <1>2, <1>3, <1>4, <2>1
  <2>2. ASSUME NEW l \in 1 .. Len(frames[c]), frames'[c][k] = frames[c][l]
        PROVE  \E j \in 0 .. n : frames'[c][k] = (Oldest + j) % N
    BY <1>9, <2>2
  <2> QED
    BY <1>14, <2>1, <2>2
<1>18. pc'[c] = "loop" /\ n + 1 - 1 = n
  BY <1>1
<1> QED
  BY <1>6, <1>7, <1>16, <1>17, <1>18 DEF PollTells, N

(* The last batch completes what the call hands over.                      *)
LEMMA LastTells ==
    ASSUME RecvIInv, NEW c \in Callers, PollTells(c), recv_last(c)
    PROVE  PollTells(c)'
<1>1. /\ pc[c] = "loop" /\ pc'[c] = "write" /\ RDT' = RDT
      /\ rdesc_ring' = rdesc_ring /\ tail' = tail
      /\ given'[c] = given[c] \o Contents(c)
  <2>1. /\ pc \in [Callers -> {"idle", "lock", "head", "tail", "loop", "write", "end"}]
        /\ given \in [Callers -> Seq(Packets)]
    BY DEF RecvIInv, RecvTypeOK
  <2> QED
    BY <2>1 DEF recv_last, hand_over, goto, regs
<1>2. nt(c)' = nt(c) /\ Oldest' = Oldest
  BY <1>1 DEF nt, Oldest, After
<1>3. Passed(c)' = Passed(c)
  BY <1>1, <1>2 DEF Passed, N
<1> QED
  BY <1>1, <1>3 DEF PollTells

LEMMA PollsTellStep ==
    ASSUME RecvIInv, PollsTell, [RecvNext]_vars
    PROVE  PollsTell'
<1>0. /\ pc \in [Callers -> {"idle", "lock", "head", "tail", "loop", "write", "end"}]
      /\ tail \in [Callers -> Descriptors \cup {AllOnes}]
      /\ frames \in [Callers -> Seq(Descriptors)] /\ given \in [Callers -> Seq(Packets)]
      /\ \A c \in Callers : PollTells(c)
  BY DEF RecvIInv, RecvTypeOK, PollsTell
<1> USE DEF goto
<1>1. CASE UNCHANGED vars \/ ixgbe_setup_recv \/ nic_removed
  <2>1. RDT' = RDT /\ UNCHANGED <<rdesc_ring, pc, tail, frames, given>>
    BY <1>1 DEF vars, ixgbe_setup_recv, nic_removed, regs, locals
  <2> QED
    BY <1>0, <2>1, PollUntouched DEF PollsTell
<1>2. ASSUME NEW c \in Callers, NEW d \in Callers, d # c, PollTells(d),
             \/ ixgbe_recv_frames(c) \/ spinlock_lock(c) \/ read_head(c) \/ read_tail(c)
             \/ recv_last(c) \/ spinlock_unlock(c)
      PROVE  PollTells(d)'
  BY <1>0, <1>2, PollUntouched
     DEF ixgbe_recv_frames, spinlock_lock, read_head, read_tail, recv_last, hand_over,
         spinlock_unlock, regs, locals
<1>3. ASSUME NEW c \in Callers, NEW d \in Callers, d # c, PollTells(d), recv_frame(c)
      PROVE  PollTells(d)'
  BY <1>0, <1>3, PollUntouched DEF recv_frame, batch, hand_over, regs
<1>4. ASSUME NEW c \in Callers, NEW d \in Callers, d # c, PollTells(d), write_tail(c)
      PROVE  PollTells(d)'
  <2>1. pc'[d] = pc[d] /\ frames' = frames /\ given' = given /\ Holding(c)
    BY <1>0, <1>4 DEF write_tail, Holding, locals
  <2>2. pc[d] \in {"idle", "lock"}
    BY <1>0, <1>4, <2>1 DEF RecvIInv, OneHolder, Holding
  <2> QED
    BY <1>4, <2>1, <2>2 DEF PollTells
<1>5. ASSUME NEW c \in Callers, PollTells(c),
             \/ ixgbe_recv_frames(c) \/ spinlock_lock(c) \/ read_head(c)
             \/ write_tail(c) \/ spinlock_unlock(c)
      PROVE  PollTells(c)'
  BY <1>0, <1>5
     DEF PollTells, ixgbe_recv_frames, spinlock_lock, read_head, write_tail,
         spinlock_unlock, locals
<1> QED
  BY <1>0, <1>1, <1>2, <1>3, <1>4, <1>5, AdapterKeepsPolls, PollBegins, RoundTells, LastTells
     DEF RecvNext, holder, PollsTell

(* Between any two steps a poll has handed over, or refers to in its       *)
(* batch, the packets it is through with, without the faulty ones.         *)
THEOREM PollsInvariant == RecvSpec => [](RecvIInv /\ PollsTell)
<1>1. RecvInit => PollsTell
  BY DEF RecvInit, PollsTell, PollTells
<1> QED
  BY <1>1, PollsTellStep, RecvInvariant, PTL DEF RecvSpec

(* Only its write of RDT takes a poll from there to its end.               *)
LEMMA EndsByWrite ==
    ASSUME RecvIInv, [RecvNext]_vars, NEW c \in Callers, pc[c] = "write", pc'[c] = "end"
    PROVE  write_tail(c)
<1>0. pc \in [Callers -> {"idle", "lock", "head", "tail", "loop", "write", "end"}]
  BY DEF RecvIInv, RecvTypeOK
<1> USE DEF goto
<1>1. CASE UNCHANGED vars \/ ixgbe_setup_recv \/ nic_removed
           \/ \E packet \in Packets : nic_recv(packet)
  BY <1>1 DEF vars, ixgbe_setup_recv, nic_removed, nic_recv
<1>2. ASSUME NEW d \in Callers,
             \/ ixgbe_recv_frames(d) \/ spinlock_lock(d) \/ read_head(d) \/ read_tail(d)
             \/ recv_frame(d) \/ recv_last(d) \/ spinlock_unlock(d)
      PROVE  FALSE
  BY <1>0, <1>2
     DEF ixgbe_recv_frames, spinlock_lock, read_head, read_tail, recv_frame, recv_last,
         spinlock_unlock
<1>3. ASSUME NEW d \in Callers, write_tail(d)
      PROVE  d = c
  BY <1>0, <1>3 DEF write_tail
<1> QED
  BY <1>1, <1>2, <1>3 DEF RecvNext, holder

(* What a poll gives back is what it has passed.                           *)
LEMMA GivesBackPassed ==
    ASSUME RecvIInv, NEW c \in Callers, pc[c] = "write"
    PROVE  /\ (head[c] - RDT - 1) % num_rdesc = Ahead(Oldest, head[c], N)
           /\ SubSeq(Queue, 1, Ahead(Oldest, head[c], N)) = Passed(c)
<1>1. /\ RecvTypeOK /\ N \in Nat \ {0} /\ RDT \in 0 .. N - 1 /\ RDH \in 0 .. N - 1
      /\ head[c] \in 0 .. N - 1 /\ head[c] = nt(c)
      /\ Ahead(Oldest, head[c], N) <= Ahead(Oldest, RDH, N)
  BY Indices DEF RecvIInv, HeadBehind, TailBehind
<1>2. (head[c] - RDT - 1) % N = Ahead(Oldest, head[c], N)
  BY <1>1, FromAfter DEF Oldest
<1>3. Oldest \in 0 .. N - 1
  BY <1>1, AfterIs DEF Oldest
<1>4. /\ Ahead(Oldest, head[c], N) \in 0 .. N - 1
      /\ Ahead(Oldest, RDH, N) \in 0 .. N - 1
  BY <1>1, <1>3, Distances
<1>5. PICK n \in 0 .. N - 1 : n = Ahead(Oldest, head[c], N)
  BY <1>4
<1>6. PICK m \in 0 .. N - 1 : m = Ahead(Oldest, RDH, N)
  BY <1>4
<1>7. m \in Nat /\ n \in 0 .. m
  BY <1>1, <1>5, <1>6
<1>8. SubSeq(Window(rdesc_ring, Oldest, m, N), 1, n) = Window(rdesc_ring, Oldest, n, N)
  BY <1>1, <1>3, <1>7, WindowPrefix
<1>9. Queue = Window(rdesc_ring, Oldest, m, N)
  BY <1>6, QueueIsWindow DEF RecvIInv
<1> QED
  BY <1>1, <1>2, <1>5, <1>8, <1>9 DEF Passed, N

(* A call hands over what it gives back, for every ring, size of a batch   *)
(* and number of processors: once, in order and without the faulty ones,   *)
(* though the adapter fills the ring all the time and the batch may have   *)
(* been full any number of times.                                          *)
THEOREM HandsOverWhatArrived == RecvSpec => GivesWhatArrived
<1> DEFINE taken(c) == (head[c] - RDT - 1) % num_rdesc
           Right(c) == /\ Queue' = SubSeq(Queue, taken(c) + 1, Len(Queue))
                       /\ given[c] = Without(SubSeq(Queue, 1, taken(c)), Faulty)
<1>1. ASSUME RecvIInv, RecvIInv', PollsTell, [RecvNext]_vars,
             NEW c \in Callers, present, pc[c] = "write", pc'[c] = "end"
      PROVE  Right(c)
  <2>1. write_tail(c) /\ RDT' = tail[c]
    BY <1>1, EndsByWrite DEF write_tail
  <2>2. PICK n : n = Ahead(Oldest, head[c], N)
    OBVIOUS
  <2>3. taken(c) = n /\ SubSeq(Queue, 1, n) = Passed(c)
    BY <1>1, <2>2, GivesBackPassed
  <2>4. Queue' = SubSeq(Queue, n + 1, Len(Queue))
    BY <1>1, <2>1, <2>2, GivesBack
  <2>5. given[c] = Without(Passed(c), Faulty)
    BY <1>1 DEF PollsTell, PollTells
  <2> QED
    BY <2>3, <2>4, <2>5
<1>2. RecvIInv /\ RecvIInv' /\ PollsTell /\ [RecvNext]_vars
      => [\A c \in Callers : present /\ pc[c] = "write" /\ pc'[c] = "end" => Right(c)]_vars
  BY <1>1
<1>3. GivesWhatArrived
      <=> [][\A c \in Callers :
                 present /\ pc[c] = "write" /\ pc'[c] = "end" => Right(c)]_vars
  BY DEF GivesWhatArrived
<1> QED
  BY <1>2, <1>3, PollsInvariant, PTL DEF RecvSpec
=============================================================================

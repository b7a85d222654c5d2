----------------------------- MODULE IxgbeLink -----------------------------
(***************************************************************************)
(* How the ixgbe driver brings its adapter up (ixgbe_linkup and the two    *)
(* set-up functions of src/drivers/ixgbe.c).  The driver asks for          *)
(* something, then looks once a millisecond whether it has happened, and   *)
(* gives up when a count has run out.  The adapter answers when it likes,  *)
(* or never; it may be pulled out, and then every read gives all ones.     *)
(***************************************************************************)
EXTENDS Integers

CONSTANTS
    IXGBE_NUM_QUEUE_PAIRS,
    num_rdesc,       \* the number of descriptors of a ring
    Timeout,         \* the count of the waits of "3 * 1000"
    LinkTimeout      \* the count of the wait for the link, "10 * 1000"

ASSUME LinkAssumption ==
    /\ IXGBE_NUM_QUEUE_PAIRS \in Nat \ {0}
    /\ num_rdesc \in Nat /\ num_rdesc > 1
    /\ Timeout \in Nat /\ LinkTimeout \in Nat

Queues == 0 .. IXGBE_NUM_QUEUE_PAIRS - 1

VARIABLES
    at,            \* what ixgbe_linkup waits for, or writes next
    timeout,       \* its count
    queue,         \* the loop variable of the set-up functions
    xmit_enabled,
    recv_enabled,
    answers,       \* whether register reads reach the adapter
    master,        \* STATUS: the adapter may master the bus
    rst,           \* CTRL: a reset is going on
    masked,        \* EIMC: the interrupts are masked
    links,         \* LINKS: the link is up
    dmatxctl,      \* DMATXCTL: transmission is on
    rxctrl,        \* RXCTRL: reception is on
    tx, rx,        \* the queues' registers
    waited,        \* history: the looks in vain of this wait
    faltered       \* history: the adapter was late, or its link went down again

driverVars == <<at, timeout, queue, xmit_enabled, recv_enabled>>
adapterVars == <<answers, master, rst, masked, links, dmatxctl, rxctrl, tx, rx>>
linkVars == <<driverVars, adapterVars, waited, faltered>>

Waits == {"master", "reset", "link", "xmit", "recv"}

(* What ixgbe_setup_xmit and ixgbe_setup_recv write in between.            *)
Writes == {"tdesc", "dmatxctl", "txdctl", "rdesc", "rxdctl"}

LinkOver == at \in {"idle", "up", "failed"}

(* A queue's base and length registers point to the driver's ring; its     *)
(* enable bit is asked for and then on; RDT, or TDT.                       *)
QueueRegs == [ring : BOOLEAN, enable : {"off", "asked", "on"}, tail : 0 .. num_rdesc - 1]
QueuesOff == [k \in Queues |-> [ring |-> FALSE, enable |-> "off", tail |-> 0]]

LinkTypeOK ==
    /\ at \in Waits \cup Writes \cup {"idle", "up", "failed"}
    /\ timeout \in -1 .. Timeout \cup -1 .. LinkTimeout
    /\ queue \in Queues
    /\ {xmit_enabled, recv_enabled, faltered} \subseteq BOOLEAN
    /\ answers \in {"live", "gone", "unmapped"}
    /\ master \in {"on", "stopping", "off"}
    /\ {rst, masked, links, dmatxctl, rxctrl} \subseteq BOOLEAN
    /\ tx \in [Queues -> QueueRegs] /\ rx \in [Queues -> QueueRegs]
    /\ waited \in Nat
-----------------------------------------------------------------------------
LinkInit ==
    /\ at = "idle" /\ timeout = 0 /\ queue = 0
    /\ xmit_enabled = FALSE /\ recv_enabled = FALSE
    /\ answers = "live" /\ master = "on" /\ rst = FALSE
    /\ masked = FALSE /\ links = FALSE
    /\ dmatxctl = FALSE /\ rxctrl = FALSE
    /\ tx = QueuesOff /\ rx = QueuesOff
    /\ waited = 0 /\ faltered = FALSE

Live == answers = "live"

(* ixgbe_check32: a register that is not there reads as zero when there is *)
(* no base address, and as all ones when there is no adapter.              *)
Check(bit) == (Live /\ bit) \/ answers = "gone"

Wait(what, rounds) == at' = what /\ timeout' = rounds /\ waited' = 0

(* ixgbe_new, for an adapter in the state its reset left it in: flags off, *)
(* interrupts masked, and the adapter asked to leave the bus.              *)
ixgbe_new(mapped) ==
    /\ LinkOver
    /\ xmit_enabled' = FALSE /\ recv_enabled' = FALSE
    /\ answers' = IF mapped THEN "live" ELSE "unmapped"
    /\ master' = IF mapped THEN "stopping" ELSE "on"
    /\ masked' = mapped
    /\ rst' = FALSE /\ links' \in BOOLEAN
    /\ dmatxctl' = FALSE /\ rxctrl' = FALSE
    /\ tx' = QueuesOff /\ rx' = QueuesOff
    /\ queue' = 0 /\ faltered' = FALSE
    /\ Wait("master", Timeout)

(* What the loop looks for.                                                *)
Answered ==
    \/ at = "master" /\ ~Check(master # "off")
    \/ at = "reset" /\ ~Check(rst) /\ Check(master # "off")
    \/ at = "link" /\ Check(links)
    \/ at = "xmit" /\ Check(tx[queue].enable = "on")
    \/ at = "recv" /\ Check(rx[queue].enable = "on")

(* Variant: the loop ends a round early.                                   *)
LastRoundLost == timeout < 1

(* timeout-- < 0, after the sleep and before the look at the register.     *)
TimedOut == timeout < 0

(* One round of a loop: a millisecond, and the look is in vain.            *)
look_in_vain ==
    /\ at \in Waits /\ ~TimedOut /\ ~Answered
    /\ timeout' = timeout - 1
    /\ waited' = waited + 1
    /\ faltered' = (faltered \/ waited' > IF at = "link" THEN LinkTimeout ELSE Timeout)
    /\ UNCHANGED <<at, queue, xmit_enabled, recv_enabled, adapterVars>>

give_up ==
    /\ at \in Waits /\ TimedOut
    /\ at' = "failed"
    /\ UNCHANGED <<timeout, queue, xmit_enabled, recv_enabled, adapterVars,
                   waited, faltered>>

Seen(what) == at = what /\ ~TimedOut /\ Answered

master_disabled ==
    /\ Seen("master")
    /\ rst' = Live
    /\ Wait("reset", Timeout)
    /\ UNCHANGED <<queue, xmit_enabled, recv_enabled, answers, master, masked,
                   links, dmatxctl, rxctrl, tx, rx, faltered>>

(* Variant: the interrupts are not masked again after the reset.           *)
MaskedOnce ==
    /\ Seen("reset")
    /\ Wait("link", LinkTimeout)
    /\ UNCHANGED <<queue, xmit_enabled, recv_enabled, adapterVars, faltered>>

reset_completed ==
    /\ Seen("reset")
    /\ masked' = (masked \/ Live)
    /\ Wait("link", LinkTimeout)
    /\ UNCHANGED <<queue, xmit_enabled, recv_enabled, answers, master, rst,
                   links, dmatxctl, rxctrl, tx, rx, faltered>>

(* ixgbe_write_tdesc, ixgbe_write_rdesc.                                   *)
WriteRings(regs) == [k \in Queues |-> [regs[k] EXCEPT !.ring = TRUE, !.tail = 0]]

(* TXDCTL, RXDCTL of queue k.                                              *)
Enable(regs, k) == [regs EXCEPT ![k].enable = IF @ = "off" THEN "asked" ELSE @]

IfLive(regs, written) == IF Live THEN written ELSE regs

(* From one place to the next, which is not a new wait.                    *)
Go(from, to) == at = from /\ at' = to /\ UNCHANGED <<timeout, waited>>

linked_up ==
    /\ Seen("link") /\ Go("link", "tdesc")
    /\ UNCHANGED <<queue, xmit_enabled, recv_enabled, adapterVars, faltered>>

ixgbe_write_tdesc ==
    /\ Go("tdesc", "dmatxctl")
    /\ tx' = IfLive(tx, WriteRings(tx))
    /\ UNCHANGED <<queue, xmit_enabled, recv_enabled, answers, master, rst, masked,
                   links, dmatxctl, rxctrl, rx, faltered>>

transmit_enable ==
    /\ Go("dmatxctl", "txdctl")
    /\ dmatxctl' = (dmatxctl \/ Live)
    /\ queue' = 0
    /\ UNCHANGED <<xmit_enabled, recv_enabled, answers, master, rst, masked,
                   links, rxctrl, tx, rx, faltered>>

xmit_queue_asked ==
    /\ at = "txdctl"
    /\ tx' = IfLive(tx, Enable(tx, queue))
    /\ Wait("xmit", Timeout)
    /\ UNCHANGED <<queue, xmit_enabled, recv_enabled, answers, master, rst, masked,
                   links, dmatxctl, rxctrl, rx, faltered>>

xmit_queue_enabled ==
    /\ Seen("xmit") /\ queue + 1 \in Queues
    /\ queue' = queue + 1
    /\ Go("xmit", "txdctl")
    /\ UNCHANGED <<xmit_enabled, recv_enabled, adapterVars, faltered>>

(* ixgbe_setup_xmit returns and ixgbe_setup_recv begins.                   *)
xmit_up ==
    /\ Seen("xmit") /\ queue + 1 \notin Queues
    /\ xmit_enabled' = TRUE
    /\ Go("xmit", "rdesc")
    /\ UNCHANGED <<queue, recv_enabled, adapterVars, faltered>>

ixgbe_write_rdesc ==
    /\ Go("rdesc", "rxdctl")
    /\ rx' = IfLive(rx, WriteRings(rx))
    /\ queue' = 0
    /\ UNCHANGED <<xmit_enabled, recv_enabled, answers, master, rst, masked,
                   links, dmatxctl, rxctrl, tx, faltered>>

recv_queue_asked ==
    /\ at = "rxdctl"
    /\ rx' = IfLive(rx, Enable(rx, queue))
    /\ Wait("recv", Timeout)
    /\ UNCHANGED <<queue, xmit_enabled, recv_enabled, answers, master, rst, masked,
                   links, dmatxctl, rxctrl, tx, faltered>>

(* RDT: the adapter may use all descriptors but one.                       *)
Bump(regs) == [regs EXCEPT ![queue].tail = num_rdesc - 1]

recv_queue_enabled ==
    /\ Seen("recv") /\ queue + 1 \in Queues
    /\ queue' = queue + 1
    /\ rx' = IfLive(rx, Bump(rx))
    /\ Go("recv", "rxdctl")
    /\ UNCHANGED <<xmit_enabled, recv_enabled, answers, master, rst, masked, links,
                   dmatxctl, rxctrl, tx, faltered>>

recv_up ==
    /\ Seen("recv") /\ queue + 1 \notin Queues
    /\ rx' = IfLive(rx, Bump(rx))
    /\ rxctrl' = (rxctrl \/ Live)
    /\ recv_enabled' = TRUE
    /\ Go("recv", "up")
    /\ UNCHANGED <<queue, xmit_enabled, answers, master, rst, masked, links,
                   dmatxctl, tx, faltered>>

(* The driver's next step; those of a wait need usleep to return.          *)
linkup ==
    \/ look_in_vain \/ give_up
    \/ master_disabled \/ reset_completed \/ linked_up
    \/ ixgbe_write_tdesc \/ transmit_enable
    \/ xmit_queue_asked \/ xmit_queue_enabled \/ xmit_up
    \/ ixgbe_write_rdesc
    \/ recv_queue_asked \/ recv_queue_enabled \/ recv_up
-----------------------------------------------------------------------------
(* The adapter's steps, whatever the driver does.                          *)
nic_leaves_bus ==
    /\ Live /\ master = "stopping"
    /\ master' = "off"
    /\ UNCHANGED <<driverVars, answers, rst, masked, links, dmatxctl, rxctrl,
                   tx, rx, waited, faltered>>

(* A reset puts every register back; nothing says that it masks.           *)
nic_resets ==
    /\ Live /\ rst
    /\ rst' = FALSE /\ master' = "on" /\ masked' \in BOOLEAN
    /\ links' = FALSE /\ dmatxctl' = FALSE /\ rxctrl' = FALSE
    /\ tx' = QueuesOff /\ rx' = QueuesOff
    /\ UNCHANGED <<driverVars, answers, waited, faltered>>

nic_links ==
    /\ Live /\ ~rst
    /\ links' = ~links
    /\ faltered' = (faltered \/ (links /\ at = "link"))
    /\ UNCHANGED <<driverVars, answers, master, rst, masked, dmatxctl, rxctrl,
                   tx, rx, waited>>

nic_enables(k) ==
    /\ Live
    /\ \/ /\ tx[k].enable = "asked"
          /\ tx' = [tx EXCEPT ![k].enable = "on"] /\ UNCHANGED rx
       \/ /\ rx[k].enable = "asked"
          /\ rx' = [rx EXCEPT ![k].enable = "on"] /\ UNCHANGED tx
    /\ UNCHANGED <<driverVars, answers, master, rst, masked, links, dmatxctl,
                   rxctrl, waited, faltered>>

nic_pulled ==
    /\ Live
    /\ answers' = "gone"
    /\ UNCHANGED <<driverVars, master, rst, masked, links, dmatxctl, rxctrl,
                   tx, rx, waited, faltered>>

nic == nic_leaves_bus \/ nic_resets \/ nic_links \/ nic_pulled
       \/ \E k \in Queues : nic_enables(k)

LinkNext == (\E mapped \in BOOLEAN : ixgbe_new(mapped)) \/ linkup \/ nic

LinkSpec == LinkInit /\ [][LinkNext]_linkVars
-----------------------------------------------------------------------------
(* A queue the adapter may walk has a ring of the driver's.                *)
RingsBeforeQueues(regs) == \A k \in Queues : regs[k].enable # "off" => regs[k].ring

AllOn(regs, tail) ==
    \A k \in Queues : regs[k] = [ring |-> TRUE, enable |-> "on", tail |-> tail]

(* The flags ixgbe_send_frames and ixgbe_recv_frames go by are true of the *)
(* adapter, wherever the bring-up gave up: each direction's queues are all *)
(* on with the driver's rings, empty, and no interrupt will come; and at   *)
(* no time may the adapter walk a ring it was not given (ixgbe_linkup).    *)
(* An adapter that was pulled out is left out: its all ones look like      *)
(* queues that are on, and the driver sets both flags.                     *)
FlagsTellTheTruth ==
    /\ recv_enabled => xmit_enabled
    /\ Live => RingsBeforeQueues(tx) /\ RingsBeforeQueues(rx)
    /\ Live /\ xmit_enabled => ~rst /\ masked /\ dmatxctl /\ AllOn(tx, 0)
    /\ Live /\ recv_enabled => rxctrl /\ AllOn(rx, num_rdesc - 1)

(* An adapter that does each thing within its time, in milliseconds, and   *)
(* keeps its link is brought up (the waiting loops).                       *)
PromptAdapterComesUp ==
    at \in {"up", "failed"} /\ Live /\ ~faltered => xmit_enabled /\ recv_enabled
=============================================================================

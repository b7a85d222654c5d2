------------------------------ MODULE SmpBoot ------------------------------
(***************************************************************************)
(* How the other processors are started and stopped.  The boot processor   *)
(* lists the processors of the MADT (src/acpi.c), fills stacklist and      *)
(* sends INIT and start-up IPIs (src/apic.c); each application processor   *)
(* looks for its stack in stacklist while the boot processor is filling it *)
(* (start_ap in src/loader.S) and prints a line (init_ap in src/init.c)    *)
(* under printf's spin lock (src/printf.c; the text is Printf's).  After   *)
(* main the boot processor stops them with INIT.                           *)
(***************************************************************************)
EXTENDS Integers, Sequences, Printf

CONSTANTS
    Madts,                \* the MADTs the firmware may report
    BSP,                  \* the boot processor's APIC id
    APs,                  \* the APIC ids of the other processors there are
    None,                 \* no APIC id
    BOOT_BSP_STACK_BASE,  \* where the boot processor's stack starts
    BOOT_STACK_SIZE,      \* the size of a stack
    Depth,                \* how deep a processor's stack gets
    Chunk,                \* the size of the heap's chunks for small blocks
    HDR,                  \* the boundary tag before each block of the heap
    Calls                 \* how often main calls printf, 5

(* struct madt_entry: type 0 is a local APIC.                              *)
Entry == [entry_type : {0, 1}, apic_id : APs \cup {BSP, None}, enabled : BOOLEAN]

ASSUME SmpAssumption ==
    /\ BSP \notin APs /\ None \notin APs \cup {BSP}
    /\ {BOOT_BSP_STACK_BASE, BOOT_STACK_SIZE, Depth, Chunk} \subseteq Nat
    /\ HDR \in Nat \ {0} /\ Calls \in Nat
    /\ Depth <= BOOT_STACK_SIZE /\ Depth <= Chunk
    /\ Depth <= BOOT_BSP_STACK_BASE

(* The firmware reports each processor once, and those there are enabled.  *)
ASSUME MadtAssumption ==
    \A m \in Madts :
        /\ m \in Seq(Entry)
        /\ \A a \in APs \cup {BSP} : \E k \in 1 .. Len(m) :
               m[k] = [entry_type |-> 0, apic_id |-> a, enabled |-> TRUE]
        /\ \A j, k \in 1 .. Len(m) :
               /\ m[j].entry_type = 0 /\ m[k].entry_type = 0
               /\ m[j].apic_id = m[k].apic_id
               /\ m[j].apic_id # None
               => j = k

VARIABLES
    madt,        \* the firmware's table
    entry,       \* the entry acpi_create_cpulist looks at
    cpunum,      \* cpulist->num
    info,        \* the APIC ids written to cpulist->info
    bsp,         \* where the boot processor is
    i,           \* the loop variable of apic_init and apic_deinit
    stacklist,   \* the array of APIC ids and stacks
    heap_top,    \* the end of the heap's last chunk
    again,       \* apic_deinit is going to be called once more
    in_time,     \* history: main did not return too early
    ipi,         \* the IPIs on their way to each processor
    cpu,         \* where each application processor is
    idx,         \* the entry of stacklist it compares
    stack,       \* the stack it took
    out,         \* where each processor is in printf
    lock,        \* printf's spin lock
    console      \* who wrote each character of the console

acpiVars == <<madt, entry, cpunum, info>>
apicVars == <<i, stacklist, heap_top, again, in_time>>
apVars == <<cpu, idx, stack>>
printVars == <<out, lock, console>>
vars == <<acpiVars, bsp, apicVars, ipi, apVars, printVars>>

Processors == APs \cup {BSP}
Ids == APs \cup {BSP, None}

SmpTypeOK ==
    /\ madt \in Madts
    /\ entry \in 1 .. Len(madt) + 1
    /\ cpunum \in Nat
    /\ info \in Seq(Ids)
    /\ bsp \in {"count", "list", "apic", "fill", "stack", "start",
                "main", "deinit", "stopped"}
    /\ i \in Nat \ {0}
    /\ stacklist \in Seq([apic_id : Ids, stack_base : Nat])
    /\ heap_top \in Nat
    /\ again \in BOOLEAN /\ in_time \in BOOLEAN
    /\ ipi \in [APs -> Seq({"INIT", "SIPI"})]
    /\ cpu \in [APs -> {"wait", "scan", "call", "print", "stop"}]
    /\ idx \in [APs -> Nat \ {0}]
    /\ stack \in [APs -> Nat]
    /\ out \in [Processors -> {"none", "lock", "first", "rest", "unlock"}]
    /\ lock \in {0, 1}
    /\ console \in Seq(Processors)
-----------------------------------------------------------------------------
(* do_printf, from its spin lock to its unlock; a line is two characters.  *)
printf(p) ==
    /\ out[p] = "none"
    /\ out' = [out EXCEPT ![p] = "lock"]
    /\ UNCHANGED <<lock, console>>

(* Variant: the lock is counted up and not waited for.                     *)
CountLock(p) ==
    /\ out[p] = "lock"
    /\ lock' = lock + 1
    /\ out' = [out EXCEPT ![p] = "first"]
    /\ UNCHANGED console

printf_lock(p) ==
    /\ out[p] = "lock" /\ lock = 0
    /\ lock' = 1
    /\ out' = [out EXCEPT ![p] = "first"]
    /\ UNCHANGED console

(* Spinning while another processor has the lock.                          *)
printf_spin(p) == out[p] = "lock" /\ lock = 1 /\ UNCHANGED vars

printf_char(p) ==
    /\ out[p] \in {"first", "rest"}
    /\ console' = Append(console, p)
    /\ out' = [out EXCEPT ![p] = IF @ = "first" THEN "rest" ELSE "unlock"]
    /\ UNCHANGED lock

printf_unlock(p) ==
    /\ out[p] = "unlock"
    /\ lock' = 0
    /\ out' = [out EXCEPT ![p] = "none"]
    /\ UNCHANGED console

do_printf(p) ==
    /\ printf_lock(p) \/ printf_char(p) \/ printf_unlock(p)
    /\ UNCHANGED <<acpiVars, bsp, apicVars, ipi, apVars>>
-----------------------------------------------------------------------------
SmpInit ==
    /\ madt \in Madts
    /\ entry = 1 /\ cpunum = 0 /\ info = <<>>
    /\ bsp = "count"
    /\ i = 1 /\ stacklist = <<>> /\ again = FALSE /\ in_time = TRUE
    /\ heap_top = BOOT_BSP_STACK_BASE
    /\ ipi = [a \in APs |-> <<>>]
    /\ cpu = [a \in APs |-> "wait"]
    /\ idx = [a \in APs |-> 1]
    /\ stack = [a \in APs |-> 0]
    /\ out = [p \in Processors |-> "none"]
    /\ lock = 0 /\ console = <<>>

(* The boot processor is there, and not within printf.                     *)
boot_at(where) == bsp = where /\ out[BSP] = "none"

(* acpi_create_cpulist's first loop counts the enabled processors.         *)
acpi_count ==
    /\ boot_at("count") /\ entry <= Len(madt)
    /\ cpunum' = IF madt[entry].entry_type = 0 /\ madt[entry].enabled
                 THEN cpunum + 1 ELSE cpunum
    /\ entry' = entry + 1
    /\ UNCHANGED <<madt, info, bsp, apicVars, ipi, apVars, printVars>>

(* The two mallocs take the heap's first chunk, which starts where the     *)
(* boot processor's stack does.                                            *)
acpi_counted ==
    /\ boot_at("count") /\ entry > Len(madt)
    /\ bsp' = "list" /\ entry' = 1
    /\ heap_top' = heap_top + Chunk
    /\ UNCHANGED <<madt, cpunum, info, i, stacklist, again, in_time, ipi, apVars, printVars>>

(* Its second loop lists every processor, the disabled ones as well.       *)
acpi_list ==
    /\ boot_at("list") /\ entry <= Len(madt)
    /\ info' = IF madt[entry].entry_type = 0
               THEN Append(info, madt[entry].apic_id) ELSE info
    /\ entry' = entry + 1
    /\ UNCHANGED <<madt, cpunum, bsp, apicVars, ipi, apVars, printVars>>

acpi_listed ==
    /\ boot_at("list") /\ entry > Len(madt)
    /\ bsp' = "apic"
    /\ UNCHANGED <<acpiVars, apicVars, ipi, apVars, printVars>>

(* malloc does not clear the array: it holds what was there before.        *)
apic_init ==
    /\ boot_at("apic")
    /\ \E junk \in Ids :
           stacklist' = [k \in 1 .. cpunum |-> [apic_id |-> junk, stack_base |-> 0]]
    /\ bsp' = "fill" /\ i' = 1
    /\ UNCHANGED <<acpiVars, heap_top, again, in_time, ipi, apVars, printVars>>

apic_boot_entry ==
    /\ boot_at("fill") /\ i <= cpunum /\ info[i] = BSP
    /\ stacklist' = [stacklist EXCEPT ![i] = [apic_id |-> BSP,
                                              stack_base |-> BOOT_BSP_STACK_BASE]]
    /\ i' = i + 1
    /\ UNCHANGED <<acpiVars, bsp, heap_top, again, in_time, ipi, apVars, printVars>>

(* An IPI to an id no processor has is lost.                               *)
Send(id, kinds) ==
    ipi' = [a \in APs |-> IF a = id THEN ipi[a] \o kinds ELSE ipi[a]]

(* Variant: the start-up IPIs are left out.                                *)
OnlyReset == <<"INIT">>

StartIPIs == <<"INIT", "SIPI", "SIPI">>

(* Variant: the processor is started before its stack is stored.           *)
EarlyStart ==
    /\ boot_at("fill") /\ i <= cpunum /\ info[i] # BSP
    /\ stacklist' = [stacklist EXCEPT ![i].apic_id = info[i]]
    /\ Send(info[i], StartIPIs)
    /\ bsp' = "stack"
    /\ UNCHANGED <<acpiVars, i, heap_top, again, in_time, apVars, printVars>>

apic_entry ==
    /\ boot_at("fill") /\ i <= cpunum /\ info[i] # BSP
    /\ stacklist' = [stacklist EXCEPT ![i].apic_id = info[i]]
    /\ bsp' = "stack"
    /\ UNCHANGED <<acpiVars, i, heap_top, again, in_time, ipi, apVars, printVars>>

(* Variant: the block is too small for a stack.                            *)
SmallBlock == heap_top + HDR + 1

(* malloc (BOOT_STACK_SIZE): no free block is that large, so it takes a    *)
(* chunk above all others.                                                 *)
BlockEnd == heap_top + HDR + BOOT_STACK_SIZE

apic_stack ==
    /\ boot_at("stack")
    /\ stacklist' = [stacklist EXCEPT ![i].stack_base = heap_top + HDR]
    /\ heap_top' = BlockEnd
    /\ bsp' = "start"
    /\ UNCHANGED <<acpiVars, i, again, in_time, ipi, apVars, printVars>>

(* Three writes to the interrupt command register.                         *)
apic_start ==
    /\ boot_at("start")
    /\ Send(info[i], StartIPIs)
    /\ i' = i + 1 /\ bsp' = "fill"
    /\ UNCHANGED <<acpiVars, stacklist, heap_top, again, in_time, apVars, printVars>>

apic_done ==
    /\ boot_at("fill") /\ i > cpunum
    /\ bsp' = "main" /\ i' = 1
    /\ UNCHANGED <<acpiVars, stacklist, heap_top, again, in_time, ipi, apVars, printVars>>

(* main's calls of printf, with a second's sleep between two of them.      *)
main ==
    /\ boot_at("main") /\ i <= Calls /\ printf(BSP)
    /\ i' = i + 1
    /\ UNCHANGED <<acpiVars, bsp, stacklist, heap_top, again, in_time, ipi, apVars>>

(* The processors that were started have got to their final loop.          *)
BootOver == \A a \in APs : ipi[a] = <<>> /\ cpu[a] \in {"wait", "stop"}

(* init's loop over init_list begins with its NULL, whose length is that   *)
(* of the string at address 0: where that is empty, every deinit function  *)
(* matches and apic_deinit is called once more.                            *)
main_return ==
    /\ boot_at("main") /\ i > Calls
    /\ in_time' = BootOver
    /\ again' \in BOOLEAN
    /\ bsp' = "deinit" /\ i' = 1
    /\ UNCHANGED <<acpiVars, stacklist, heap_top, ipi, apVars, printVars>>

(* Variant: the loop ends at the boot processor's entry.                   *)
BreakAtBoot ==
    /\ boot_at("deinit") /\ i <= cpunum /\ info[i] = BSP
    /\ i' = cpunum + 1
    /\ UNCHANGED <<acpiVars, bsp, stacklist, heap_top, again, in_time, ipi, apVars, printVars>>

apic_deinit_boot ==
    /\ boot_at("deinit") /\ i <= cpunum /\ info[i] = BSP
    /\ i' = i + 1
    /\ UNCHANGED <<acpiVars, bsp, stacklist, heap_top, again, in_time, ipi, apVars, printVars>>

apic_deinit ==
    /\ boot_at("deinit") /\ i <= cpunum /\ info[i] # BSP
    /\ Send(info[i], <<"INIT">>)
    /\ printf(BSP)
    /\ i' = i + 1
    /\ UNCHANGED <<acpiVars, bsp, stacklist, heap_top, again, in_time, apVars>>

apic_deinit_again ==
    /\ boot_at("deinit") /\ i > cpunum /\ again
    /\ again' = FALSE /\ i' = 1
    /\ UNCHANGED <<acpiVars, bsp, stacklist, heap_top, in_time, ipi, apVars, printVars>>

(* "System stopped."                                                       *)
init_return ==
    /\ boot_at("deinit") /\ i > cpunum /\ ~again
    /\ printf(BSP)
    /\ bsp' = "stopped"
    /\ UNCHANGED <<acpiVars, apicVars, ipi, apVars>>

(* stop: hlt in a loop.                                                    *)
stop == boot_at("stopped") /\ UNCHANGED vars
-----------------------------------------------------------------------------
(* An IPI arrives.  INIT resets the processor wherever it is, with a lock  *)
(* it may hold; a start-up IPI is ignored by one that does not wait.       *)
deliver_init(a) ==
    /\ ipi[a] # <<>> /\ Head(ipi[a]) = "INIT"
    /\ ipi' = [ipi EXCEPT ![a] = Tail(@)]
    /\ cpu' = [cpu EXCEPT ![a] = "wait"]
    /\ out' = [out EXCEPT ![a] = "none"]
    /\ UNCHANGED <<acpiVars, bsp, apicVars, idx, stack, lock, console>>

deliver_start(a) ==
    /\ ipi[a] # <<>> /\ Head(ipi[a]) = "SIPI"
    /\ ipi' = [ipi EXCEPT ![a] = Tail(@)]
    /\ IF cpu[a] = "wait"
       THEN cpu' = [cpu EXCEPT ![a] = "scan"] /\ idx' = [idx EXCEPT ![a] = 1]
       ELSE UNCHANGED <<cpu, idx>>
    /\ UNCHANGED <<acpiVars, bsp, apicVars, stack, printVars>>

(* start_ap's loop over stacklist, which it leaves only where it finds the *)
(* processor's id; the model stops it behind the array.                    *)
ap_next(a) ==
    /\ cpu[a] = "scan" /\ idx[a] <= Len(stacklist)
    /\ stacklist[idx[a]].apic_id # a
    /\ idx' = [idx EXCEPT ![a] = @ + 1]
    /\ UNCHANGED <<acpiVars, bsp, apicVars, ipi, cpu, stack, printVars>>

ap_found(a) ==
    /\ cpu[a] = "scan" /\ idx[a] <= Len(stacklist)
    /\ stacklist[idx[a]].apic_id = a
    /\ stack' = [stack EXCEPT ![a] = stacklist[idx[a]].stack_base]
    /\ cpu' = [cpu EXCEPT ![a] = "call"]
    /\ UNCHANGED <<acpiVars, bsp, apicVars, ipi, idx, printVars>>

init_ap(a) ==
    /\ cpu[a] = "call" /\ printf(a)
    /\ cpu' = [cpu EXCEPT ![a] = "print"]
    /\ UNCHANGED <<acpiVars, bsp, apicVars, ipi, idx, stack>>

ap_stop(a) ==
    /\ cpu[a] = "print" /\ out[a] = "none"
    /\ cpu' = [cpu EXCEPT ![a] = "stop"]
    /\ UNCHANGED <<acpiVars, bsp, apicVars, ipi, idx, stack, printVars>>

boot_step ==
    \/ acpi_count \/ acpi_counted \/ acpi_list \/ acpi_listed
    \/ apic_init \/ apic_boot_entry \/ apic_entry \/ apic_stack \/ apic_start
    \/ apic_done \/ main \/ main_return
    \/ apic_deinit_boot \/ apic_deinit \/ apic_deinit_again \/ init_return
    \/ do_printf(BSP)

ap_step(a) ==
    \/ deliver_init(a) \/ deliver_start(a)
    \/ ap_next(a) \/ ap_found(a) \/ init_ap(a) \/ ap_stop(a)
    \/ do_printf(a)

SmpNext ==
    \/ boot_step \/ stop
    \/ \E a \in APs : ap_step(a)
    \/ \E p \in Processors : printf_spin(p)

SmpSpec == SmpInit /\ [][SmpNext]_vars

(* Interrupts are off: every processor goes on, and an IPI arrives.        *)
SmpFairSpec == SmpSpec /\ WF_vars(boot_step) /\ \A a \in APs : WF_vars(ap_step(a))
-----------------------------------------------------------------------------
(* cpulist->info has room for cpunum entries: the table lists no disabled  *)
(* processor.  Beyond it acpi_list writes over the heap.                   *)
ListInBounds == \A k \in 1 .. Len(madt) : madt[k].entry_type = 0 => madt[k].enabled

(* A processor that looks for its stack will find it: its entry is ahead,  *)
(* with its id and its stack in it, though the boot processor is still     *)
(* filling the array and the rest of it is uninitialised.                  *)
StackIsAhead ==
    \A a \in APs : cpu[a] = "scan" =>
        \E k \in idx[a] .. Len(stacklist) :
            stacklist[k].apic_id = a /\ stacklist[k].stack_base # 0

Running(a) == cpu[a] \in {"call", "print", "stop"}

StackOf(p) == IF p = BSP THEN BOOT_BSP_STACK_BASE ELSE stack[p]

(* No two processors run on the same memory: as deep as they get, their    *)
(* stacks, which grow downwards, do not meet (apic_init).                  *)
StacksApart ==
    \A p, q \in {BSP} \cup {a \in APs : Running(a)} :
        p # q => \/ StackOf(p) <= StackOf(q) - Depth
                 \/ StackOf(q) <= StackOf(p) - Depth

(* The lines of several processors do not mix on the console, whichever    *)
(* order they get printf's lock in (do_printf).                            *)
LinesWhole ==
    \A k \in 1 .. Len(console) \div 2 : console[2 * k - 1] = console[2 * k]

(* Every processor of the table gets as far as its line "started", when    *)
(* all the table's processors are enabled and main does not return before  *)
(* (apic_init, start_ap, init_ap).                                         *)
AllStart ==
    ListInBounds /\ []in_time =>
        \A a \in APs : <>(\E k \in 1 .. Len(console) : console[k] = a)

(* The lock is taken, and whoever took it was reset.                       *)
LockLost ==
    lock = 1 /\ \A p \in Processors : out[p] \notin {"first", "rest", "unlock"}

(* In the end the boot processor says "System stopped." and the others     *)
(* wait for an IPI, whether main returned in time or did not: nothing but  *)
(* the reset of a processor that has printf's lock can keep it from that,  *)
(* which cannot happen where main returned in time; and a second call of   *)
(* apic_deinit does no harm (apic_deinit, init).                           *)
AllStop ==
    [](in_time \/ ~LockLost) =>
        <>[](boot_at("stopped") /\ \A a \in APs : cpu[a] = "wait" /\ ipi[a] = <<>>)

(* Whoever holds printf's lock writes what C says of the format: whatever  *)
(* flags, width, precision and length a directive has, for each number and *)
(* string.                                                                 *)
PrintsAsInC == lock = 1 => TextAsInC

(* Where it is snprintf that holds the lock, it never writes beyond its    *)
(* buffer, leaves a string there, and tells whether all of it went in.     *)
SnprintfStaysInside == lock = 1 => TextStaysInside

(* "ACPI: %d processors detected." (src/acpi.c:396): the first cpunum      *)
(* entries of cpulist->info are the processors that were counted.          *)
ListedAreEnabled ==
    bsp = "apic" =>
        {info[k] : k \in 1 .. cpunum} =
            {madt[k].apic_id : k \in {j \in 1 .. Len(madt) :
                                      madt[j].entry_type = 0 /\ madt[j].enabled}}

(* Each processor has a stack of BOOT_STACK_SIZE, "64 MiB"                 *)
(* (src/include/boot.h:18): as deep as it gets, it stays in the block that *)
(* was allocated for it.                                                   *)
StackInsideBlock ==
    \A a \in APs : Running(a) =>
        \E block \in 0 .. heap_top :
            /\ \E k \in 1 .. Len(stacklist) : stacklist[k].stack_base = block
            /\ block <= stack[a] - Depth
            /\ stack[a] <= block + BOOT_STACK_SIZE
=============================================================================

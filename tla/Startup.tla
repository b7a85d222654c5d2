------------------------------ MODULE Startup ------------------------------
(***************************************************************************)
(* From "System started." to "System stopped.": init calls each            *)
(* component's function (InitOrder), which searches the firmware's tables  *)
(* (Acpi), starts the HPET, registers the driver, probes PCI (Pci), brings *)
(* adapters up (IxgbeLink), starts the other processors.                   *)
(* A missing table only prints a line: whoever needs what it would have    *)
(* given finds a null pointer or a null base address later.                *)
(***************************************************************************)
EXTENDS InitOrder, Pci, IxgbeLink, Acpi

CONSTANTS
    Firmwares,     \* what the firmware may have left in memory
    ixgbe_idlist   \* the ids the driver handles

VARIABLES
    hpet_mmiobase, \* acpi_hpet_mmiobase is not 0
    cpulist,       \* acpi_cpulist is not NULL
    hpet_counts,   \* hpet_init has started the counter
    lost,          \* a load faulted, or went on from what is at address 0
    complete       \* history: the firmware was complete

machineVars == <<hpet_mmiobase, cpulist, hpet_counts, lost, complete>>
vars == <<initVars, pciVars, linkVars, machineVars>>

(* The files that register functions, with their ids: an id's stage and    *)
(* digits stand for its characters, "ap" < "bsp" < "driver".               *)
KernelIds ==
    [page |-> <<11, 0>>, acpi |-> <<11, 1>>, hpet |-> <<11, 2>>,
     ixgbe |-> <<13, 1>>, pci |-> <<13, 9, 9>>, apic |-> <<10, 0>>]

KernelStages == << <<11>>, <<13>>, <<10>> >>

(* page_init makes malloc work, which the lists of pci.c, acpi.c and       *)
(* apic.c use; usleep reads the HPET; apic_init reads the list of acpi.c.  *)
KernelNeeds ==
    [page |-> {}, acpi |-> {"page"}, hpet |-> {"acpi"}, ixgbe |-> {"page"},
     pci |-> {"ixgbe", "hpet"}, apic |-> {"acpi", "page"}]

ASSUME StartupAssumption ==
    /\ Files = DOMAIN KernelIds
    /\ Id = KernelIds /\ init_list = KernelStages /\ Needs = KernelNeeds
    /\ Absent \notin ixgbe_idlist
    /\ \A f \in Firmwares :
           /\ f.rsdp \in {"bios", "ebda", "none"} /\ f.hpet_address \in BOOLEAN
           /\ f.rsdt.entry \in Seq(Listed)
           /\ f.xsdt.entry \in Seq(Listed) /\ f.xsdt.behind \in Seq({"other", "hole"})

StartupInit ==
    /\ InitInit /\ PciInit /\ LinkInit
    /\ hpet_mmiobase = FALSE /\ cpulist = FALSE
    /\ hpet_counts = FALSE /\ lost = FALSE /\ complete = FALSE
-----------------------------------------------------------------------------
Runs(file) == stage = "init" /\ running = file /\ ~lost

(* page_layout is PagePool's.                                              *)
page_init ==
    /\ Runs("page")
    /\ func_returns
    /\ UNCHANGED <<pciVars, linkVars, machineVars>>

(* The deinit functions print a line; apic_deinit is SmpBoot's.            *)
deinit_returns ==
    /\ stage = "deinit"
    /\ func_returns
    /\ UNCHANGED <<pciVars, linkVars, machineVars>>

acpi_init ==
    /\ Runs("acpi")
    /\ \E f \in Firmwares :
           /\ complete' = Complete(f)
           /\ lost' = (acpi_search(f) = "hole")
           /\ cpulist' = (acpi_search(f) = "all")
           /\ hpet_mmiobase' = (acpi_search(f) = "all" /\ f.hpet_address)
    /\ func_returns
    /\ UNCHANGED <<pciVars, linkVars, hpet_counts>>

(* Without a base address the "registers" are memory, and do not count.    *)
hpet_init ==
    /\ Runs("hpet")
    /\ hpet_counts' = hpet_mmiobase
    /\ func_returns
    /\ UNCHANGED <<pciVars, linkVars, hpet_mmiobase, cpulist, lost, complete>>

ixgbe_init ==
    /\ Runs("ixgbe")
    /\ pci_driver_register(ixgbe_idlist)
    /\ func_returns
    /\ UNCHANGED <<linkVars, machineVars>>

(* pci_probe's loops, up to a driver's new.                                *)
pci_probe ==
    /\ Runs("pci") /\ LinkOver
    /\ (\E c \in Configs : pci_absent(c) \/ pci_found(c)) \/ pci_no_match \/ pci_loaded
    /\ UNCHANGED <<initVars, linkVars, machineVars>>

(* The driver takes bar[0]'s address for its registers.                    *)
pci_calls_new ==
    /\ Runs("pci") /\ LinkOver
    /\ pci_new_call
    /\ ixgbe_new(pci_list[1].bar[1].addr # 0)
    /\ UNCHANGED <<initVars, machineVars>>

(* What the adapter's bring-up came to is not looked at.                   *)
pci_init_returns ==
    /\ Runs("pci") /\ LinkOver /\ pci_probed
    /\ func_returns
    /\ UNCHANGED <<pciVars, linkVars, machineVars>>

ixgbe_linkup ==
    /\ Runs("pci") /\ hpet_counts
    /\ linkup
    /\ UNCHANGED <<initVars, pciVars, machineVars>>

(* Through a NULL list cpulist->num is what is at address 0: no processor, *)
(* or any number of entries that never were.                               *)
apic_init ==
    /\ Runs("apic")
    /\ lost' \in (IF cpulist THEN {FALSE} ELSE BOOLEAN)
    /\ func_returns
    /\ UNCHANGED <<pciVars, linkVars, hpet_mmiobase, cpulist, hpet_counts, complete>>

(* main sleeps.                                                            *)
main ==
    /\ hpet_counts /\ ~lost
    /\ main_returns
    /\ UNCHANGED <<pciVars, linkVars, machineVars>>

init ==
    /\ ~lost /\ InitStep /\ stage # "main"
    /\ UNCHANGED <<pciVars, linkVars, machineVars>>

boot_step ==
    \/ init \/ main \/ deinit_returns \/ page_init \/ acpi_init \/ hpet_init \/ ixgbe_init
    \/ pci_probe \/ pci_calls_new \/ pci_init_returns \/ ixgbe_linkup
    \/ apic_init

(* The adapter does what it likes while it is looked at.                   *)
adapter_step ==
    /\ ~LinkOver /\ nic
    /\ UNCHANGED <<initVars, pciVars, machineVars>>

(* Nothing more happens: the end, a fault, or a sleep on a counter that    *)
(* stands still.                                                           *)
halted ==
    /\ stage = "stopped" \/ lost
       \/ (~hpet_counts /\ (stage = "main" \/ ~LinkOver))
    /\ UNCHANGED vars

StartupNext == boot_step \/ adapter_step \/ halted

StartupSpec == StartupInit /\ [][StartupNext]_vars

(* One processor runs, without interrupts; the adapter owes it nothing.    *)
StartupFairSpec == StartupSpec /\ WF_vars(boot_step)
-----------------------------------------------------------------------------
(* The driver is registered before the probe, so the probe misses none of  *)
(* its functions, and binds each once.                                     *)
DriverMeetsEveryAdapter == DriverMeetsEveryFunction(ixgbe_idlist)

(* Where the firmware is complete the system starts and stops, whatever    *)
(* functions there are on the bus and whatever the adapters do: no search  *)
(* runs into a hole, no sleep waits for a counter that stands still, every *)
(* wait of the bring-up ends (acpi_init, hpet_init, ixgbe_linkup, init).   *)
CompleteFirmwareStarts == complete ~> (stage = "stopped")
=============================================================================

-------------------------------- MODULE Pci --------------------------------
(***************************************************************************)
(* The PCI layer (src/drivers/pci.c): the list of drivers, the probe of    *)
(* every function of every device of every bus, the decoding of its base   *)
(* address registers, the list of functions found and the choice of the    *)
(* driver.                                                                 *)
(***************************************************************************)
EXTENDS Integers, Sequences, FiniteSets

CONSTANTS
    PCI_FUNCS,   \* how many numbers (bus, dev, func) can make up
    Registers,   \* the number of base address registers, 6
    Configs,     \* what a function's configuration space may hold
    Absent,      \* the id of a function that is not there, all ones
    High         \* the weight of a register's low bit in the upper half

(* A configuration space: the id, the base address registers and the       *)
(* register after them, which pci_new reads as an upper half.              *)
ASSUME PciAssumption ==
    /\ PCI_FUNCS \in Nat /\ Registers \in Nat \ {0} /\ High \in Nat
    /\ \A c \in Configs : c.reg \in [1 .. Registers + 1 -> Nat]

VARIABLES
    pci_driver_list,  \* the ids each driver handles, the last registered first
    pci_list,         \* the functions found, the last first
    func,             \* the function pci_probe looks at
    driver,           \* the entry pci_load_driver looks at, 0 outside
    bound,            \* history: the functions a driver's new was called for
    space             \* the configuration spaces, known once they are read

pciVars == <<pci_driver_list, pci_list, func, driver, bound, space>>

Bar == [type : {"io", "mem"}, addr : Nat, e : BOOLEAN]

PciInit ==
    /\ pci_driver_list = <<>> /\ pci_list = <<>>
    /\ func = 1 /\ driver = 0 /\ bound = <<>> /\ space = <<>>
-----------------------------------------------------------------------------
(* Bit 0 of a register.                                                    *)
IsIo(bar) == bar % 2 = 1

(* (bar & 6) == 4, which pci_new looks at for ports, too.                  *)
TakesTwo(bar) == (bar % 8) \div 2 = 2


Address(bar) == IF IsIo(bar) THEN (bar % 65536) - (bar % 4) ELSE bar - (bar % 16)

(* What the loop of pci_new stores for register k; the upper half's weight *)
(* is High.  e ends up false where two registers were read.                *)
BarAt(reg, k) ==
    IF reg[k] = 0 THEN [type |-> "io", addr |-> 0, e |-> FALSE]
    ELSE [type |-> IF IsIo(reg[k]) THEN "io" ELSE "mem",
          addr |-> Address(reg[k])
                   + (IF TakesTwo(reg[k]) THEN High * reg[k + 1] ELSE 0),
          e |-> ~TakesTwo(reg[k])]

(* Variant: the upper half is decoded once more, as a register.            *)
EveryRegister(reg) == [k \in 1 .. Registers |-> BarAt(reg, k)]

(* The loop: an entry of bar[] for each register but the upper halves; the *)
(* entries behind stay as memset left them.                                *)
Decode(reg) ==
    LET from[k \in 1 .. Registers + 2] ==
            IF k > Registers THEN <<>>
            ELSE <<BarAt(reg, k)>> \o from[k + (IF TakesTwo(reg[k]) THEN 2 ELSE 1)]
    IN  from[1]

pci_driver_register(ids) ==
    /\ pci_driver_list' = <<ids>> \o pci_driver_list
    /\ UNCHANGED <<pci_list, func, driver, bound, space>>

(* Variant: any driver will do.                                            *)
AnyDriver(id, ids) == ids # {}

pci_match(id, ids) == id \in ids

(* pci_new: nothing is there, and pci_probe goes on.                       *)
pci_absent(c) ==
    /\ func <= PCI_FUNCS /\ driver = 0
    /\ c \in Configs /\ c.id = Absent
    /\ space' = Append(space, c)
    /\ func' = func + 1
    /\ UNCHANGED <<pci_driver_list, pci_list, driver, bound>>

(* pci_new and pci_register.                                               *)
pci_found(c) ==
    /\ func <= PCI_FUNCS /\ driver = 0
    /\ c \in Configs /\ c.id # Absent
    /\ space' = Append(space, c)
    /\ pci_list' = <<[func |-> func, id |-> c.id, bar |-> Decode(c.reg)]>> \o pci_list
    /\ driver' = 1
    /\ UNCHANGED <<pci_driver_list, func, bound>>

(* A round of pci_load_driver's loop: the driver's new is called for the   *)
(* function found last.                                                    *)
pci_new_call ==
    /\ driver \in 1 .. Len(pci_driver_list)
    /\ pci_match(pci_list[1].id, pci_driver_list[driver])
    /\ bound' = Append(bound, func)
    /\ driver' = driver + 1
    /\ UNCHANGED <<pci_driver_list, pci_list, func, space>>

pci_no_match ==
    /\ driver \in 1 .. Len(pci_driver_list)
    /\ ~pci_match(pci_list[1].id, pci_driver_list[driver])
    /\ driver' = driver + 1
    /\ UNCHANGED <<pci_driver_list, pci_list, func, space, bound>>

pci_loaded ==
    /\ driver > Len(pci_driver_list) /\ driver # 0
    /\ driver' = 0 /\ func' = func + 1
    /\ UNCHANGED <<pci_driver_list, pci_list, space, bound>>

pci_probed == func > PCI_FUNCS
-----------------------------------------------------------------------------
(* Register k is the upper half of the address in the one before it.       *)
UpperHalf(reg) ==
    LET upper[k \in 1 .. Registers + 1] ==
            k > 1 /\ ~upper[k - 1] /\ ~IsIo(reg[k - 1]) /\ TakesTwo(reg[k - 1])
    IN  upper

(* Where each address starts.                                              *)
Lower(reg) == {k \in 1 .. Registers : ~UpperHalf(reg)[k]}

(* A range of ports as small as four, whose address may have bit 2 set:    *)
(* pci_new takes it for an address of two registers.                       *)
FourPorts(reg, k) == k \in Lower(reg) /\ IsIo(reg[k]) /\ TakesTwo(reg[k])

(* The address that starts in register k, without the flags in its low     *)
(* bits; of a port 16 bits count.                                          *)
RightAddress(reg, k) ==
    IF IsIo(reg[k]) THEN 4 * ((reg[k] % 65536) \div 4)
    ELSE 16 * (reg[k] \div 16) + (IF TakesTwo(reg[k]) THEN High * reg[k + 1] ELSE 0)

(* Its place among the function's addresses.                               *)
Place(reg, k) == Cardinality({j \in Lower(reg) : j <= k})

(* bar[] holds the function's addresses in their order, one for each pair  *)
(* of registers a 64-bit address takes and one for every other register,   *)
(* up to the first range of four ports, and, without such a range, nothing *)
(* else (pci_new).                                                         *)
BarsDecoded ==
    \A n \in 1 .. Len(pci_list) :
        LET reg == space[pci_list[n].func].reg
            bar == pci_list[n].bar
        IN  /\ \A k \in Lower(reg) : (\A j \in 1 .. k : ~FourPorts(reg, j)) =>
                   /\ Place(reg, k) \in 1 .. Len(bar)
                   /\ bar[Place(reg, k)].addr = RightAddress(reg, k)
            /\ (\A k \in Lower(reg) : ~FourPorts(reg, k)) =>
                   Len(bar) = Cardinality(Lower(reg))

(* After the probe the driver's new has been called once for every         *)
(* function it handles, and never for another one (pci_probe, pci_match,   *)
(* pci_load_driver).                                                       *)
DriverMeetsEveryFunction(ids) ==
    /\ \A j, k \in 1 .. Len(bound) : bound[j] = bound[k] => j = k
    /\ \A k \in 1 .. Len(bound) : space[bound[k]].id \in ids
    /\ pci_probed => \A f \in 1 .. PCI_FUNCS :
           space[f].id \in ids => \E k \in 1 .. Len(bound) : bound[k] = f
=============================================================================

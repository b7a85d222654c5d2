----------------------------- MODULE MCStartup -----------------------------
(***************************************************************************)
(* Startup with the six files of the kernel in every link order, two       *)
(* functions on the bus, two queues, and firmwares with and without each   *)
(* list and table.                                                         *)
(***************************************************************************)
EXTENDS Startup

MCFileNames ==
    [page |-> <<6>>, acpi |-> <<1>>, hpet |-> <<3>>,
     ixgbe |-> <<4>>, pci |-> <<5>>, apic |-> <<2>>]

(* Registers: none, in memory at 16, a 64-bit address at 32 (with the      *)
(* prefetchable bit), ports at 48, four ports at 52.                       *)
Space(id, a, b, c) == [id |-> id, reg |-> <<a, b, c>>]

MCConfigs ==
    {Space("absent", 0, 0, 0),
     Space("nic", 44, 1, 16), Space("nic", 16, 49, 0), Space("nic", 0, 0, 0),
     Space("other", 44, 17, 1), Space("other", 49, 36, 1), Space("other", 16, 53, 16)}

All == <<"FACP", "APIC", "HPET">>
TableList(entries, behind) == [there |-> TRUE, entry |-> entries, behind |-> behind]

MCFirmwares ==
    [rsdp : {"bios", "ebda", "none"}, hpet_address : BOOLEAN,
     rsdt : {NoTable, TableList(All, <<>>), TableList(<<"other", "FACP", "APIC">>, <<>>)},
     xsdt : {NoTable, TableList(All, <<"hole", "hole", "hole">>),
             TableList(<<"FACP", "APIC">>, <<"other", "other">>),
             TableList(<<"FACP", "other">>, <<"hole", "other">>)}]
=============================================================================

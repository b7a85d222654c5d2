-------------------------------- MODULE Acpi --------------------------------
(***************************************************************************)
(* How acpi_init (src/acpi.c) finds the firmware's tables.  A firmware is  *)
(* a record: where the RSDP's signature is met first, the lists it points  *)
(* to, and whether the HPET's table gives an address.  A list has          *)
(* entries, each the signature of the table it points to; behind the       *)
(* entries of an XSDT is other memory, whose words may point to something  *)
(* else or to a hole, where a load is a fault nobody handles.              *)
(***************************************************************************)
EXTENDS Sequences, Integers, Functions

(* The signatures acpi_init looks for, in its order.                       *)
Signatures == <<"FACP", "APIC", "HPET">>

Listed == {"FACP", "APIC", "HPET", "other"}

(* No list: its address is zero.                                           *)
NoTable == [there |-> FALSE, entry |-> <<>>, behind |-> <<>>]

(* What the first loop finds, from four times the word at 0x40e on, is not *)
(* returned, and then the BIOS area is not searched.                       *)
acpi_get_rsdp(f) == f.rsdp = "bios"

(* The first word of a sequence that is sig, or that faults.               *)
Scan(words, sig) ==
    IF \E k \in 1 .. Len(words) : words[k] \in {sig, "hole"}
    THEN words[CHOOSE k \in 1 .. Len(words) :
                   /\ words[k] \in {sig, "hole"}
                   /\ \A j \in 1 .. k - 1 : words[j] \notin {sig, "hole"}]
    ELSE "none"

(* An XSDT's length is divided by four, though its entries take eight      *)
(* bytes: as many words behind it are looked at.                           *)
acpi_get_xsdt_entry(xsdt, sig) == Scan(xsdt.entry \o xsdt.behind, sig)

acpi_get_rsdt_entry(rsdt, sig) == Scan(rsdt.entry, sig)

(* Variant: the RSDT is for machines without an XSDT.                      *)
OneList(f, sig) ==
    IF f.xsdt.there THEN acpi_get_xsdt_entry(f.xsdt, sig)
    ELSE acpi_get_rsdt_entry(f.rsdt, sig)

acpi_get_entry(f, sig) ==
    LET x == IF f.xsdt.there THEN acpi_get_xsdt_entry(f.xsdt, sig) ELSE "none"
    IN  IF x = "none" /\ f.rsdt.there THEN acpi_get_rsdt_entry(f.rsdt, sig) ELSE x

(* acpi_init goes on while it finds what it looks for: it ends with all    *)
(* three tables, at the first that is missing, or in a fault.              *)
acpi_search(f) ==
    IF ~acpi_get_rsdp(f) \/ (~f.rsdt.there /\ ~f.xsdt.there) THEN "none"
    ELSE LET got == [k \in 1 .. 3 |-> acpi_get_entry(f, Signatures[k])]
             ends == {k \in 1 .. 3 : got[k] # Signatures[k]}
         IN  IF ends = {} THEN "all"
             ELSE got[CHOOSE k \in ends : \A j \in ends : k <= j]
-----------------------------------------------------------------------------
(* The firmware has its RSDP where it is found, lists each of the three    *)
(* tables where the search gets, and says where the HPET is.               *)
Complete(f) ==
    /\ f.rsdp = "bios" /\ f.hpet_address
    /\ \A k \in 1 .. 3 :
           \/ f.xsdt.there /\ Signatures[k] \in Range(f.xsdt.entry)
           \/ /\ f.rsdt.there /\ Signatures[k] \in Range(f.rsdt.entry)
              /\ f.xsdt.there => "hole" \notin Range(f.xsdt.behind)
=============================================================================

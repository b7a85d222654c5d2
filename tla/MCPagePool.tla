----------------------------- MODULE MCPagePool -----------------------------
(***************************************************************************)
(* PagePool on memory maps of a dozen pages: low memory and a hole as on a *)
(* PC, one or two regions above the heap's base (10), the base inside of   *)
(* the first of them, and between the two no gap, a small one, the gap the *)
(* allocator needs, or the two the wrong way round.                        *)
(***************************************************************************)
EXTENDS PagePool

Entry(first, end, kind) == [addr |-> first, size |-> end - first, type |-> kind]

Low == <<Entry(0, 6, E820_USABLE), Entry(6, 8, 2)>>

(* The extra entry page_layout sees when the BIOS ends its list by CF.     *)
Phantom == Entry(0, 0, 0)

MCMaps ==
    { Low \o <<Entry(8, e, E820_USABLE), Entry(e + g, e + g + s, E820_USABLE)>> :
          e \in {13, 18}, g \in {0, 3, 12}, s \in {1, 5, 8} }
    \cup { Low \o <<Entry(8, e, E820_USABLE), Phantom>> : e \in {11, 15, 22} }
    \cup { <<Entry(24, 30, E820_USABLE), Entry(8, 14, E820_USABLE)>>,
           <<Entry(12, 16, E820_USABLE)>>,
           Low \o <<Entry(8, 10, E820_USABLE), Entry(11, 18, E820_USABLE)>>,
           <<Entry(8, 12, E820_USABLE), Entry(24, 25, E820_USABLE),
             Entry(37, 40, E820_USABLE)>> }

=============================================================================

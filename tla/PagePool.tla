------------------------------ MODULE PagePool ------------------------------
(***************************************************************************)
(* The page allocator (src/page.c): page_layout reads the BIOS's E820      *)
(* memory map into page_freelist and finds the region the heap starts in;  *)
(* page_alloc then moves HeapTop upwards through the regions of that list  *)
(* and never takes a page back (page_free does nothing).                   *)
(***************************************************************************)
EXTENDS Integers, Sequences, FiniteSets

CONSTANTS
    E820Maps,             \* the memory maps the BIOS may report
    BOOT_BSP_HEAP_BASE,   \* the address the heap starts at (include/boot.h)
    PAGESIZE,             \* bytes of a page (0x1000 in the code)
    MaxPages              \* the most pages one page_alloc asks for

(* enum e820type: the one type page_layout keeps.                          *)
E820_USABLE == 1

Bytes(pages) == pages * PAGESIZE

(* What the BIOS reports: an entry has an address, a size and a type.      *)
E820Entry == [addr : Nat, size : Nat, type : Nat]

EndOf(region) == region.addr + region.size

ASSUME PageAssumption ==
    /\ PAGESIZE \in Nat \ {0}
    /\ MaxPages \in Nat \ {0}
    /\ BOOT_BSP_HEAP_BASE \in Nat \ {0}

(* struct freelist page_freelist[32].                                      *)
FREELIST == 32

(* Each map is a sequence of entries.  One usable region ends above the    *)
(* heap's base: the machine has more than the 65 MiB the kernel takes.     *)
(* There are no more usable regions than page_freelist has places, which   *)
(* page_layout does not check.                                             *)
ASSUME E820Assumption ==
    \A m \in E820Maps :
        /\ m \in Seq(E820Entry)
        /\ Cardinality({i \in 1 .. Len(m) : m[i].type = E820_USABLE}) <= FREELIST
        /\ \E i \in 1 .. Len(m) : /\ m[i].type = E820_USABLE
                                  /\ EndOf(m[i]) > BOOT_BSP_HEAP_BASE

VARIABLES
    e820,                  \* the map the boot loader stored at BOOT_E820_BASE
    cursor,                \* page_layout's p: the entry it reads next
    page_freelist,         \* the usable regions, in the map's order
    page_freelist_index,   \* the region HeapTop is in, counted from 0
    page_heap_offset,      \* HeapTop, relative to the heap's base
    page_phase,            \* where the page allocator's code is
    page_blocks            \* history: the blocks page_alloc returned

poolVars == <<e820, cursor, page_freelist, page_freelist_index,
              page_heap_offset, page_phase, page_blocks>>
layoutVars == <<e820, cursor, page_freelist>>

HeapTop == page_heap_offset + BOOT_BSP_HEAP_BASE

(* page_freelist[i] of the code.  The array is zero beyond the entries     *)
(* page_layout stored.                                                     *)
Region(i) == IF i < Len(page_freelist) THEN page_freelist[i + 1]
             ELSE [addr |-> 0, size |-> 0]

PoolTypeOK ==
    /\ e820 \in Seq(E820Entry)
    /\ cursor \in Nat \ {0}
    /\ page_freelist \in Seq([addr : Nat, size : Nat])
    /\ page_freelist_index \in Nat
    /\ page_heap_offset \in Int
    /\ page_phase \in {"scan", "locate", "ready", "panic"}
    /\ page_blocks \in Seq([addr : Int, pages : 1 .. MaxPages])
-----------------------------------------------------------------------------
(* page_alloc_init, then the first test of page_layout's loop.             *)
PoolInit ==
    /\ e820 \in E820Maps
    /\ cursor = 1
    /\ page_freelist = <<>>
    /\ page_freelist_index = 0
    /\ page_heap_offset = 0
    /\ page_phase = "scan"
    /\ page_blocks = <<>>

(* Variant: a region's last page is cut off before the sizes are checked.  *)
ScanShort ==
    /\ page_phase = "scan"
    /\ cursor <= Len(e820)
    /\ page_freelist' =
           IF e820[cursor].type = E820_USABLE
           THEN Append(page_freelist, [addr |-> e820[cursor].addr,
                                       size |-> e820[cursor].size - PAGESIZE])
           ELSE page_freelist
    /\ cursor' = cursor + 1
    /\ UNCHANGED <<e820, page_freelist_index, page_heap_offset, page_phase,
                   page_blocks>>

(* One round of page_layout's loop over the map.                           *)
page_layout_scan ==
    /\ page_phase = "scan"
    /\ cursor <= Len(e820)
    /\ page_freelist' =
           IF e820[cursor].type = E820_USABLE
           THEN Append(page_freelist, [addr |-> e820[cursor].addr,
                                       size |-> e820[cursor].size])
           ELSE page_freelist
    /\ cursor' = cursor + 1
    /\ UNCHANGED <<e820, page_freelist_index, page_heap_offset, page_phase,
                   page_blocks>>

page_layout_scanned ==
    /\ page_phase = "scan"
    /\ cursor > Len(e820)
    /\ page_phase' = "locate"
    /\ UNCHANGED <<layoutVars, page_freelist_index, page_heap_offset,
                   page_blocks>>

(* Variant: a region that ends at HeapTop is taken for the heap's.         *)
EndsBelow == HeapTop > EndOf(Region(page_freelist_index))

(* The test of the loop that looks for the heap's region.                  *)
RegionBelowHeap == HeapTop >= EndOf(Region(page_freelist_index))

(* One round of that loop.                                                 *)
page_layout_skip ==
    /\ page_phase = "locate"
    /\ RegionBelowHeap
    /\ page_freelist_index' = page_freelist_index + 1
    /\ UNCHANGED <<layoutVars, page_heap_offset, page_phase, page_blocks>>

(* The end of page_layout.  A HeapTop below the region it found ("Wrong    *)
(* allocation") is printed and used all the same.                          *)
page_layout_located ==
    /\ page_phase = "locate"
    /\ ~RegionBelowHeap
    /\ page_phase' = "ready"
    /\ UNCHANGED <<layoutVars, page_freelist_index, page_heap_offset,
                   page_blocks>>

(* Variant: the region is left with a page in hand.                        *)
ExhaustedEarly == EndOf(Region(page_freelist_index)) < HeapTop + 2 * PAGESIZE

(* page_alloc's test: less than one page is left of the region.  How many  *)
(* pages the caller asks for plays no part in it.                          *)
Exhausted == EndOf(Region(page_freelist_index)) < HeapTop + PAGESIZE

(* p is HeapTop as it was before a move to the next region.                *)
page_return(pages) ==
    page_blocks' = Append(page_blocks, [addr |-> HeapTop, pages |-> pages])

(* Variant: HeapTop moves by one page whatever was asked for.              *)
OnePageOnly(pages) ==
    /\ page_phase = "ready"
    /\ ~Exhausted
    /\ page_heap_offset' = page_heap_offset + PAGESIZE
    /\ page_return(pages)
    /\ UNCHANGED <<layoutVars, page_freelist_index, page_phase>>

page_alloc_here(pages) ==
    /\ page_phase = "ready"
    /\ ~Exhausted
    /\ page_heap_offset' = page_heap_offset + Bytes(pages)
    /\ page_return(pages)
    /\ UNCHANGED <<layoutVars, page_freelist_index, page_phase>>

page_alloc_move(pages) ==
    /\ page_phase = "ready"
    /\ Exhausted
    /\ page_freelist_index' = page_freelist_index + 1
    /\ page_freelist_index' < Len(page_freelist)
    /\ page_heap_offset' = Region(page_freelist_index').addr
                               - BOOT_BSP_HEAP_BASE + Bytes(pages)
    /\ page_return(pages)
    /\ UNCHANGED <<layoutVars, page_phase>>

(* The last region is used up: panic prints its message and spins.         *)
page_alloc_panic ==
    /\ page_phase = "ready"
    /\ Exhausted
    /\ page_freelist_index' = page_freelist_index + 1
    /\ page_freelist_index' >= Len(page_freelist)
    /\ page_phase' = "panic"
    /\ UNCHANGED <<layoutVars, page_heap_offset, page_blocks>>

panic_spin == page_phase = "panic" /\ UNCHANGED poolVars

page_layout ==
    \/ page_layout_scan \/ page_layout_scanned
    \/ page_layout_skip \/ page_layout_located

page_alloc(pages) == page_alloc_here(pages) \/ page_alloc_move(pages)

PoolNext ==
    \/ page_layout
    \/ \E pages \in 1 .. MaxPages : page_alloc(pages)
    \/ page_alloc_panic
    \/ panic_spin

PoolSpec == PoolInit /\ [][PoolNext]_poolVars

(* The boot processor executes page_layout without interruption.           *)
PoolFairSpec == PoolSpec /\ WF_poolVars(page_layout)
-----------------------------------------------------------------------------
BlockEnd(b) == b.addr + Bytes(b.pages)

(* The gap page_alloc needs after a region to stay out of the next one: it *)
(* checks for one page at most, so HeapTop may overrun the region by a     *)
(* block of MaxPages, and the last block returned starts there.            *)
Overrun == 2 * Bytes(MaxPages)

(* From the region the heap starts in, each region lies above the one      *)
(* before it, with such a gap between them.                                *)
WellSpaced ==
    \A i \in 1 .. Len(page_freelist) - 1 :
        EndOf(page_freelist[i]) > BOOT_BSP_HEAP_BASE =>
            page_freelist[i + 1].addr >= EndOf(page_freelist[i]) + Overrun

BlocksDisjoint ==
    \A i, j \in 1 .. Len(page_blocks) :
        i < j => BlockEnd(page_blocks[i]) <= page_blocks[j].addr

(* No page is handed out twice (page_alloc): where the regions are spaced  *)
(* by the most a block can overrun one, every block lies above all the     *)
(* blocks returned before it, moves from region to region included.        *)
NoPageHandedOutTwice == WellSpaced => BlocksDisjoint

InRegion(a) == \E r \in 1 .. Len(page_freelist) :
                   page_freelist[r].addr <= a /\ a < EndOf(page_freelist[r])

(* HeapTop outside of the usable regions is what page_layout reports as    *)
(* "Wrong allocation. (HeapTop: ..., Out: ...)" (src/page.c:96), and the   *)
(* message of page_alloc says "Allocation. (HeapTop: ..., In: ...)"        *)
(* (src/page.c:114): on a spaced map that page_layout has nothing to       *)
(* report of, every block page_alloc returns starts in usable memory.      *)
BlocksStartInUsableMemory ==
    WellSpaced /\ InRegion(BOOT_BSP_HEAP_BASE) =>
        \A i \in 1 .. Len(page_blocks) : InRegion(page_blocks[i].addr)

(* Both loops of page_layout end, whatever the map's order and its         *)
(* unusable entries, and before the first block is asked for the index is  *)
(* that of the first region of the list that ends above the heap's base,   *)
(* which is the first one the heap can have pages of.                      *)
LayoutEnds ==
    <>(/\ page_phase = "ready" /\ page_blocks = <<>>
       /\ page_freelist_index < Len(page_freelist)
       /\ EndOf(Region(page_freelist_index)) > BOOT_BSP_HEAP_BASE
       /\ \A i \in 0 .. page_freelist_index - 1 :
              EndOf(Region(i)) <= BOOT_BSP_HEAP_BASE)

(* Memory is not given up early: where the regions are spaced, page_alloc   *)
(* panics only with less than one page left above HeapTop in every region. *)
PanicOnlyWhenUsedUp ==
    page_phase = "panic" /\ WellSpaced =>
        \A r \in 1 .. Len(page_freelist) :
            EndOf(page_freelist[r]) < HeapTop + PAGESIZE
=============================================================================

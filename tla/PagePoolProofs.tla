--------------------------- MODULE PagePoolProofs ---------------------------
(***************************************************************************)
(* Proofs about the page allocator: for every memory map, page size and    *)
(* request size, no page is handed out twice and none is given up early,   *)
(* as long as the map's regions are spaced by what a block can overrun.    *)
(***************************************************************************)
EXTENDS PagePool, SequenceTheorems, TLAPS

(* Before page_alloc is called for the first time.                         *)
NothingAllocated ==
    page_phase \in {"scan", "locate"} =>
        /\ page_blocks = <<>>
        /\ page_heap_offset = 0
        /\ page_phase = "scan" => page_freelist_index = 0

(* What page_alloc leaves behind is at or below HeapTop.                   *)
BlocksBelowTop ==
    \A i \in 1 .. Len(page_blocks) : BlockEnd(page_blocks[i]) <= HeapTop

(* The regions page_freelist_index has passed are used up.                 *)
PassedUsedUp ==
    \A r \in 1 .. Len(page_freelist) :
        r <= page_freelist_index => EndOf(page_freelist[r]) < HeapTop + PAGESIZE

(* HeapTop overruns the region it is in by the largest block at most.       *)
TopNearRegion ==
    page_phase = "ready" =>
        /\ page_freelist_index < Len(page_freelist)
        /\ EndOf(page_freelist[page_freelist_index + 1]) > BOOT_BSP_HEAP_BASE
        /\ HeapTop <= EndOf(page_freelist[page_freelist_index + 1])
                          + Bytes(MaxPages)

(* The inductive invariant: that blocks are disjoint follows only together *)
(* with where HeapTop can be when page_alloc moves to another region.      *)
PoolIInv ==
    /\ PoolTypeOK
    /\ NothingAllocated
    /\ PanicOnlyWhenUsedUp
    /\ WellSpaced => /\ BlocksDisjoint
                     /\ BlocksBelowTop
                     /\ PassedUsedUp
                     /\ TopNearRegion

(* A request is of one page at least, and of MaxPages at most.             *)
LEMMA BytesBounds ==
    ASSUME NEW pages \in 1 .. MaxPages
    PROVE  /\ Bytes(pages) \in Nat
           /\ PAGESIZE <= Bytes(pages)
           /\ Bytes(pages) <= Bytes(MaxPages)
           /\ Bytes(MaxPages) \in Nat
<1>1. PAGESIZE \in Nat \ {0} /\ MaxPages \in Nat \ {0} /\ pages \in Nat /\ pages >= 1
      /\ MaxPages >= pages
  BY PageAssumption
<1>2. \A k \in Nat : k * PAGESIZE \in Nat /\ k * PAGESIZE >= 0
  BY <1>1
<1>3. (pages - 1) * PAGESIZE >= 0 /\ (MaxPages - pages) * PAGESIZE >= 0
  BY <1>1, <1>2
<1>4. /\ pages * PAGESIZE = PAGESIZE + (pages - 1) * PAGESIZE
      /\ MaxPages * PAGESIZE = pages * PAGESIZE + (MaxPages - pages) * PAGESIZE
  BY <1>1
<1> QED
  BY <1>1, <1>2, <1>3, <1>4 DEF Bytes

(* An index page_layout filled in denotes a region of the list.            *)
LEMMA RegionInList ==
    ASSUME PoolTypeOK, NEW r \in 1 .. Len(page_freelist)
    PROVE  /\ r \in Nat
           /\ page_freelist[r] \in [addr : Nat, size : Nat]
           /\ EndOf(page_freelist[r]) \in Nat
<1> DEFINE S == [addr : Nat, size : Nat]
<1>1. page_freelist \in Seq(S) /\ r \in Nat
  BY DEF PoolTypeOK
<1>2. page_freelist[r] \in S
  <2> HIDE DEF S
  <2> QED
    BY <1>1, ElementOfSeq
<1> QED
  BY <1>1, <1>2 DEF EndOf

(* page_init leaves PoolIInv true.                                         *)
LEMMA PoolInitInv == PoolInit => PoolIInv
<1> SUFFICES ASSUME PoolInit PROVE PoolIInv
  OBVIOUS
<1>1. e820 \in Seq(E820Entry)
  BY E820Assumption, Zenon DEF PoolInit
<1>2. PoolTypeOK
  BY <1>1, PageAssumption, EmptySeq DEF PoolInit, PoolTypeOK
<1> QED
  BY <1>2 DEF PoolInit, PoolIInv, NothingAllocated, PanicOnlyWhenUsedUp,
              BlocksDisjoint, BlocksBelowTop, PassedUsedUp, TopNearRegion

(* A step that leaves everything but page_phase and the index alone and    *)
(* takes place before the first allocation.                                *)
LEMMA PoolLayoutInv == PoolIInv /\ page_layout => PoolIInv'
<1> SUFFICES ASSUME PoolIInv, page_layout PROVE PoolIInv'
  OBVIOUS
<1> USE DEF PoolIInv, PoolTypeOK, layoutVars, NothingAllocated
<1>1. CASE page_layout_scan
  <2>1. page_freelist' \in Seq([addr : Nat, size : Nat])
    <3>1. cursor \in 1 .. Len(e820) /\ e820[cursor] \in E820Entry
      BY <1>1, LenProperties DEF page_layout_scan
    <3>2. [addr |-> e820[cursor].addr, size |-> e820[cursor].size]
              \in [addr : Nat, size : Nat]
      BY <3>1 DEF E820Entry
    <3> QED
      BY <1>1, <3>2, AppendProperties DEF page_layout_scan
  <2>2. PoolTypeOK' /\ NothingAllocated' /\ PanicOnlyWhenUsedUp'
    BY <1>1, <2>1 DEF page_layout_scan, PanicOnlyWhenUsedUp
  <2>3. page_blocks' = <<>> /\ page_freelist_index' = 0 /\ page_phase' = "scan"
    BY <1>1 DEF page_layout_scan
  <2> QED
    BY <2>1, <2>2, <2>3, LenProperties
    DEF BlocksDisjoint, BlocksBelowTop, PassedUsedUp, TopNearRegion
<1>2. CASE page_layout_scanned
  BY <1>2 DEF page_layout_scanned, PanicOnlyWhenUsedUp, WellSpaced,
     BlocksDisjoint, BlocksBelowTop, PassedUsedUp, TopNearRegion
<1>3. CASE page_layout_skip
  <2>1. HeapTop = BOOT_BSP_HEAP_BASE /\ HeapTop' = HeapTop
    BY <1>3, PageAssumption DEF page_layout_skip, HeapTop
  <2>2. ASSUME WellSpaced', NEW r \in 1 .. Len(page_freelist),
               r <= page_freelist_index + 1
        PROVE  EndOf(page_freelist[r]) < HeapTop + PAGESIZE
    <3>1. PassedUsedUp
      BY <1>3, <2>2 DEF page_layout_skip, WellSpaced
    <3>2. EndOf(page_freelist[r]) \in Int /\ r \in Nat
      BY RegionInList
    <3>3. CASE r <= page_freelist_index
      BY <3>1, <3>3 DEF PassedUsedUp
    <3>4. CASE r = page_freelist_index + 1
      <4>1. Region(page_freelist_index) = page_freelist[r]
        BY <3>4, LenProperties DEF Region
      <4> QED
        BY <1>3, <2>1, <3>2, <4>1, PageAssumption
        DEF page_layout_skip, RegionBelowHeap
    <3> QED
      BY <2>2, <3>2, <3>3, <3>4
  <2> QED
    BY <1>3, <2>1, <2>2
    DEF page_layout_skip, PanicOnlyWhenUsedUp, WellSpaced,
        BlocksDisjoint, BlocksBelowTop, PassedUsedUp, TopNearRegion
<1>4. CASE page_layout_located
  <2>1. HeapTop = BOOT_BSP_HEAP_BASE /\ HeapTop' = HeapTop
    BY <1>4, PageAssumption DEF page_layout_located, HeapTop
  <2>2. page_freelist_index < Len(page_freelist)
    <3>1. CASE ~(page_freelist_index < Len(page_freelist))
      <4>1. EndOf(Region(page_freelist_index)) = 0
        BY <3>1 DEF Region, EndOf
      <4> QED
        BY <1>4, <2>1, <4>1, PageAssumption
        DEF page_layout_located, RegionBelowHeap
    <3> QED
      BY <3>1
  <2>3. TopNearRegion'
    <3>1. PAGESIZE <= Bytes(MaxPages) /\ Bytes(MaxPages) \in Nat
      BY BytesBounds, PageAssumption
    <3>2. /\ Region(page_freelist_index) = page_freelist[page_freelist_index + 1]
          /\ EndOf(Region(page_freelist_index)) \in Nat
      <4>1. page_freelist_index + 1 \in 1 .. Len(page_freelist)
        BY <2>2, LenProperties
      <4> QED
        BY <2>2, <4>1, RegionInList DEF Region
    <3> QED
      BY <1>4, <2>1, <2>2, <3>1, <3>2, PageAssumption
      DEF page_layout_located, RegionBelowHeap, TopNearRegion
  <2> QED
    BY <1>4, <2>1, <2>3
    DEF page_layout_located, PanicOnlyWhenUsedUp, WellSpaced,
        BlocksDisjoint, BlocksBelowTop, PassedUsedUp
<1> QED
  BY <1>1, <1>2, <1>3, <1>4 DEF page_layout

(* What a caller of page_alloc relies on: the block it gets starts at the  *)
(* old HeapTop or above, lies below the new one, and nothing else moves.   *)
LEMMA PageAllocBlock ==
    ASSUME PoolIInv, WellSpaced, NEW pages \in 1 .. MaxPages, page_alloc(pages)
    PROVE  /\ HeapTop \in Int
           /\ HeapTop' \in Int
           /\ Bytes(pages) \in Nat
           /\ HeapTop + Bytes(pages) <= HeapTop'
<1> USE DEF PoolIInv, PoolTypeOK
<1>1. /\ Bytes(pages) \in Nat
      /\ PAGESIZE <= Bytes(pages)
      /\ Bytes(pages) <= Bytes(MaxPages)
      /\ Bytes(MaxPages) \in Nat
      /\ BOOT_BSP_HEAP_BASE \in Nat
      /\ PAGESIZE \in Nat
  BY BytesBounds, PageAssumption
<1>2. CASE page_alloc_here(pages)
  BY <1>1, <1>2 DEF page_alloc_here, HeapTop
<1>3. CASE page_alloc_move(pages)
  <2> DEFINE r == page_freelist_index + 1
  <2>1. /\ r \in 1 .. Len(page_freelist) - 1
        /\ r + 1 \in 1 .. Len(page_freelist)
        /\ r \in 1 .. Len(page_freelist)
    BY <1>3, LenProperties DEF page_alloc_move
  <2>2. /\ Region(page_freelist_index) = page_freelist[r]
        /\ Region(r) = page_freelist[r + 1]
    BY <2>1 DEF Region
  <2>3. EndOf(page_freelist[r]) \in Nat /\ page_freelist[r + 1].addr \in Nat
    BY <2>1, RegionInList
  <2>4. /\ EndOf(page_freelist[r]) > BOOT_BSP_HEAP_BASE
        /\ HeapTop <= EndOf(page_freelist[r]) + Bytes(MaxPages)
    BY <1>3 DEF TopNearRegion, page_alloc_move
  <2>5. page_freelist[r + 1].addr
            >= EndOf(page_freelist[r]) + 2 * Bytes(MaxPages)
    BY <2>1, <2>4 DEF WellSpaced, Overrun
  <2>6. page_heap_offset' =
            page_freelist[r + 1].addr - BOOT_BSP_HEAP_BASE + Bytes(pages)
    BY <1>3, <2>2 DEF page_alloc_move
  <2> HIDE DEF r
  <2>7. HeapTop \in Int
    BY <1>1 DEF HeapTop
  <2> HIDE DEF PoolIInv, PoolTypeOK
  <2>8. HeapTop' = page_freelist[r + 1].addr + Bytes(pages)
    BY <1>1, <2>3, <2>6 DEF HeapTop
  <2> QED
    BY <1>1, <2>3, <2>4, <2>5, <2>7, <2>8
<1> QED
  BY <1>2, <1>3 DEF page_alloc

(* A page_alloc that returns keeps PoolIInv.                               *)
LEMMA PageAllocInv ==
    ASSUME PoolIInv, NEW pages \in 1 .. MaxPages, page_alloc(pages)
    PROVE  PoolIInv'
<1> DEFINE b == [addr |-> HeapTop, pages |-> pages]
<1>1. /\ Bytes(pages) \in Nat
      /\ PAGESIZE <= Bytes(pages)
      /\ Bytes(pages) <= Bytes(MaxPages)
      /\ Bytes(MaxPages) \in Nat
      /\ BOOT_BSP_HEAP_BASE \in Nat \ {0}
      /\ PAGESIZE \in Nat
  BY BytesBounds, PageAssumption
<1>2. /\ page_phase = "ready"
      /\ page_phase' = "ready"
      /\ page_freelist' = page_freelist
      /\ page_blocks' = Append(page_blocks, b)
      /\ page_freelist_index' \in {page_freelist_index, page_freelist_index + 1}
  BY DEF page_alloc, page_alloc_here, page_alloc_move, page_return, layoutVars
<1>3. b \in [addr : Int, pages : 1 .. MaxPages]
  BY PageAssumption DEF HeapTop, PoolIInv, PoolTypeOK
<1>4. /\ page_blocks' \in Seq([addr : Int, pages : 1 .. MaxPages])
      /\ Len(page_blocks') = Len(page_blocks) + 1
      /\ Len(page_blocks) \in Nat
      /\ page_blocks'[Len(page_blocks) + 1] = b
      /\ \A i \in 1 .. Len(page_blocks) : page_blocks'[i] = page_blocks[i]
  BY <1>2, <1>3, AppendProperties, LenProperties DEF PoolIInv, PoolTypeOK
<1>5. PoolTypeOK'
  <2>1. page_heap_offset' \in Int
    <3>1. CASE page_alloc_here(pages)
      BY <1>1, <3>1 DEF page_alloc_here, PoolIInv, PoolTypeOK
    <3>2. CASE page_alloc_move(pages)
      <4>1. page_freelist_index + 1 + 1 \in 1 .. Len(page_freelist)
        BY <3>2, LenProperties DEF page_alloc_move, PoolIInv, PoolTypeOK
      <4>2. page_freelist[page_freelist_index + 1 + 1].addr \in Nat
        BY <4>1, RegionInList DEF PoolIInv
      <4> QED
        BY <1>1, <3>2, <4>2 DEF page_alloc_move, Region
    <3> QED
      BY <3>1, <3>2 DEF page_alloc
  <2> QED
    BY <1>2, <1>4, <2>1
    DEF page_alloc, page_alloc_here, page_alloc_move, layoutVars,
        PoolIInv, PoolTypeOK
<1>6. ASSUME WellSpaced
      PROVE  BlocksDisjoint' /\ BlocksBelowTop' /\ PassedUsedUp' /\ TopNearRegion'
  <2>1. BlocksDisjoint /\ BlocksBelowTop /\ PassedUsedUp /\ TopNearRegion
    BY <1>6 DEF PoolIInv
  <2>2. HeapTop \in Int /\ HeapTop' \in Int /\ HeapTop + Bytes(pages) <= HeapTop'
    BY <1>6, PageAllocBlock
  <2>3. \A i \in 1 .. Len(page_blocks) :
            BlockEnd(page_blocks'[i]) = BlockEnd(page_blocks[i])
    BY <1>4
  <2>4. BlockEnd(b) = HeapTop + Bytes(pages) /\ b.addr = HeapTop
    BY DEF BlockEnd
  <2>5. \A i \in 1 .. Len(page_blocks) : BlockEnd(page_blocks[i]) \in Int
    <3> TAKE i \in 1 .. Len(page_blocks)
    <3>1. page_blocks[i] \in [addr : Int, pages : 1 .. MaxPages]
      <4> DEFINE S == [addr : Int, pages : 1 .. MaxPages]
      <4>1. page_blocks \in Seq(S)
        BY DEF PoolIInv, PoolTypeOK
      <4> HIDE DEF S
      <4>2. page_blocks[i] \in S
        BY <4>1, ElementOfSeq
      <4> QED
        BY <4>2 DEF S
    <3> QED
      BY <3>1, BytesBounds DEF BlockEnd
  <2>6. BlocksDisjoint'
    <3> SUFFICES ASSUME NEW i \in 1 .. Len(page_blocks'),
                        NEW j \in 1 .. Len(page_blocks'), i < j
                 PROVE  BlockEnd(page_blocks'[i]) <= page_blocks'[j].addr
      BY DEF BlocksDisjoint, BlockEnd
    <3> DEFINE L == Len(page_blocks)
    <3>0. L \in Nat /\ i \in 1 .. L + 1 /\ j \in 1 .. L + 1
      BY <1>4
    <3> HIDE DEF L
    <3>1. i \in 1 .. L /\ (j \in 1 .. L \/ j = L + 1)
      BY <3>0
    <3> USE DEF L
    <3>2. CASE j \in 1 .. Len(page_blocks)
      BY <1>4, <2>1, <2>3, <3>1, <3>2 DEF BlocksDisjoint
    <3>3. CASE j = Len(page_blocks) + 1
      <4>1. page_blocks'[j].addr = HeapTop
        BY <1>4, <2>4, <3>3
      <4>2. BlockEnd(page_blocks'[i]) <= HeapTop
        BY <2>1, <2>3, <3>1 DEF BlocksBelowTop
      <4> QED
        BY <4>1, <4>2
    <3> QED
      BY <3>1, <3>2, <3>3
  <2>7. BlocksBelowTop'
    <3> SUFFICES ASSUME NEW i \in 1 .. Len(page_blocks')
                 PROVE  BlockEnd(page_blocks'[i]) <= HeapTop'
      BY DEF BlocksBelowTop, BlockEnd
    <3>1. CASE i \in 1 .. Len(page_blocks)
      <4>1. BlockEnd(page_blocks[i]) <= HeapTop
        BY <2>1, <3>1 DEF BlocksBelowTop
      <4> QED
        BY <1>1, <2>2, <2>3, <2>5, <3>1, <4>1
    <3>2. CASE i = Len(page_blocks) + 1
      BY <1>4, <2>2, <2>4, <3>2
    <3> QED
      BY <1>4, <3>1, <3>2
  <2>8. PassedUsedUp' /\ TopNearRegion'
    <3>1. \A r \in 1 .. Len(page_freelist) : EndOf(page_freelist[r]) \in Nat
      BY RegionInList DEF PoolIInv
    <3>2. CASE page_alloc_here(pages)
      <4>1. /\ page_freelist_index' = page_freelist_index
            /\ ~Exhausted
            /\ HeapTop' = HeapTop + Bytes(pages)
        BY <1>1, <3>2 DEF page_alloc_here, HeapTop, PoolIInv, PoolTypeOK
      <4>2. PassedUsedUp'
        BY <1>1, <1>2, <2>1, <2>2, <3>1, <4>1 DEF PassedUsedUp
      <4>3. /\ page_freelist_index + 1 \in 1 .. Len(page_freelist)
            /\ Region(page_freelist_index) = page_freelist[page_freelist_index + 1]
        BY <1>2, <2>1, LenProperties
        DEF TopNearRegion, Region, PoolIInv, PoolTypeOK
      <4>4. TopNearRegion'
        BY <1>1, <1>2, <2>1, <2>2, <3>1, <4>1, <4>3
        DEF TopNearRegion, Exhausted
      <4> QED
        BY <4>2, <4>4
    <3>3. CASE page_alloc_move(pages)
      <4> DEFINE s == page_freelist_index + 2
      <4>1. /\ page_freelist_index' = page_freelist_index + 1
            /\ page_freelist_index \in Nat
            /\ s \in 1 .. Len(page_freelist)
            /\ s - 1 \in 1 .. Len(page_freelist) - 1
            /\ s - 1 \in 1 .. Len(page_freelist)
            /\ Exhausted
        BY <3>3, LenProperties DEF page_alloc_move, PoolIInv, PoolTypeOK
      <4>2. /\ Region(page_freelist_index') = page_freelist[s]
            /\ Region(page_freelist_index) = page_freelist[s - 1]
        BY <4>1 DEF Region
      <4>3. page_freelist[s].addr \in Nat /\ page_freelist[s].size \in Nat
        BY <4>1, RegionInList DEF PoolIInv
      <4>4. HeapTop' = page_freelist[s].addr + Bytes(pages)
        <5> HIDE DEF s
        <5>1. page_heap_offset' =
                  page_freelist[s].addr - BOOT_BSP_HEAP_BASE + Bytes(pages)
          BY <3>3, <4>2 DEF page_alloc_move
        <5> QED
          BY <1>1, <4>3, <5>1 DEF HeapTop
      <4>5. PassedUsedUp'
        <5>1. EndOf(page_freelist[s - 1]) < HeapTop + PAGESIZE
          BY <4>1, <4>2 DEF Exhausted
        <5> SUFFICES ASSUME NEW r \in 1 .. Len(page_freelist),
                            r <= page_freelist_index + 1
                     PROVE  EndOf(page_freelist[r]) < HeapTop' + PAGESIZE
          BY <1>2, <4>1 DEF PassedUsedUp
        <5>2. EndOf(page_freelist[r]) < HeapTop + PAGESIZE
          BY <2>1, <4>1, <5>1 DEF PassedUsedUp
        <5> QED
          BY <1>1, <2>2, <3>1, <5>2
      <4>6. EndOf(page_freelist[s - 1]) > BOOT_BSP_HEAP_BASE
        BY <1>2, <2>1, <4>1 DEF TopNearRegion
      <4>7. /\ page_freelist[s].addr >= EndOf(page_freelist[s - 1]) + Overrun
            /\ Overrun \in Nat
        <5>1. s - 1 + 1 = s
          BY <4>1
        <5> QED
          BY <1>1, <1>6, <4>1, <4>6, <5>1, BytesBounds, PageAssumption
          DEF WellSpaced, Overrun
      <4>8. EndOf(page_freelist[s]) = page_freelist[s].addr + page_freelist[s].size
        BY DEF EndOf
      <4>9. page_freelist_index' + 1 = s
        BY <4>1
      <4>10. /\ EndOf(page_freelist[s]) > BOOT_BSP_HEAP_BASE
             /\ HeapTop' <= EndOf(page_freelist[s]) + Bytes(MaxPages)
        <5> HIDE DEF s
        <5>1. EndOf(page_freelist[s - 1]) \in Nat
          BY <3>1, <4>1
        <5>2. PAGESIZE <= Bytes(MaxPages)
          BY <1>1
        <5> QED
          BY <1>1, <4>3, <4>4, <4>6, <4>7, <4>8, <5>1, <5>2
      <4>11. TopNearRegion'
        <5> HIDE DEF s
        <5>1. page_freelist_index' < Len(page_freelist)
          BY <3>3 DEF page_alloc_move
        <5> QED
          BY <1>2, <4>9, <4>10, <5>1 DEF TopNearRegion
      <4> QED
        BY <4>5, <4>11
    <3> QED
      BY <3>2, <3>3 DEF page_alloc
  <2> QED
    BY <2>6, <2>7, <2>8
<1>7. WellSpaced' => WellSpaced
  BY <1>2 DEF WellSpaced
<1> QED
  BY <1>2, <1>5, <1>6, <1>7 DEF PoolIInv, NothingAllocated, PanicOnlyWhenUsedUp

(* So does the one that panics.                                            *)
LEMMA PagePanicInv == PoolIInv /\ page_alloc_panic => PoolIInv'
<1> SUFFICES ASSUME PoolIInv, page_alloc_panic PROVE PoolIInv'
  OBVIOUS
<1>1. /\ PoolTypeOK' /\ NothingAllocated' /\ TopNearRegion'
      /\ page_phase = "ready" /\ HeapTop' = HeapTop
      /\ BlocksDisjoint => BlocksDisjoint'
      /\ BlocksBelowTop => BlocksBelowTop'
      /\ WellSpaced' => WellSpaced
  BY DEF PoolIInv, PoolTypeOK, NothingAllocated, TopNearRegion, BlocksDisjoint,
         BlocksBelowTop, HeapTop, WellSpaced, page_alloc_panic, layoutVars
<1>2. ASSUME WellSpaced, NEW r \in 1 .. Len(page_freelist)
      PROVE  /\ EndOf(page_freelist[r]) < HeapTop + PAGESIZE
             /\ EndOf(page_freelist[r]) < HeapTop' + PAGESIZE
  <2>1. /\ PassedUsedUp
        /\ page_freelist_index + 1 = Len(page_freelist)
        /\ page_freelist_index + 1 \in 1 .. Len(page_freelist)
        /\ page_freelist_index \in Nat
        /\ EndOf(Region(page_freelist_index)) < HeapTop + PAGESIZE
    BY <1>1, <1>2, LenProperties
    DEF PoolIInv, PoolTypeOK, TopNearRegion, page_alloc_panic, Exhausted
  <2>2. EndOf(page_freelist[page_freelist_index + 1]) < HeapTop + PAGESIZE
    BY <2>1 DEF Region
  <2>3. CASE r <= page_freelist_index
    BY <1>1, <2>1, <2>3 DEF PassedUsedUp
  <2>4. CASE r = page_freelist_index + 1
    BY <1>1, <2>2, <2>4
  <2> QED
    BY <2>1, <2>3, <2>4
<1>3. WellSpaced => PanicOnlyWhenUsedUp' /\ PassedUsedUp'
  BY <1>1, <1>2 DEF PanicOnlyWhenUsedUp, PassedUsedUp, page_alloc_panic, layoutVars
<1> QED
  BY <1>1, <1>3 DEF PoolIInv, PanicOnlyWhenUsedUp

(* A step of someone else keeps it.                                        *)
LEMMA PoolStutterInv == PoolIInv /\ UNCHANGED poolVars => PoolIInv'
BY DEF PoolIInv, PoolTypeOK, NothingAllocated, PanicOnlyWhenUsedUp, BlocksDisjoint,
       BlocksBelowTop, PassedUsedUp, TopNearRegion, WellSpaced, HeapTop, poolVars

(* Every step of the page allocator keeps it.                              *)
LEMMA PoolStepInv == PoolIInv /\ [PoolNext]_poolVars => PoolIInv'
BY PoolLayoutInv, PageAllocInv, PagePanicInv, PoolStutterInv
DEF PoolNext, panic_spin

(* PoolIInv holds in every state page_layout and page_alloc get to.         *)
THEOREM PoolInvariant == PoolSpec => []PoolIInv
BY PoolInitInv, PoolStepInv, PTL DEF PoolSpec

(* The variables of the page allocator stay within their types for every   *)
(* memory map and request (page_layout, page_alloc).                       *)
THEOREM PoolTypes == PoolSpec => []PoolTypeOK
<1>1. PoolIInv => PoolTypeOK
  BY DEF PoolIInv
<1> QED
  BY <1>1, PoolInvariant, PTL

(* page_alloc hands out no page twice, for every page size, request size   *)
(* and spaced memory map, however often it moves from region to region.    *)
THEOREM PagesHandedOutOnce == PoolSpec => []NoPageHandedOutTwice
<1>1. PoolIInv => NoPageHandedOutTwice
  BY DEF PoolIInv, NoPageHandedOutTwice
<1> QED
  BY <1>1, PoolInvariant, PTL

(* page_alloc skips no region: when it panics each one is used up.         *)
THEOREM MemoryUsedUpAtPanic == PoolSpec => []PanicOnlyWhenUsedUp
<1>1. PoolIInv => PanicOnlyWhenUsedUp
  BY DEF PoolIInv
<1> QED
  BY <1>1, PoolInvariant, PTL
=============================================================================

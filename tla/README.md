# A TLA+ model of the mco kernel

mco ("KVI") is a small x86-64 kernel that boots by PXE, finds its processors,
starts them, drives a HPET and an Intel 10-gigabit network adapter, and stops.
There is no scheduler and interrupts stay off: concurrency comes from the
processors, which share the heap, the console and the driver under spin locks,
and from the hardware, which moves registers and fills memory on its own.

## Inventory

| Component | State | Operations | Talks to |
|---|---|---|---|
| Page allocator (`page.c`) | the usable regions, which of them is used, the heap's offset | `page_layout` at boot, `page_alloc`, `page_free` (empty) | reads the E820 map of `loader.S`; called by the heap |
| Heap, liballoc (`alloc.c`) | boundary tags in memory, the bins `l_freePages`, `l_completePages`, a lock | `malloc`, `calloc`, `realloc`, `free` | page allocator; called by everything |
| Processor start and stop (`acpi.c` list, `apic.c`, `loader.S` `start_ap`, `init.c`) | `cpulist`, `stacklist`, where each processor is | `acpi_create_cpulist`, `apic_init`, `apic_deinit`, `init_ap` | IPIs, shared memory read without a lock, printf |
| printf (`printf.c`) | one static spin lock | `printf`, `vprintf`, `snprintf` | serial port; called by every processor |
| ixgbe rings (`drivers/ixgbe.c`) | two descriptor rings, head and tail registers, a lock | `ixgbe_send_frames`, `ixgbe_recv_frames` | the adapter, by DMA and registers |
| ixgbe bring-up (`drivers/ixgbe.c`) | the enabled flags, control and queue registers | `ixgbe_new`, `ixgbe_linkup`, set-up functions with time-outs | PCI, heap, timer, the adapter |
| Timer (`timer.c`, `drivers/hpet.c`) | the HPET's counter, its width and period | `nsleep`, `usleep`, `hpet_init` | the HPET |
| Initialisation order (`init.c`, `main.c`) | the init and deinit records, in the order of the object files | sort by id, scan stage by stage, `main`, scan back | every component's init function |
| PCI (`drivers/pci.c`) | lists of functions and drivers | `pci_driver_register`, probe, decoding of base address registers, match | drivers |
| ACPI tables (`acpi.c`) | addresses of the tables, NULL or 0 where none was found | search by signature in both lists, early returns | firmware memory; HPET and APIC read what it leaves |
| Boot (`loader.S`) | the processor's mode | E820 map, page tables, long mode | BIOS |

What is hard to test here:

- **Interleavings.** An application processor reads `stacklist` while the boot
  processor is writing it; `realloc` holds the heap's lock in three pieces; the
  adapter moves its head register while the driver uses a copy of it.
- **Failure in the middle.** The adapter is pulled out between two register
  reads; INIT resets a processor that may hold a lock; memory runs out inside
  `malloc`, under its lock.
- **Long legal histories.** A heap corrupted by one split or merge fails much
  later; a counter (`l_completePages`) drifts.
- **Order.** The linker gives the init functions in the order of the object
  files; each relies on what others have left behind. The adapter is reset,
  given rings and enabled step by step, and each step may be answered late.
- **Boundaries.** A full or wrapped ring, a request larger than what is left
  of a memory region, a counter that goes through zero during a sleep.

What makes each component correct: pages and blocks are handed out once and
stay intact until they are freed; the heap's lists, tags and counters agree; a
processor runs on a stack of its own and prints whole lines; a ring neither
loses, doubles nor overwrites frames and its driver's answers are true; a sleep
lasts its time and ends; init functions are called after those they need; the
driver meets each of its adapters once, and its flags say what the adapter does.
`PROJECT.json` lists each hazard at its line, with the properties that would notice
it; where the code has no defence against one, or the models leave it out, it lists
no property and says why.

## Modules

| Module | Models | How it corresponds to the code |
|---|---|---|
| `PagePool` | `page.c` | `page_phase` is where the boot processor is in `page_layout`'s loops; `RegionBelowHeap` is the second loop's test, whose complement ends it; `page_alloc_here`, `page_alloc_move` and `page_alloc_panic` are the three ways through `page_alloc`. `page_blocks` is history: what was returned. |
| `Heap` | `alloc.c`, extends `PagePool` | A tag is an address in `DOMAIN size`; `chain` holds `real_size` and the neighbours, `bins` the free lists. Each operator (`insert_tag`, `remove_tag`, `split_tag`, `melt_left`, `absorb_right`) is the C function of that name. The lock is taken in `begin_search` and `begin_free`; each round of `malloc`'s search and of `free`'s loops is a step. |
| `Allocator` | what `include/alloc.h` promises | The set of blocks in use: an abstract specification. |
| `SmpBoot` | `acpi_create_cpulist`, `apic.c`, `start_ap`, `init_ap`, `printf`'s lock | Extends `Printf`. `bsp` and `cpu` say where the boot processor and the others are, `ipi` what is on its way to each; `ap_next` is one comparison of `start_ap`'s loop. `main` is one of its calls of `printf`; it may return at any time after the last, and INIT may come to a processor wherever it is. A line on the console is two characters. |
| `Printf` | `printf.c` but for its lock | Pure operators named like the C functions, over sequences of characters. `parse_format` takes the longest runs of flags, digits and modifiers; `valconv` follows what subtraction of powers leaves; `do_snputchar` is applied to one character after the other. `StandsFor` is the reference: it reads a text back instead of computing it. |
| `FrameQueue` | what a ring promises | A bounded FIFO queue: an abstract specification. |
| `FrameFilter` | what both loops over frames leave | `Without(s, S)`: the frames of `s` that are not in `S`, in their order, for what is asked of both drivers' loops. |
| `IxgbeXmit` | `ixgbe_send_frames` | Each register access is a step and so is each round of the loop, for the adapter may move between any two; `nic_xmit` is the adapter. |
| `IxgbeRecv` | `ixgbe_recv_frames` | The same, with the batches of 16 descriptors (`frames`) and the adapter that fills descriptors (`nic_recv`). |
| `Timer` | `nsleep`, `usleep`, the HPET | `poll` is one round of the loop; `tick` lets any number of ticks up to `MaxStep` pass between two rounds. Words have their widths (`U32`, `U64`), `1<<width` is what the processor computes for an int. |
| `InitOrder` | `init.c` | `init_init_pair` and `init_deinit_pair` are the exchanges of the sort's double loop, which works on both arrays at once; `init_call` is one round of `init_scan`, a match is a step and so is a miss. `running` is whose function is being called; `init_list` ends in a NULL that the way back reads (`MatchesBack`). |
| `Pci` | `drivers/pci.c` | `func` counts the numbers (bus, device, function) of `pci_probe`'s loops, `driver` the entries of `pci_load_driver`'s. `Decode` is the loop of `pci_new`, with its `i++` inside. A configuration space is fixed when it is first read (`space`). |
| `IxgbeLink` | `ixgbe_new`, `ixgbe_linkup`, `ixgbe_setup_xmit`, `ixgbe_setup_recv` | `at` is the loop the driver waits in, with `timeout` its count, or the register it writes next (`Writes`); `look_in_vain`, `give_up`, one action per success and one for the rings, for DMATXCTL and for each queue's enable bit. The `nic_*` actions are the adapter, which answers, resets, links, enables queues or is pulled out whenever it likes. |
| `Acpi` | `acpi.c`'s search | A firmware is a record of what lies in memory; the operators are the C functions: `acpi_get_rsdp`, `acpi_get_xsdt_entry` with its count of four-byte words, `acpi_get_rsdt_entry`, `acpi_get_entry`, `acpi_init`'s early returns. |
| `Startup` | the composition of the four, with `hpet_init`, `ixgbe_init`, `apic_init`, `main` | Each init function runs when `InitOrder` calls it and meets the state the others left: a NULL processor list, a HPET without address (then no sleep ends), the list of drivers. |

`PagePoolProofs`, `HeapProofs`, `IxgbeXmitProofs`, `IxgbeRecvProofs`,
`TimerProofs`, `SmpProofs` (`SmpBoot`, `Printf`) and `StartupProofs` (`InitOrder`,
`IxgbeLink`, `Pci`, `Acpi` and their composition) hold the proofs, `RingLemmas`
what the two rings share.

`MC*` modules and their `.cfg` files are the small instances. Definitions marked
"Variant" are not used by any specification: each is a way the definition
after it could have been written wrongly, kept to show that the properties
notice it (`PROJECT.json`, `mutants`).

## What is checked

| Run | Bounds | Shows |
|---|---|---|
| `page_pool` | 24 memory maps, pages of 2 units, blocks of 1 to 3 pages | `page_layout` ends for every map, in the first region that ends above the heap's base. Where regions are spaced by what a block can overrun, no page is handed out twice and the panic comes only with less than one page left anywhere. |
| `page_usable` | the same | *Violated*: on the move to the next region `page_alloc` returns the old `HeapTop`, which lies in no region. |
| `heap` | memory for two chunks, in one region and in two; two callers; sizes 3, 8, 16 with tags of 2 | Tags do not overlap and tile the chunks; live blocks stay intact; free lists, bins and counters agree, at every step; `realloc`'s copy stays within both blocks though it unlocks in between; the heap implements `Allocator`; the lock is given back unless memory runs out. |
| `smp_boot` | three processors, three MADTs: boot processor first and in the middle, an entry of another type, a disabled processor before the others; two of `main`'s five calls of `printf` | A processor that searches `stacklist` finds its own entry, complete, ahead of it; no two run on the same memory; lines do not mix; all start (where no entry is disabled and `main` does not return before) and all are stopped, unless one was reset inside `printf` and its lock is lost. Of the text of the lines (`PrintsAsInC`, `SnprintfStaysInside`; what they say of `Printf` holds no variable, and TLC evaluates it once for all formats, words and strings): every directive out of some 2000 writes what C says for the words and strings given, and `snprintf` leaves a string that is the beginning of what two directives print one after the other, in buffers of 0 to 9 places. |
| `cpu_list` | the same | *Violated*: the list holds disabled processors, which were not counted. |
| `ap_stack` | the same | *Violated*: a stack grows down out of the block that was allocated for it. |
| `ixgbe_xmit` | two senders, ring of 3, batches of 0 and 2 frames, one of them too big | The ring implements `FrameQueue`; what the call answers is true; the lock is given back, also with the adapter gone. |
| `ixgbe_recv` | two pollers, ring of 4, batches of 2, three packets of which one is faulty | The ring implements `FrameQueue`; all sound packets that had arrived are handed over once and in order; every poll ends. |
| `timer` | words of 8 ticks, sleeps begun at ticks 0 to 18, polls up to 3 ticks apart | Unless what it reads goes through zero a sleep returns exactly when its time is over; every sleep ends. |
| `timer_early` | the same | *Violated*: a sleep in which the word goes through zero ends early. |
| `startup` | six files in all 720 link orders; two PCI functions out of seven configurations, two base address registers and the one behind them, a range of four ports among them; two queues, rings of 4, 2 and 3 rounds of waiting; 72 firmwares | Init functions are called once and after those they need; the way back undoes them in the opposite order; base address registers are decoded in place, up to a range of four ports; the driver meets each adapter once; its flags tell the truth, and an adapter that is prompt comes up; on a complete firmware the system reaches its end. |

The bounds let each interesting case happen: the heap splits a block, merges on
both sides, drops a chunk, takes one back into use and runs out of memory; the
rings fill, wrap and empty several times; a poll fills its array of frames and
starts again; the timer's word goes through zero more than twice; the sort
exchanges records in both loops, two adapters are brought up one after the
other, each of the five waits ends in time, too late and by a pulled adapter,
and a 64-bit address comes first, last and behind another. Two queues are
enough, as the code treats the first (queue 0), the last and those between by one
loop; more firmwares differ only in tables nobody looks for. The rings and
the timer's counter are cyclic and the heap's memory is finite, so no run cuts
histories short, except the timer's: `LastStart` and `MaxCount` follow the
counter for five turns of its low word.

### Assumptions of the models

- `WellSpaced` (page allocator): between two usable regions there is a gap of
  at least two of the largest blocks. `page_alloc` checks for one page whatever
  it is asked for, so a block may overrun its region, and the first block after
  a move starts where the old region ended. PC memory maps with one region above
  1 MiB, or with the hole below 4 GiB, satisfy it.
- `Freeable` (heap): callers free a pointer once and not while they realloc it, so
  `free` finds the magic number and does not return early. `malloc`'s return of
  NULL is not reached either: `page_alloc` panics instead.
- A ring's registers hold descriptors of the ring or, without an adapter, all
  ones. `ixgbe_recv_frames` compares a head with `>` (line 405), so one equal to
  `num_rdesc` would pass and its loop would not end; no adapter gives it.
- `FlagsTellTheTruth` is about an adapter that is there. One that is pulled out
  during a wait reads as all ones, which the waits for queues take for enabled,
  and the driver sets both flags; the calls then find it gone.
- `MadtAssumption`: the firmware lists every processor once.
- `E820Assumption`: a map has at most 32 usable regions, for `page_freelist` has
  32 entries and `page_layout` does not check, and one of them ends above the heap's
  base.
- `main` returns when it has printed, whether or not the processors are through
  (`in_time` remembers which): nothing in the code waits for them but `main`'s
  four seconds of sleep. Where it returns too early, INIT may reset a processor
  inside `printf`, whose lock is then lost (`LockLost`), and the boot processor
  spins for ever, in the model as in the code. `AllStart` is about the behaviours
  where `main` was late enough, `AllStop` about those and all others in which no
  lock is lost.
- A stack is at most `Depth` deep. `StacksApart` holds although stacks start at
  the wrong end of their blocks, because the block below is a stack's as well or
  the heap's first chunk; `ap_stack` shows what they do leave.
- Sleeping processors poll before the counter has gone round (`MaxStep < U32`),
  and requests are within the 64 bits of femtoseconds of the conversion.
- `StagesAssumption`: every id belongs to one stage and comes after the ids of
  what its function needs. Which ids there are and who needs whom is read off the
  sources (`KernelIds`, `KernelNeeds`); the run checks the assumption for them.
- A PCI function answers for itself only; the probe ignores the header type, so
  a device that answers for all eight numbers would be found eight times.
- Ranges of four ports (`FourPorts`): `pci_new` tests `(bar & 6) == 4` for ports,
  too, and takes the next register for an upper half. `BarsDecoded` is about the
  addresses before the first such range, and about all where there is none; the
  driver uses none.
- An adapter is handed to the driver as its power-on reset leaves it. `malloc`
  succeeds during the bring-up (`page_alloc` panics before it fails).
- `Complete`: what is said of the start (`CompleteFirmwareStarts`) asks for a firmware that lists the three
  tables where the search gets, with the RSDP in the BIOS area: one found in the
  extended area is forgotten before it is returned (`acpi_get_rsdp`).
- `PrintfAssumption`: a directive has a width and a precision of at most two
  digits and one of C's length modifiers, words fit into a long, an int is no wider
  than a long, and strings have no NUL. The proofs need no more than that.
- In the runs `printf`'s words have 7 bits and its ints 5; the least and the greatest number
  of both sizes are among the words. `-intval` of the least `long long` is
  undefined in C; the build's negation gives the right digits, as the model
  does. The code departs from C where a zero is printed with precision 0 (it
  leaves out the width and the 0 of `%#o`) and in `%c`, which has no width; both are
  left out of `PrintsAsInC`. `hh` and `h` do not cut an argument, so the caller has to.
- Loads and stores happen in program order, as on x86.

### Fairness

Interrupts are off (`cli` in `loader.S`) and nothing preempts a processor, so
one that can go on does: weak fairness of the steps of whoever holds a lock
(heap, rings), of every processor (`SmpBoot`), of `page_layout`. IPIs are
delivered. Getting a spin lock is not fair and nothing in the heap's and rings' properties needs
it: they say that the holder gives it back. In `SmpBoot` every processor prints
a bounded number of lines, so weak fairness is enough to get the lock. Nobody
is obliged to call `malloc` or to send; the adapter is not obliged to send.
The HPET counts, if it was found.
In `StartupFairSpec` the one processor that runs goes on (`boot_step`); the
adapter owes nothing, so every wait of the bring-up has to end by its own count.

## What is proved

`PagePoolProofs` proves, for every memory map, page size and largest request:

- `PoolTypes`, `PagesHandedOutOnce`, `MemoryUsedUpAtPanic`: the invariants of
  the run `page_pool`.
- They rest on `PoolInvariant`, the inductive invariant `PoolIInv`. That blocks
  are disjoint is not inductive: a new block starts at `HeapTop`, so every
  earlier block must end at or below it (`BlocksBelowTop`), also when `HeapTop`
  jumps to another region, which must lie above it (`TopNearRegion`, through
  `WellSpaced`); and regions passed must be used up (`PassedUsedUp`).

`HeapProofs` proves all safety properties of the run `heap`, for any number of
processors, sizes, bins and tags, and every memory map:
`HeapTypes`, `BlocksNeverOverlap` (`TagsApart`), `ChunksTiled`, `OwnedBlocksIntact`,
`FreeListsLinked`, `FreeBlocksFound`, `NoFreeNeighbours`, `CountsKept`, `ReallocSafe`.
`TagsApart` says itself that it is about spaced maps; the others are proved as
`HeapSpec => [](WellSpaced => ...)`, for `page_layout` may still find the region
that comes too near. `HeapRefines` is the refinement, `HeapSpec /\ []WellSpaced
=> AllocatorSpec`: what happens to the blocks in use is what `Allocator` allows.

- The invariant speaks of the heap between any two steps, and most of these are
  in the middle of a `malloc` or `free`. `Consistent` is what the data structures
  are even then: blocks tile the chunks, bins are linked lists that agree with
  each tag's index, a free block in a bin has no free neighbour and lies in the
  bin of its size, and the counts of complete pages are right. A block without a
  bin may be one that a caller owns, or the one that is being worked on.
- The operators come first, each on any tags, as the code composes them:
  `insert_tag`, `remove_tag`, a tag that appears or goes (`InsertTagSound`,
  `RemoveTagSound`, `UnlistedSound`, `ForgetTagSound`), `split_tag`, the join of two
  blocks (`SplitTagSound`, `JoinSound`). Six lemmas then show that what a step does
  with them keeps `Consistent`: `TakeConsistent`, `NewConsistent`, `SplitConsistent`
  for `malloc`; `JoinConsistent`, `DropConsistent`, `InsertConsistent` for `free`.
- `Consistent` is not inductive alone. The inductive invariant `HeapIInv`
  (`HeapInvariant`) adds what callers rely on: one of them is between lock and
  unlock (`OneInside`); the tag it works on is free, in the bin it searches, or in
  none (`TagAtWork`); while `realloc` has given the lock back, its old block stays
  allocated and no smaller than what it copies (`ReallocAtWork`), and no other
  caller holds the same pointers (`PointersApart`). The page allocator's
  `PoolIInv` gives that a new chunk lies above all others.
- `BinOfInBins`: the loop of `getexp` and the clamps around its calls end in a bin
  for every size. The least power of two above a size exists because 2^n counts
  subsets. `ChunkHasRoom`: the pages asked for hold the size and its tag.

`IxgbeXmitProofs` and `IxgbeRecvProofs` prove that the two rings implement
`FrameQueue` (`XmitRefines`, `RecvRefines`), for every number of descriptors and
processors and every batch of frames. The assumptions are those of the modules: a
ring of at least two descriptors, batches with room for at least one frame. The
distances on a ring that both need are in `RingLemmas`. The argument:

- Transmission (`XmitIInv`). A caller works with a head it has read, while the
  adapter moves TDH on. What is inductive is an order, seen from the caller's
  head: TDH is not beyond TDT (`HeadBehind`) and TDT not beyond the caller's
  tail (`TailAhead`). The loop's test against the old head then is enough
  for the descriptor written to lie behind the queue (`FrameBehindQueue`), so
  that the write is not seen; the write of TDT appends what lies between
  (`WritePuts`) and the adapter takes from the front (`AdapterTakes`).
- Reception (`RecvIInv`). Seen from the oldest packet not given back, the
  poller's next descriptor is not beyond the head it read (`TailBehind`), which
  is not beyond RDH (`HeadBehind`). Whatever arrives meanwhile lies beyond RDH
  (`AdapterAdvances`), and the write of RDT takes a prefix (`WriteTakes`).
- Both need the lock (`OneHolder`): registers do not change between a caller's
  reads and its write other than by the adapter.

`XmitTypes` and `RecvTypes` are the type invariants; the second says that a batch
never has more than `num` frames.

What the calls tell is proved on top of that:

- `AnswersAreTrue` (`SendTellsTheTruth`). Between any two steps of the loop, the
  ring from TDT to the caller's tail holds the frames it is through with, without
  those too big, and if some were too big the error says so (`CallTells`,
  `CallsInvariant`). The adapter takes frames in front of TDT only, so the write of TDT
  appends exactly these to the queue (`GivesWritten`).
- `HandsOverWhatArrived` (`GivesWhatArrived`). What a poll has handed over, followed by
  what its batch refers to, is what it has passed without the faulty packets,
  however often the batch was full (`PollTells`, `PollsInvariant`); a batch refers only
  to descriptors passed, where the adapter does not write. The write of RDT gives
  back exactly the packets passed (`GivesBackPassed`).
- Both need what passing over frames does to one frame more (`WithoutAppend`).
  `Without` is a recursive function; that a function with its equations exists,
  which has to be proved before they can be used, follows by the least length
  for which none does (`KeptExists`), without induction over an operator.

`TimerProofs` proves `SleepExact` (`SleepsExactly`) for words of any width, any
period and any ticks between two polls: as long as what it reads does not go
through zero, a sleep returns at the first poll after its time is over and not
before. The inductive invariant (`TimerInvariant`) is `AddsUp`: what `elapsed` holds
is the ticks that passed up to the last poll, which is at most `MaxStep` ago and at
which the time was not over. That bounds the sum, so that no product of the
conversion leaves 64 bits (`TimerAssumption` asks for requests whose femtoseconds
fit, with a step to spare) and the low word tells the last reading (`SameWord`).

`SmpProofs` proves the safety of the start of processors for any number of them
and any MADT that lists each once, whichever are enabled: `StacksAhead`,
`StacksStayApart`, `LinesStayWhole`, `SmpTypes`. The inductive invariant
(`SmpInvariant`) follows the argument through the boot processor's loops:

- Every processor listed has an id of its own (`ListedOnce`), and not more are
  counted than are listed (`ListLoops`, by cardinality; the two loops test
  different things). So `stacklist`, as long as the count, is filled from ids
  that differ.
- What `malloc` left in the array is arbitrary, ids of processors included. Only
  the entries below the loop's index are known (`Entries`), and their blocks lie in
  ascending order above the boot processor's stack and below the heap's top
  (`Blocks`). `Pending` and started processors have one of these entries, at or
  after the index they have come to (`Started`): an earlier match with junk
  cannot happen, for entries before theirs are complete and bear other ids.
- At most one processor is inside `printf` and every other's line is complete, an
  even number of characters (`LockHeld`, `Pairs`). A processor that INIT resets
  inside leaves the lock taken, so that no line can follow the broken one.

About `printf` it proves three things, for any widths of an int and a long, any
directives, words and strings (`PrintfAssumption`).

- `PrintedAsInC` (`PrintsAsInC`): the text of a number stands for it, and that of a
  string shows just what the directive takes of it. The table that `sub10`, `sub8`
  and `sub16` are holds the base's powers downwards to 1, and those that are less than
  2^LongBits (`Scale`, `PowersScale`); what `valconv` finds at each of them is a digit, and
  the digits read back as the number, also with zeros in front (`DigitIs`,
  `ValconvIs`). The field is spaces, sign or prefix, zeros, digits, and
  `InField` says how many of each; `ZerosAsked` that there are no more zeros than
  precision, width or `#` ask for, though the code counts them in one variable
  (`IntStands`). A string's field is `StringShows`. And `parse_format` reads of what
  `FormatOf` writes the directive it was written for, wherever in a format it
  stands (`PlacesAre`, `ParseIs`, `FormatStands`): the longest runs of flags, digits and
  modifiers end where they should because what follows is none of them (a width
  does not begin with a 0).
- `SnprintfCutsOff`: for every format, arguments and size of the buffer, `vsnprintf`
  stays inside, leaves a string that is what `printf` would print or its beginning,
  and returns less than the size just when all is there, wherever in a
  conversion the buffer ends. It compares the loop that prints to the buffer with
  the one that prints the same to the console, round by round: they have put the
  same, as far as the buffer goes (`Cut`, `Shown`), and are at the same place unless
  the buffer is full, when the one has left the format or goes on without effect
  (`Alike`, `StayAlike`). Its hypothesis (`PrintsText`) is that each conversion gives
  characters and no NUL, as `%c` would for 0.
- `SnprintfInside` (`SnprintfStaysInside`): two pieces print one after the other what
  each prints alone, and `SnprintfCutsOff` holds of them, for all they print is
  characters (`PiecesAre`, `PrintsTwo`, `NoNul`). `IsPiece` is the lemma's heart: one
  round of the loop, at any place of any format that has the piece there, takes the
  piece's arguments, leaves the rest and adds its text.

The functions recursive over digits, characters and rounds (`Number`, `Power`, `put`,
`print_all`) are handled without induction over data: that such a function
exists, or that two agree, is shown by looking at the least place where it
would fail (`LeastOf`).

`StartupProofs` has six parts.

- The order, for any files, ids, stages and link order: init functions are
  called at most once, after those they need, and all of them before `main`
  (`InitsInOrder`, `InitTypes`). The inductive invariant (`InitInvariant`) says of the
  sort that records below its outer pointer are in their final place and that
  the one at it is the least up to the inner pointer, and of a scan that what has
  been called is what the pointer has passed and what belongs to earlier
  stages; with `StagesAssumption` that is enough.
- The way back undoes the init functions in the opposite order
  (`DeinitsInOrder`: `DeinitsMirrorInits`). The invariant says that calls are in the
  order of stages and, within a stage, of ids, and calls of the way back in the
  opposite order, once or, for the NULL at the end of `init_list`, twice over.
  There is one list of all files in that order only (`SortedListsAgree`).
- The bring-up, for any number of queues and descriptors and any time-outs:
  `FlagsAreTrue`, `PromptComesUp`. In the inductive invariant (`LinkInvariant`)
  the looks in vain and the rest of the count add up to the wait's rounds
  (`CountsLooks`), the flags follow the place the driver is at (`FlagsFollow`) and
  each place, a wait or one of the writes between two waits, says which registers
  have been written and seen (`Truth`): the queues have rings before the first is
  enabled, those below `queue` are on, a reset asked for is over before anything is set up.
- The composition: every step of `Startup` is a step of `InitOrder` or leaves it
  alone, and the same for `IxgbeLink` (`StartupRunsInit`, `StartupRunsLink`), so
  that what was proved of the parts holds of the whole (`StartupSafe`): the
  order of the init and deinit functions and the truth of the adapter's flags.
- `AdaptersMet`: the driver's `new` is called once for each function it handles and
  for no other, whatever is on the bus and in whichever order files are
  linked. It combines the order of init functions (the driver is registered
  before the probe begins, `Registered`) with the probe's invariant (`ProbeInv`).
- `BarsFound` adds that the driver finds the function's addresses in their order,
  whatever its registers hold, up to the first range of four ports
  (`BarsDecoded`). `pci_new`'s loop and the place of each
  address among the registers are recursive functions; both exist, by the
  least register for which they do not (`DecodesExists`, `UppersExist`), and go
  through the registers together (`OneBarMore`, `DecodeInOrder`). The probe keeps
  what it has decoded and from which function (`BarsKept`).
- `CompleteGoesOn`, for lists of any length and any link order: on a complete
  firmware no load faults, and the counter counts whenever somebody sleeps
  (`CompleteFirmwareGoesOn`, without which `CompleteFirmwareStarts`, which a run
  checks, could not hold). Each search ends at its table, in the XSDT before what
  lies behind its entries or in the RSDT after a search that does not fault
  (`TableFound`, `SearchEnds`). The invariant `CounterInv` carries what it
  left to those who need it: a function is the last called while it runs, so
  `hpet_init` has not run when `acpi_init` does (`AcpiBeforeHpet`), and an adapter is
  waited for only inside `pci_init`, after both.

Only model-checked: liveness (the prover knows neither fairness nor ENABLED; for
`CompleteFirmwareStarts` the safety it needs is proved, `CompleteGoesOn`). Every
invariant of the runs that hold is a theorem.

## What is not modelled

- Of the adapter, registers that nothing reads back: filters, pools, flow
  control, the MAC address (`ixgbe_get_macaddr`, `ixgbe_associate`, the VMDq
  loops). Of a base address register, `e`, which no driver looks at.
- Of the start of a processor, the modes and page tables of `loader.S`.
- `acpi_pmt_init`, whose port nothing reads; the serial
  port; headers, whose functions are single instructions or loops over memory.
  They keep no state that the rest depends on.

The compiler may move memory accesses across the locks, whose asm has no
memory clobber; the models take the order of the source.

## Plan

Every component that keeps state is modelled, and every invariant of the runs that
hold is proved. What could be proved next:

1. `SnprintfInside` for any number of pieces: `IsPiece` of two pieces one after the
   other, once for each more.
2. What bounds the loops whose end is a liveness property, as invariants: the
   rounds left of `page_layout`, of a poll, of a wait of the bring-up.

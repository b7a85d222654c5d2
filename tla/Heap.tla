-------------------------------- MODULE Heap --------------------------------
(***************************************************************************)
(* The heap (liballoc, src/alloc.c) on top of the page allocator.  A chunk *)
(* of pages is tiled by blocks, each with a boundary tag at its start that *)
(* links it to its neighbours (split_left, split_right) and, while it is   *)
(* free, into the doubly linked list of its bin (l_freePages, next, prev). *)
(* Processors call malloc, realloc and free concurrently; a spin lock      *)
(* guards the tags, and realloc takes it three times.                      *)
(***************************************************************************)
EXTENDS PagePool

CONSTANTS
    Callers,        \* the processors that use the heap
    Sizes,          \* the sizes they ask for
    HDR,            \* sizeof (struct boundary_tag)
    MINEXP, MAXEXP, \* the bins are MINEXP .. MAXEXP - 1
    l_pageCount,    \* the least number of pages of a chunk
    MAXCOMPLETE     \* the whole free chunks a bin keeps

NULL == 0

(* allocate_new_tag: the pages of a chunk for a request of n bytes.        *)
PagesFor(n) ==
    LET usage == n + HDR
        pages == usage \div PAGESIZE + (IF usage % PAGESIZE # 0 THEN 1 ELSE 0)
    IN  IF pages < l_pageCount THEN l_pageCount ELSE pages

ASSUME HeapAssumption ==
    /\ HDR \in Nat \ {0}
    /\ MINEXP \in Nat
    /\ MAXEXP \in Nat
    /\ MINEXP < MAXEXP
    /\ l_pageCount \in Nat \ {0}
    /\ MAXCOMPLETE \in Nat
    /\ Sizes \subseteq Nat
    /\ \A n \in Sizes : PagesFor(n) <= MaxPages

VARIABLES
    lock,              \* liballoc's spin lock
    size,              \* tag->size, for each address that holds a tag
    chain,             \* tag->real_size, split_left and split_right
    bins,              \* tag->index, next and prev, and l_freePages
    l_completePages,   \* for each bin, how many whole chunks it holds
    live,              \* history: the pointers the callers own
    pc,                \* where each caller is
    tag,               \* the local variable tag of malloc and free
    want,              \* the argument size of malloc and realloc
    old,               \* the argument p of realloc
    real_size          \* the local variable real_size of realloc

tagVars == <<size, chain, bins, l_completePages>>
localVars == <<pc, tag, want, old, real_size>>
heapVars == <<lock, tagVars, live, localVars>>
vars == <<poolVars, heapVars>>

Tags == DOMAIN size
Bins == MINEXP .. MAXEXP - 1
Link(T) == T \cup {NULL}

(* The fields of tags at the addresses T.                                  *)
ChainType(T) == [real_size : [T -> Nat], split_left : [T -> Link(T)],
                 split_right : [T -> Link(T)]]
BinsType(T) == [l_freePages : [Bins -> Link(T)], index : [T -> Bins \cup {-1}],
                next : [T -> Link(T)], prev : [T -> Link(T)]]

HeapTypeOK ==
    /\ lock \in {0, 1}
    /\ Tags \subseteq Nat \ {NULL}
    /\ size \in [Tags -> Nat]
    /\ chain \in ChainType(Tags)
    /\ bins \in BinsType(Tags)
    /\ l_completePages \in [Bins -> Int]
    /\ live \subseteq Nat
    /\ pc \in [Callers -> {"idle", "search", "merge", "re_malloc", "re_copy"}]
    /\ tag \in [Callers -> Link(Tags)]
    /\ want \in [Callers -> Sizes \cup {0}]
    /\ old \in [Callers -> Nat]
    /\ real_size \in [Callers -> Nat]
-----------------------------------------------------------------------------
(* A tag appears at address a, with v in one of its fields.                *)
Put(f, a, v) == [x \in DOMAIN f \cup {a} |-> IF x = a THEN v ELSE f[x]]

(* The tag at address a becomes a part of another block's bytes.           *)
Forget(f, a) == [x \in DOMAIN f \ {a} |-> f[x]]

(* a->f = v, skipped where a is NULL as the code's "if" does.              *)
Store(f, a, v) == [x \in DOMAIN f |-> IF x = a THEN v ELSE f[x]]

(* The loop of getexp stops at the first shift with 2^shift > s, or at     *)
(* MAXEXP.                                                                 *)
StopShift(s) ==
    CHOOSE shift \in MINEXP .. MAXEXP :
        /\ shift = MAXEXP \/ 2 ^ shift > s
        /\ \A r \in MINEXP .. shift - 1 : 2 ^ r <= s

getexp(s) == IF s < 2 ^ MINEXP THEN -1 ELSE StopShift(s) - 1

(* The bin of s bytes, for malloc's search, free and insert_tag alike.     *)
BinOf(s) == IF getexp(s) < MINEXP THEN MINEXP ELSE getexp(s)

(* The free lists, after tag t of index i went to the front of its bin.    *)
(* next is left alone where the bin is empty.                              *)
insert_tag(b, t, i) ==
    LET first == b.l_freePages[i]
    IN  [l_freePages |-> [b.l_freePages EXCEPT ![i] = t],
         index |-> [b.index EXCEPT ![t] = i],
         next |-> IF first = NULL THEN b.next ELSE [b.next EXCEPT ![t] = first],
         prev |-> Store(b.prev, first, t)]

(* Variant: the tag keeps its links when it leaves a list.                 *)
KeepLinks(b, t) ==
    [b EXCEPT !.l_freePages[b.index[t]] = IF @ = t THEN b.next[t] ELSE @,
              !.index[t] = -1,
              !.next = Store(@, b.prev[t], b.next[t]),
              !.prev = Store(@, b.next[t], b.prev[t])]

remove_tag(b, t) ==
    LET i == b.index[t]
    IN  [l_freePages |-> IF b.l_freePages[i] = t
                         THEN [b.l_freePages EXCEPT ![i] = b.next[t]]
                         ELSE b.l_freePages,
         index |-> [b.index EXCEPT ![t] = -1],
         next |-> Store(Store(b.next, b.prev[t], b.next[t]), t, NULL),
         prev |-> Store(Store(b.prev, b.next[t], b.prev[t]), t, NULL)]

(* A new tag is in no list.                                                *)
unlisted(b, t) ==
    [l_freePages |-> b.l_freePages, index |-> Put(b.index, t, -1),
     next |-> Put(b.next, t, NULL), prev |-> Put(b.prev, t, NULL)]

forget_tag(b, t) ==
    [l_freePages |-> b.l_freePages, index |-> Forget(b.index, t),
     next |-> Forget(b.next, t), prev |-> Forget(b.prev, t)]

(* Variant: the block after r still takes r for its neighbour.             *)
JoinOneSide(ch, l, r) ==
    [real_size |-> Forget([ch.real_size EXCEPT ![l] = @ + ch.real_size[r]], r),
     split_left |-> Forget(ch.split_left, r),
     split_right |-> Forget([ch.split_right EXCEPT ![l] = ch.split_right[r]], r)]

(* Block r is joined to its left neighbour l.                              *)
join(ch, l, r) ==
    [real_size |-> Forget([ch.real_size EXCEPT ![l] = @ + ch.real_size[r]], r),
     split_left |-> Forget(Store(ch.split_left, ch.split_right[r], l), r),
     split_right |-> Forget([ch.split_right EXCEPT ![l] = ch.split_right[r]], r)]

melt_left(ch, t) == join(ch, ch.split_left[t], t)
absorb_right(ch, t) == join(ch, t, ch.split_right[t])

(* Variant: the tag of the rest is not counted, so the rest ends too late. *)
RestTooLong(ch, t, n) == ch.real_size[t] - n

Rest(ch, t, n) == ch.real_size[t] - HDR - n

(* Variant: real_size becomes the size asked for, as if it left out tags.  *)
KeptNoTag(n) == n

Kept(n) == HDR + n

(* The block of tag t is cut after n bytes; the rest has a tag of its own. *)
split_tag(ch, t, n) ==
    LET new == t + HDR + n
    IN  [real_size |-> Put([ch.real_size EXCEPT ![t] = Kept(n)], new,
                           Rest(ch, t, n)),
         split_left |-> Put(Store(ch.split_left, ch.split_right[t], new), new, t),
         split_right |-> Put([ch.split_right EXCEPT ![t] = new], new,
                             ch.split_right[t])]

(* The chunk of allocate_new_tag, one block with no neighbour.             *)
new_chunk(ch, t, bytes) ==
    [real_size |-> Put(ch.real_size, t, bytes),
     split_left |-> Put(ch.split_left, t, NULL),
     split_right |-> Put(ch.split_right, t, NULL)]

(* The chunk goes back to page_free.                                       *)
forget_chunk(ch, t) ==
    [real_size |-> Forget(ch.real_size, t),
     split_left |-> Forget(ch.split_left, t),
     split_right |-> Forget(ch.split_right, t)]

Whole(ch, t) == ch.split_left[t] = NULL /\ ch.split_right[t] = NULL
-----------------------------------------------------------------------------
HeapInit ==
    /\ PoolInit
    /\ lock = 0
    /\ size = <<>>
    /\ chain = [real_size |-> <<>>, split_left |-> <<>>, split_right |-> <<>>]
    /\ bins = [l_freePages |-> [i \in Bins |-> NULL],
               index |-> <<>>, next |-> <<>>, prev |-> <<>>]
    /\ l_completePages = [i \in Bins |-> 0]
    /\ live = {}
    /\ pc = [c \in Callers |-> "idle"]
    /\ tag = [c \in Callers |-> NULL]
    /\ want = [c \in Callers |-> 0]
    /\ old = [c \in Callers |-> NULL]
    /\ real_size = [c \in Callers |-> 0]

(* page_init runs before anything that calls malloc (src/init.c).          *)
boot == page_layout /\ UNCHANGED heapVars

(* The lock is free: xchg takes it.                                        *)
liballoc_lock == page_phase = "ready" /\ lock = 0 /\ lock' = 1

(* malloc up to its search: the front of the list of the size's bin.       *)
begin_search(c, n) ==
    /\ liballoc_lock
    /\ pc' = [pc EXCEPT ![c] = "search"]
    /\ tag' = [tag EXCEPT ![c] = bins.l_freePages[BinOf(n)]]
    /\ want' = [want EXCEPT ![c] = n]
    /\ UNCHANGED <<poolVars, tagVars, live, old, real_size>>

malloc(c, n) == pc[c] = "idle" /\ begin_search(c, n)

(* "If there's enough space in this tag": with room for another tag.       *)
Fits(t, n) == chain.real_size[t] - HDR >= n + HDR

malloc_next(c) ==
    /\ pc[c] = "search" /\ tag[c] # NULL
    /\ ~Fits(tag[c], want[c])
    /\ tag' = [tag EXCEPT ![c] = bins.next[tag[c]]]
    /\ UNCHANGED <<poolVars, lock, tagVars, live, pc, want, old, real_size>>

(* The rest of malloc, for tag t in free lists b and chunks ch: the excess *)
(* space becomes a free block if it is large enough for a bin.             *)
give(c, t, n, b, ch, sz) ==
    LET remainder == ch.real_size[t] - n - 2 * HDR
        new == t + HDR + n
    IN  /\ IF remainder > 0 /\ getexp(remainder) >= 0
           THEN /\ chain' = split_tag(ch, t, n)
                /\ bins' = insert_tag(unlisted(b, new), new, BinOf(remainder))
                /\ size' = Put(Put(sz, t, n), new, 0)
           ELSE /\ chain' = ch
                /\ bins' = b
                /\ size' = Put(sz, t, n)
        /\ live' = live \cup {t + HDR}
        /\ lock' = 0
        /\ IF old[c] = NULL
           THEN /\ pc' = [pc EXCEPT ![c] = "idle"]
                /\ tag' = [tag EXCEPT ![c] = NULL]
                /\ want' = [want EXCEPT ![c] = 0]
           ELSE /\ pc' = [pc EXCEPT ![c] = "re_copy"]
                /\ tag' = [tag EXCEPT ![c] = t]
                /\ UNCHANGED want
        /\ UNCHANGED <<old, real_size>>

(* Variant: a whole chunk that is used again stays counted.                *)
NotCounted(t, i) == l_completePages

CountTaken(t, i) ==
    IF Whole(chain, t) THEN [l_completePages EXCEPT ![i] = @ - 1]
    ELSE l_completePages

malloc_take(c) ==
    LET t == tag[c]
        n == want[c]
    IN  /\ pc[c] = "search" /\ t # NULL
        /\ Fits(t, n)
        /\ l_completePages' = CountTaken(t, BinOf(n))
        /\ give(c, t, n, remove_tag(bins, t), chain, size)
        /\ UNCHANGED poolVars

(* page_alloc panics where no page is left, so allocate_new_tag never      *)
(* answers NULL: malloc's early return with its unlock is never reached.   *)
malloc_new(c) ==
    LET t == HeapTop
        n == want[c]
    IN  /\ pc[c] = "search" /\ tag[c] = NULL
        /\ page_alloc(PagesFor(n))
        /\ give(c, t, n, unlisted(bins, t), new_chunk(chain, t, Bytes(PagesFor(n))),
                size)
        /\ UNCHANGED l_completePages

(* page_alloc does not return, and the lock stays taken.                   *)
malloc_panic(c) ==
    /\ pc[c] = "search" /\ tag[c] = NULL
    /\ page_alloc_panic
    /\ UNCHANGED heapVars

panicked == panic_spin /\ UNCHANGED heapVars

(* A pointer that no realloc in progress is going to free or to return.    *)
Freeable(p) ==
    /\ p \in live
    /\ \A c \in Callers : /\ old[c] # p
                          /\ pc[c] = "re_copy" => tag[c] # p - HDR

(* Callers free only what they own, and on a spaced map its tag is intact  *)
(* (LiveBlocksIntact): the early return for a wrong magic number is not    *)
(* reached.                                                                *)
begin_free(c, p) ==
    /\ liballoc_lock
    /\ pc' = [pc EXCEPT ![c] = "merge"]
    /\ tag' = [tag EXCEPT ![c] = p - HDR]
    /\ live' = live \ {p}
    /\ want' = [want EXCEPT ![c] = 0]
    /\ old' = [old EXCEPT ![c] = NULL]
    /\ real_size' = [real_size EXCEPT ![c] = 0]
    /\ UNCHANGED <<poolVars, tagVars>>

free(c, p) == pc[c] = "idle" /\ Freeable(p) /\ begin_free(c, p)

FreeLeft(t) == chain.split_left[t] # NULL /\ bins.index[chain.split_left[t]] >= 0
(* Variant: the smallest bin is overlooked.                                *)
FreeRightButSmallest(t) ==
    chain.split_right[t] # NULL /\ bins.index[chain.split_right[t]] > MINEXP

FreeRight(t) == chain.split_right[t] # NULL /\ bins.index[chain.split_right[t]] >= 0

(* One round of each of free's loops.                                      *)
free_melt_left(c) ==
    LET t == tag[c]
        left == chain.split_left[t]
    IN  /\ pc[c] = "merge"
        /\ FreeLeft(t)
        /\ chain' = melt_left(chain, t)
        /\ bins' = remove_tag(forget_tag(bins, t), left)
        /\ size' = Forget(size, t)
        /\ tag' = [tag EXCEPT ![c] = left]
        /\ UNCHANGED <<poolVars, lock, l_completePages, live, pc, want, old, real_size>>

free_absorb_right(c) ==
    LET t == tag[c]
        right == chain.split_right[t]
    IN  /\ pc[c] = "merge"
        /\ ~FreeLeft(t) /\ FreeRight(t)
        /\ chain' = absorb_right(chain, t)
        /\ bins' = forget_tag(remove_tag(bins, right), right)
        /\ size' = Forget(size, right)
        /\ UNCHANGED <<poolVars, lock, l_completePages, live, localVars>>

(* Variant: the bin is computed from the size with the tag.                *)
BinWithTag(t) == BinOf(chain.real_size[t])

BinOfTag(t) == BinOf(chain.real_size[t] - HDR)

(* Variant: a return of free that forgets the lock.                        *)
ReturnLocked(c) ==
    /\ pc' = [pc EXCEPT ![c] = "idle"]
    /\ tag' = [tag EXCEPT ![c] = NULL]
    /\ UNCHANGED <<lock, want, old, real_size>>

liballoc_unlock(c) ==
    /\ lock' = 0
    /\ pc' = [pc EXCEPT ![c] = "idle"]
    /\ tag' = [tag EXCEPT ![c] = NULL]
    /\ UNCHANGED <<want, old, real_size>>

(* Too many whole chunks stand by: this one goes back to the page          *)
(* allocator, which does nothing with it.                                  *)
free_drop(c) ==
    LET t == tag[c]
        i == BinOfTag(t)
    IN  /\ pc[c] = "merge"
        /\ ~FreeLeft(t) /\ ~FreeRight(t)
        /\ Whole(chain, t) /\ l_completePages[i] = MAXCOMPLETE
        /\ chain' = forget_chunk(chain, t)
        /\ bins' = forget_tag(bins, t)
        /\ size' = Forget(size, t)
        /\ liballoc_unlock(c)
        /\ UNCHANGED <<poolVars, l_completePages, live>>

free_insert(c) ==
    LET t == tag[c]
        i == BinOfTag(t)
    IN  /\ pc[c] = "merge"
        /\ ~FreeLeft(t) /\ ~FreeRight(t)
        /\ Whole(chain, t) => l_completePages[i] # MAXCOMPLETE
        /\ l_completePages' = IF Whole(chain, t)
                              THEN [l_completePages EXCEPT ![i] = @ + 1]
                              ELSE l_completePages
        /\ bins' = insert_tag(bins, t, i)
        /\ liballoc_unlock(c)
        /\ UNCHANGED <<poolVars, chain, size, live>>

(* Variant: the larger of the two sizes is copied.                         *)
LargerSize(p, n) == IF size[p - HDR] > n THEN size[p - HDR] ELSE n

CopySize(p, n) == IF size[p - HDR] > n THEN n ELSE size[p - HDR]

(* realloc reads the size under the lock and gives the lock back.          *)
realloc(c, p, n) ==
    /\ pc[c] = "idle" /\ Freeable(p) /\ n # 0
    /\ page_phase = "ready" /\ lock = 0
    /\ pc' = [pc EXCEPT ![c] = "re_malloc"]
    /\ want' = [want EXCEPT ![c] = n]
    /\ old' = [old EXCEPT ![c] = p]
    /\ real_size' = [real_size EXCEPT ![c] = CopySize(p, n)]
    /\ UNCHANGED <<poolVars, lock, tagVars, live, tag>>

realloc_malloc(c) == pc[c] = "re_malloc" /\ begin_search(c, want[c])

(* liballoc_memcpy, then free of the old block.                            *)
realloc_free(c) == pc[c] = "re_copy" /\ begin_free(c, old[c])

(* What the holder of the lock does next.                                  *)
locked(c) ==
    \/ malloc_next(c) \/ malloc_take(c) \/ malloc_new(c) \/ malloc_panic(c)
    \/ free_melt_left(c) \/ free_absorb_right(c) \/ free_drop(c) \/ free_insert(c)

call(c) ==
    \/ \E n \in Sizes : malloc(c, n)
    \/ \E p \in live : free(c, p)
    \/ \E p \in live, n \in Sizes : realloc(c, p, n)
    \/ realloc_malloc(c)
    \/ realloc_free(c)

HeapNext ==
    \/ boot
    \/ \E c \in Callers : call(c) \/ locked(c)
    \/ panicked

HeapSpec == HeapInit /\ [][HeapNext]_vars

(* Interrupts are off (src/loader.S): a processor that holds the lock goes *)
(* on.  Nothing makes a caller call, and the spin lock is not fair.        *)
HeapFairSpec == HeapSpec /\ \A c \in Callers : WF_vars(locked(c))
-----------------------------------------------------------------------------
EndOfTag(t) == t + chain.real_size[t]

(* The blocks of the heap share no byte (split_tag, allocate_new_tag and   *)
(* page_alloc), where the memory map's regions are spaced.                 *)
TagsApart ==
    WellSpaced => \A s, t \in Tags : s < t => EndOfTag(s) <= t

(* Neighbours know each other and touch.                                   *)
NeighboursLinked(ch) ==
    \A t \in DOMAIN ch.real_size :
        LET l == ch.split_left[t]
            r == ch.split_right[t]
        IN  /\ r # NULL => r = t + ch.real_size[t] /\ ch.split_left[r] = t
            /\ l # NULL => ch.split_right[l] = t

(* The boundary tags of a chunk tile it: neighbours know each other and    *)
(* touch, and only the first and the last block of a chunk lack one        *)
(* (split_tag, melt_left, absorb_right).                                   *)
TagsTileChunks ==
    /\ NeighboursLinked(chain)
    /\ \A t \in Tags : \E i \in 1 .. Len(page_blocks) :
           /\ page_blocks[i].addr <= t /\ EndOfTag(t) <= BlockEnd(page_blocks[i])
           /\ chain.split_left[t] = NULL => t = page_blocks[i].addr
           /\ chain.split_right[t] = NULL => EndOfTag(t) = BlockEnd(page_blocks[i])

(* A caller owns what malloc gave it: the tag before the pointer is there, *)
(* is in no free list, and its block has room for the size asked for, so   *)
(* free's check of the magic number never fails.                           *)
LiveBlocksIntact ==
    \A p \in live : /\ p - HDR \in Tags
                    /\ bins.index[p - HDR] = -1
                    /\ HDR + size[p - HDR] <= chain.real_size[p - HDR]

ListsSound(b) ==
    /\ \A i \in Bins : LET first == b.l_freePages[i] IN
           first # NULL => b.index[first] = i /\ b.prev[first] = NULL
    /\ \A t \in DOMAIN b.index : LET n == b.next[t]
                                    p == b.prev[t] IN
           /\ b.index[t] = -1 => n = NULL /\ p = NULL
           /\ n # NULL => b.prev[n] = t /\ b.index[n] = b.index[t]
           /\ p # NULL => b.next[p] = t /\ b.index[p] = b.index[t]
           /\ b.index[t] # -1 /\ p = NULL => b.l_freePages[b.index[t]] = t

(* The bins are doubly linked lists, and a tag is in the list its index    *)
(* says, also while malloc or free is halfway (insert_tag, remove_tag).    *)
FreeListsSound == ListsSound(bins)

(* A free block is in the bin of its size, so the blocks malloc looks at   *)
(* are all there are of that size (split_tag, free).                       *)
FreeBlocksInTheirBin ==
    \A t \in Tags : bins.index[t] # -1 =>
        bins.index[t] = BinOf(chain.real_size[t] - HDR)

(* free leaves no two free neighbours behind: when all is freed, every     *)
(* chunk is one block again (free's two loops).                            *)
FreeBlocksMerged ==
    lock = 0 => \A t \in Tags : \A r \in Tags :
        r = chain.split_right[t] => bins.index[t] = -1 \/ bins.index[r] = -1

(* l_completePages counts the whole free chunks of each bin, up to         *)
(* MAXCOMPLETE of them (malloc and free keep it, in different ways).       *)
CompletePagesCounted ==
    \A i \in Bins :
        /\ l_completePages[i] =
               Cardinality({t \in Tags : bins.index[t] = i /\ Whole(chain, t)})
        /\ l_completePages[i] <= MAXCOMPLETE

(* realloc copies between blocks that are both still allocated and both    *)
(* large enough, though it read the old size before it gave the lock back. *)
ReallocCopyInBounds ==
    \A c \in Callers : pc[c] = "re_copy" =>
        LET to == tag[c]
            from == old[c] - HDR
        IN  /\ {to + HDR, old[c]} \subseteq live
            /\ to # from
            /\ HDR + real_size[c] <= chain.real_size[from]
            /\ HDR + real_size[c] <= chain.real_size[to]

(* The heap gives out and takes back blocks as Allocator says.             *)
Blocks == {[ptr |-> p, len |-> size[p - HDR]] : p \in live}
A == INSTANCE Allocator WITH allocated <- Blocks
AllocatorSpec == A!Spec

(* Every loop under the lock ends, and the lock is given back, unless      *)
(* memory runs out: then panic keeps it for good.                          *)
LockGivenBack == (lock = 1) ~> (lock = 0 \/ page_phase = "panic")
=============================================================================

----------------------------- MODULE HeapProofs -----------------------------
(***************************************************************************)
(* What malloc, realloc and free of src/alloc.c keep of the heap, for      *)
(* every number of processors, every set of sizes, every choice of bins    *)
(* and every memory map whose usable regions lie above BOOT_BSP_HEAP_BASE  *)
(* and apart from one another (WellSpaced).                                *)
(*                                                                         *)
(* The lemmas come first: the free lists (insert_tag, remove_tag) stay     *)
(* doubly linked lists, the chunks (split_tag, join, new_chunk) stay tiled *)
(* by blocks that are apart, and what malloc and free do with them keeps   *)
(* the bins, the merging of free neighbours and the counts of complete     *)
(* pages in step (Consistent).                                             *)
(*                                                                         *)
(* The inductive invariant is HeapIInv.  Consistent says what the data     *)
(* structures are between any two steps, in the middle of malloc and free  *)
(* too, where one block is in no list although no caller owns it.  It is   *)
(* inductive only beside what the other callers stand in: that one of them *)
(* holds the lock (OneInside), that the tag it works on is the one its     *)
(* program counter says (TagAtWork), and that the old block of a realloc   *)
(* stays its own while the lock is free (ReallocAtWork, PointersApart).    *)
(***************************************************************************)
EXTENDS Heap, PagePoolProofs, FiniteSetTheorems, WellFoundedInduction

(* The free lists over the tags T.                                         *)
ListsOver(b, T) == T \subseteq Nat \ {NULL} /\ b \in BinsType(T) /\ ListsSound(b)

(* The blocks of the tags T: they tile the memory up to top without        *)
(* sharing a byte.                                                         *)
BlocksOver(ch, T, top) ==
    /\ T \subseteq Nat \ {NULL}
    /\ ch \in ChainType(T)
    /\ NeighboursLinked(ch)
    /\ \A t \in T : HDR <= ch.real_size[t] /\ t + ch.real_size[t] <= top
    /\ \A s, t \in T : s < t => s + ch.real_size[s] <= t

-----------------------------------------------------------------------------
(* -1, the index of a tag in no list, is no bin's.                         *)
LEMMA NoBinBelow == Bins \subseteq Nat /\ -1 \notin Bins
BY HeapAssumption DEF Bins

(* A tag that was in no list goes to the front of its bin's.               *)
LEMMA InsertTagSound ==
    ASSUME NEW T, NEW b, ListsOver(b, T),
           NEW t \in T, b.index[t] = -1, NEW i \in Bins
    PROVE  /\ ListsOver(insert_tag(b, t, i), T)
           /\ insert_tag(b, t, i).index = [b.index EXCEPT ![t] = i]
<1> DEFINE B == insert_tag(b, t, i)
           first == b.l_freePages[i]
<1>1. /\ B.l_freePages = [b.l_freePages EXCEPT ![i] = t]
      /\ B.index = [b.index EXCEPT ![t] = i]
      /\ B.next = IF first = NULL THEN b.next ELSE [b.next EXCEPT ![t] = first]
      /\ B.prev = Store(b.prev, first, t)
  BY DEF insert_tag
<1>2. /\ T \subseteq Nat \ {NULL}
      /\ b.l_freePages \in [Bins -> Link(T)]
      /\ b.index \in [T -> Bins \cup {-1}]
      /\ b.next \in [T -> Link(T)]
      /\ b.prev \in [T -> Link(T)]
      /\ ListsSound(b)
      /\ NULL \notin T
      /\ -1 \notin Bins
  BY NoBinBelow DEF ListsOver, BinsType
<1>3. /\ B.l_freePages \in [Bins -> Link(T)]
      /\ B.index \in [T -> Bins \cup {-1}]
      /\ B.next \in [T -> Link(T)]
      /\ B.prev \in [T -> Link(T)]
  BY <1>1, <1>2 DEF Link, Store
<1>4. B \in BinsType(T)
  BY <1>3 DEF BinsType, insert_tag
<1>5. first # NULL => /\ first \in T /\ first # t
                      /\ b.index[first] = i /\ b.prev[first] = NULL
  BY <1>2 DEF ListsSound, Link
<1>6. b.next[t] = NULL /\ b.prev[t] = NULL
  BY <1>2 DEF ListsSound
<1>7. ListsSound(B)
  <2> HIDE DEF B
  <2>1. ASSUME NEW j \in Bins, B.l_freePages[j] # NULL
        PROVE  /\ B.index[B.l_freePages[j]] = j
               /\ B.prev[B.l_freePages[j]] = NULL
    BY <1>1, <1>2, <1>5, <1>6, <2>1 DEF ListsSound, Link, Store
  <2>2. ASSUME NEW x \in T
        PROVE  /\ B.index[x] = -1 => B.next[x] = NULL /\ B.prev[x] = NULL
               /\ B.next[x] # NULL => /\ B.prev[B.next[x]] = x
                                      /\ B.index[B.next[x]] = B.index[x]
               /\ B.prev[x] # NULL => /\ B.next[B.prev[x]] = x
                                      /\ B.index[B.prev[x]] = B.index[x]
               /\ B.index[x] # -1 /\ B.prev[x] = NULL =>
                      B.l_freePages[B.index[x]] = x
    <3>1. /\ b.index[x] = -1 => b.next[x] = NULL /\ b.prev[x] = NULL
          /\ b.next[x] # NULL => /\ b.prev[b.next[x]] = x
                                 /\ b.index[b.next[x]] = b.index[x]
                                 /\ b.next[x] \in T
          /\ b.prev[x] # NULL => /\ b.next[b.prev[x]] = x
                                 /\ b.index[b.prev[x]] = b.index[x]
                                 /\ b.prev[x] \in T
          /\ b.index[x] # -1 /\ b.prev[x] = NULL =>
                 b.l_freePages[b.index[x]] = x
      BY <1>2 DEF ListsSound, Link
    <3>2. CASE x = t
      BY <1>1, <1>2, <1>5, <1>6, <3>1, <3>2 DEF Store
    <3>3. CASE x # t
      <4>1. B.next[x] = b.next[x] /\ B.index[x] = b.index[x]
        BY <1>1, <1>2, <3>3
      <4>2. B.prev[x] = IF x = first THEN t ELSE b.prev[x]
        BY <1>1, <1>2 DEF Store
      <4>3. b.next[x] # t /\ b.prev[x] # t
        BY <1>2, <1>6, <3>1, SMTT(30)
      <4>4. CASE x = first
        BY <1>1, <1>2, <1>5, <3>1, <3>3, <4>1, <4>2, <4>3, <4>4 DEF Store
      <4>5. CASE x # first
        BY <1>1, <1>2, <1>5, <3>1, <3>3, <4>1, <4>2, <4>3, <4>5 DEF Store
      <4> QED
        BY <4>4, <4>5
    <3> QED
      BY <3>2, <3>3
  <2>3. DOMAIN B.index = T
    BY <1>3
  <2> QED
    BY <2>1, <2>2, <2>3 DEF ListsSound
<1> QED
  BY <1>1, <1>2, <1>4, <1>7 DEF ListsOver

(* What ListsOver gives of each tag, for the lemmas that follow.           *)
LEMMA ListFacts ==
    ASSUME NEW T, NEW b, ListsOver(b, T)
    PROVE  /\ NULL \notin T
           /\ b.l_freePages \in [Bins -> Link(T)]
           /\ b.index \in [T -> Bins \cup {-1}]
           /\ b.next \in [T -> Link(T)]
           /\ b.prev \in [T -> Link(T)]
           /\ \A i \in Bins : b.l_freePages[i] # NULL =>
                  /\ b.l_freePages[i] \in T
                  /\ b.index[b.l_freePages[i]] = i
                  /\ b.prev[b.l_freePages[i]] = NULL
           /\ \A x \in T :
                  /\ b.index[x] = -1 => b.next[x] = NULL /\ b.prev[x] = NULL
                  /\ b.next[x] # NULL => /\ b.next[x] \in T
                                         /\ b.prev[b.next[x]] = x
                                         /\ b.index[b.next[x]] = b.index[x]
                  /\ b.prev[x] # NULL => /\ b.prev[x] \in T
                                         /\ b.next[b.prev[x]] = x
                                         /\ b.index[b.prev[x]] = b.index[x]
                  /\ b.index[x] # -1 /\ b.prev[x] = NULL =>
                         b.l_freePages[b.index[x]] = x
<1>1. /\ T \subseteq Nat \ {NULL}
      /\ b.l_freePages \in [Bins -> Link(T)]
      /\ b.index \in [T -> Bins \cup {-1}]
      /\ b.next \in [T -> Link(T)]
      /\ b.prev \in [T -> Link(T)]
      /\ ListsSound(b)
  BY DEF ListsOver, BinsType
<1>2. /\ DOMAIN b.index = T
      /\ \A i \in Bins : b.l_freePages[i] # NULL => b.l_freePages[i] \in T
      /\ \A x \in T : /\ b.next[x] # NULL => b.next[x] \in T
                      /\ b.prev[x] # NULL => b.prev[x] \in T
  BY <1>1 DEF Link
<1>3. \A i \in Bins : b.l_freePages[i] # NULL =>
          /\ b.l_freePages[i] \in T
          /\ b.index[b.l_freePages[i]] = i
          /\ b.prev[b.l_freePages[i]] = NULL
  BY <1>1, <1>2 DEF ListsSound
<1>4. \A x \in T :
          /\ b.index[x] = -1 => b.next[x] = NULL /\ b.prev[x] = NULL
          /\ b.next[x] # NULL => /\ b.next[x] \in T
                                 /\ b.prev[b.next[x]] = x
                                 /\ b.index[b.next[x]] = b.index[x]
          /\ b.prev[x] # NULL => /\ b.prev[x] \in T
                                 /\ b.next[b.prev[x]] = x
                                 /\ b.index[b.prev[x]] = b.index[x]
          /\ b.index[x] # -1 /\ b.prev[x] = NULL => b.l_freePages[b.index[x]] = x
  <2> TAKE x \in T
  <2>1. /\ b.next[x] # NULL => b.next[x] \in T
        /\ b.prev[x] # NULL => b.prev[x] \in T
    BY <1>1 DEF Link
  <2>2. /\ b.index[x] = -1 => b.next[x] = NULL /\ b.prev[x] = NULL
        /\ b.next[x] # NULL => /\ b.prev[b.next[x]] = x
                               /\ b.index[b.next[x]] = b.index[x]
        /\ b.prev[x] # NULL => /\ b.next[b.prev[x]] = x
                               /\ b.index[b.prev[x]] = b.index[x]
        /\ b.index[x] # -1 /\ b.prev[x] = NULL => b.l_freePages[b.index[x]] = x
    BY <1>1, <1>2 DEF ListsSound
  <2> QED
    BY <2>1, <2>2
<1>5. NULL \notin T
  BY <1>1
<1> QED
  BY <1>1, <1>3, <1>4, <1>5, Zenon

(* A tag leaves its list.                                                  *)
LEMMA RemoveTagSound ==
    ASSUME NEW T, NEW b, ListsOver(b, T), NEW t \in T, b.index[t] # -1
    PROVE  /\ ListsOver(remove_tag(b, t), T)
           /\ remove_tag(b, t).index = [b.index EXCEPT ![t] = -1]
<1> DEFINE i == b.index[t]
           head == IF b.l_freePages[i] = t
                   THEN [b.l_freePages EXCEPT ![i] = b.next[t]] ELSE b.l_freePages
           index == [b.index EXCEPT ![t] = -1]
           next == Store(Store(b.next, b.prev[t], b.next[t]), t, NULL)
           prev == Store(Store(b.prev, b.next[t], b.prev[t]), t, NULL)
<1>1. remove_tag(b, t) = [l_freePages |-> head, index |-> index, next |-> next,
                          prev |-> prev]
  BY DEF remove_tag
<1>2. /\ NULL \notin T /\ -1 \notin Bins /\ i \in Bins
      /\ b.l_freePages \in [Bins -> Link(T)]
      /\ b.index \in [T -> Bins \cup {-1}]
      /\ b.next \in [T -> Link(T)]
      /\ b.prev \in [T -> Link(T)]
  BY ListFacts, NoBinBelow
<1>3. /\ head \in [Bins -> Link(T)]
      /\ index \in [T -> Bins \cup {-1}]
      /\ next \in [T -> Link(T)]
      /\ prev \in [T -> Link(T)]
  BY <1>2 DEF Link, Store
<1>4. \A x \in T : /\ index[x] = IF x = t THEN -1 ELSE b.index[x]
                   /\ next[x] = IF x = t THEN NULL
                                ELSE IF x = b.prev[t] THEN b.next[t] ELSE b.next[x]
                   /\ prev[x] = IF x = t THEN NULL
                                ELSE IF x = b.next[t] THEN b.prev[t] ELSE b.prev[x]
  BY <1>2 DEF Store
<1>5. \A j \in Bins : head[j] = IF j = i /\ b.l_freePages[i] = t THEN b.next[t]
                                ELSE b.l_freePages[j]
  BY <1>2
<1> HIDE DEF head, index, next, prev
<1>6. ASSUME NEW j \in Bins, head[j] # NULL
      PROVE  index[head[j]] = j /\ prev[head[j]] = NULL
  <2>1. CASE j = i /\ b.l_freePages[i] = t
    BY <1>2, <1>4, <1>5, <1>6, <2>1, ListFacts
  <2>2. CASE ~(j = i /\ b.l_freePages[i] = t)
    <3>1. head[j] = b.l_freePages[j] /\ b.l_freePages[j] \in T
          /\ b.index[b.l_freePages[j]] = j /\ b.prev[b.l_freePages[j]] = NULL
      BY <1>2, <1>5, <1>6, <2>2, ListFacts
    <3>2. b.l_freePages[j] # t
      BY <2>2, <3>1
    <3>3. b.l_freePages[j] # b.next[t]
      BY <1>2, <3>1, ListFacts
    <3> QED
      BY <1>4, <3>1, <3>2, <3>3
  <2> QED
    BY <2>1, <2>2
<1>7. ASSUME NEW x \in T
      PROVE  /\ index[x] = -1 => next[x] = NULL /\ prev[x] = NULL
             /\ next[x] # NULL => prev[next[x]] = x /\ index[next[x]] = index[x]
             /\ prev[x] # NULL => next[prev[x]] = x /\ index[prev[x]] = index[x]
             /\ index[x] # -1 /\ prev[x] = NULL => head[index[x]] = x
  <2>1. CASE x = t
    BY <1>4, <2>1
  <2>2. CASE x # t
    <3> USE <2>2, <1>2
    <3>1. index[x] = b.index[x]
      BY <1>4
    <3>2. index[x] = -1 => next[x] = NULL /\ prev[x] = NULL
      BY <1>4, <3>1, ListFacts
    <3>3. next[x] # NULL => prev[next[x]] = x /\ index[next[x]] = index[x]
      BY <1>4, <3>1, ListFacts
    <3>4. prev[x] # NULL => next[prev[x]] = x /\ index[prev[x]] = index[x]
      BY <1>4, <3>1, ListFacts
    <3>5. index[x] # -1 /\ prev[x] = NULL => head[index[x]] = x
      BY <1>4, <1>5, <3>1, ListFacts
    <3> QED
      BY <3>2, <3>3, <3>4, <3>5
  <2> QED
    BY <2>1, <2>2
<1>8. T \subseteq Nat \ {NULL}
  BY DEF ListsOver
<1>9. ListsOver([l_freePages |-> head, index |-> index, next |-> next,
                 prev |-> prev], T)
  <2>1. [l_freePages |-> head, index |-> index, next |-> next, prev |-> prev]
            \in BinsType(T)
    BY <1>3 DEF BinsType
  <2>2. DOMAIN index = T
    BY <1>3
  <2> QED
    BY <1>6, <1>7, <1>8, <2>1, <2>2 DEF ListsOver, ListsSound
<1> QED
  BY <1>1, <1>9 DEF index

(* A tag appears, in no list.                                              *)
LEMMA UnlistedSound ==
    ASSUME NEW T, NEW b, ListsOver(b, T), NEW t \in Nat \ {NULL}, t \notin T
    PROVE  /\ ListsOver(unlisted(b, t), T \cup {t})
           /\ unlisted(b, t).index = Put(b.index, t, -1)
<1> DEFINE U == T \cup {t}
           index == Put(b.index, t, -1)
           next == Put(b.next, t, NULL)
           prev == Put(b.prev, t, NULL)
<1>1. unlisted(b, t) = [l_freePages |-> b.l_freePages, index |-> index,
                        next |-> next, prev |-> prev]
  BY DEF unlisted
<1>2. /\ NULL \notin T /\ -1 \notin Bins
      /\ b.l_freePages \in [Bins -> Link(T)]
      /\ b.index \in [T -> Bins \cup {-1}]
      /\ b.next \in [T -> Link(T)]
      /\ b.prev \in [T -> Link(T)]
  BY ListFacts, NoBinBelow
<1>3. /\ b.l_freePages \in [Bins -> Link(U)]
      /\ index \in [U -> Bins \cup {-1}]
      /\ next \in [U -> Link(U)]
      /\ prev \in [U -> Link(U)]
  BY <1>2 DEF Link, Put
<1>4. \A x \in U : /\ index[x] = IF x = t THEN -1 ELSE b.index[x]
                   /\ next[x] = IF x = t THEN NULL ELSE b.next[x]
                   /\ prev[x] = IF x = t THEN NULL ELSE b.prev[x]
  BY <1>2 DEF Put
<1> HIDE DEF index, next, prev
<1>5. ASSUME NEW j \in Bins, b.l_freePages[j] # NULL
      PROVE  index[b.l_freePages[j]] = j /\ prev[b.l_freePages[j]] = NULL
  BY <1>4, <1>5, ListFacts
<1>6. ASSUME NEW x \in U
      PROVE  /\ index[x] = -1 => next[x] = NULL /\ prev[x] = NULL
             /\ next[x] # NULL => prev[next[x]] = x /\ index[next[x]] = index[x]
             /\ prev[x] # NULL => next[prev[x]] = x /\ index[prev[x]] = index[x]
             /\ index[x] # -1 /\ prev[x] = NULL => b.l_freePages[index[x]] = x
  <2>1. CASE x = t
    BY <1>4, <2>1
  <2>2. CASE x \in T
    BY <1>2, <1>4, <2>2, ListFacts
  <2> QED
    BY <2>1, <2>2
<1>7. ListsOver([l_freePages |-> b.l_freePages, index |-> index, next |-> next,
                 prev |-> prev], U)
  <2>1. [l_freePages |-> b.l_freePages, index |-> index, next |-> next,
         prev |-> prev] \in BinsType(U)
    BY <1>3 DEF BinsType
  <2>2. DOMAIN index = U /\ U \subseteq Nat \ {NULL}
    BY <1>3 DEF ListsOver
  <2> QED
    BY <1>5, <1>6, <2>1, <2>2 DEF ListsOver, ListsSound
<1> QED
  BY <1>1, <1>7 DEF index

(* A tag that is in no list disappears: nothing points to it.              *)
LEMMA ForgetTagSound ==
    ASSUME NEW T, NEW b, ListsOver(b, T), NEW t \in T, b.index[t] = -1
    PROVE  /\ ListsOver(forget_tag(b, t), T \ {t})
           /\ forget_tag(b, t).index = Forget(b.index, t)
<1> DEFINE U == T \ {t}
           index == Forget(b.index, t)
           next == Forget(b.next, t)
           prev == Forget(b.prev, t)
<1>1. forget_tag(b, t) = [l_freePages |-> b.l_freePages, index |-> index,
                          next |-> next, prev |-> prev]
  BY DEF forget_tag
<1>2. /\ NULL \notin T /\ -1 \notin Bins
      /\ b.l_freePages \in [Bins -> Link(T)]
      /\ b.index \in [T -> Bins \cup {-1}]
      /\ b.next \in [T -> Link(T)]
      /\ b.prev \in [T -> Link(T)]
  BY ListFacts, NoBinBelow
<1>3. /\ \A i \in Bins : b.l_freePages[i] # t
      /\ \A x \in U : b.next[x] # t /\ b.prev[x] # t
  BY <1>2, ListFacts
<1>4. /\ b.l_freePages \in [Bins -> Link(U)]
      /\ index \in [U -> Bins \cup {-1}]
      /\ next \in [U -> Link(U)]
      /\ prev \in [U -> Link(U)]
  BY <1>2, <1>3 DEF Link, Forget
<1>5. \A x \in U : index[x] = b.index[x] /\ next[x] = b.next[x] /\ prev[x] = b.prev[x]
  BY <1>2 DEF Forget
<1> HIDE DEF index, next, prev
<1>6. ASSUME NEW j \in Bins, b.l_freePages[j] # NULL
      PROVE  index[b.l_freePages[j]] = j /\ prev[b.l_freePages[j]] = NULL
  BY <1>3, <1>5, <1>6, ListFacts
<1>7. ASSUME NEW x \in U
      PROVE  /\ index[x] = -1 => next[x] = NULL /\ prev[x] = NULL
             /\ next[x] # NULL => prev[next[x]] = x /\ index[next[x]] = index[x]
             /\ prev[x] # NULL => next[prev[x]] = x /\ index[prev[x]] = index[x]
             /\ index[x] # -1 /\ prev[x] = NULL => b.l_freePages[index[x]] = x
  BY <1>2, <1>3, <1>5, ListFacts
<1>8. ListsOver([l_freePages |-> b.l_freePages, index |-> index, next |-> next,
                 prev |-> prev], U)
  <2>1. [l_freePages |-> b.l_freePages, index |-> index, next |-> next,
         prev |-> prev] \in BinsType(U)
    BY <1>4 DEF BinsType
  <2>2. DOMAIN index = U /\ U \subseteq Nat \ {NULL}
    BY <1>4 DEF ListsOver
  <2> QED
    BY <1>6, <1>7, <2>1, <2>2 DEF ListsOver, ListsSound
<1> QED
  BY <1>1, <1>8 DEF index

-----------------------------------------------------------------------------
(* What BlocksOver gives of each tag.                                      *)
LEMMA BlockFacts ==
    ASSUME NEW T, NEW ch, NEW top \in Int, BlocksOver(ch, T, top)
    PROVE  /\ NULL \notin T
           /\ T \subseteq Nat
           /\ ch.real_size \in [T -> Nat]
           /\ ch.split_left \in [T -> Link(T)]
           /\ ch.split_right \in [T -> Link(T)]
           /\ \A t \in T :
                  /\ HDR <= ch.real_size[t]
                  /\ t + ch.real_size[t] <= top
                  /\ ch.split_right[t] # NULL =>
                         /\ ch.split_right[t] \in T
                         /\ ch.split_right[t] = t + ch.real_size[t]
                         /\ ch.split_left[ch.split_right[t]] = t
                  /\ ch.split_left[t] # NULL =>
                         /\ ch.split_left[t] \in T
                         /\ ch.split_right[ch.split_left[t]] = t
           /\ \A s, t \in T : s < t => s + ch.real_size[s] <= t
<1>1. /\ T \subseteq Nat \ {NULL}
      /\ ch.real_size \in [T -> Nat]
      /\ ch.split_left \in [T -> Link(T)]
      /\ ch.split_right \in [T -> Link(T)]
      /\ NeighboursLinked(ch)
      /\ DOMAIN ch.real_size = T
  BY DEF BlocksOver, ChainType
<1>2. ASSUME NEW t \in T
      PROVE  /\ ch.split_right[t] # NULL =>
                    /\ ch.split_right[t] \in T
                    /\ ch.split_right[t] = t + ch.real_size[t]
                    /\ ch.split_left[ch.split_right[t]] = t
             /\ ch.split_left[t] # NULL =>
                    /\ ch.split_left[t] \in T
                    /\ ch.split_right[ch.split_left[t]] = t
  <2>1. /\ ch.split_right[t] # NULL => ch.split_right[t] \in T
        /\ ch.split_left[t] # NULL => ch.split_left[t] \in T
    BY <1>1 DEF Link
  <2>2. /\ ch.split_right[t] # NULL =>
               /\ ch.split_right[t] = t + ch.real_size[t]
               /\ ch.split_left[ch.split_right[t]] = t
        /\ ch.split_left[t] # NULL => ch.split_right[ch.split_left[t]] = t
    BY <1>1 DEF NeighboursLinked
  <2> QED
    BY <2>1, <2>2
<1>3. NULL \notin T /\ T \subseteq Nat
  BY <1>1
<1>4. /\ \A t \in T : HDR <= ch.real_size[t] /\ t + ch.real_size[t] <= top
      /\ \A s, t \in T : s < t => s + ch.real_size[s] <= t
  BY DEF BlocksOver
<1> QED
  BY <1>1, <1>2, <1>3, <1>4

(* Block t is cut: both parts lie in what it was.                          *)
LEMMA SplitTagSound ==
    ASSUME NEW T, NEW ch, NEW top \in Int, BlocksOver(ch, T, top),
           NEW t \in T, NEW n \in Nat, ch.real_size[t] >= n + 2 * HDR
    PROVE  /\ t + HDR + n \in Nat \ {NULL}
           /\ t + HDR + n \notin T
           /\ BlocksOver(split_tag(ch, t, n), T \cup {t + HDR + n}, top)
           /\ \A x \in T : split_tag(ch, t, n).real_size[x] =
                              IF x = t THEN HDR + n ELSE ch.real_size[x]
<1> DEFINE new == t + HDR + n
           U == T \cup {new}
           rs == Put([ch.real_size EXCEPT ![t] = HDR + n], new,
                     ch.real_size[t] - HDR - n)
           sl == Put(Store(ch.split_left, ch.split_right[t], new), new, t)
           sr == Put([ch.split_right EXCEPT ![t] = new], new, ch.split_right[t])
<1>1. split_tag(ch, t, n) = [real_size |-> rs, split_left |-> sl, split_right |-> sr]
  BY DEF split_tag, Kept, Rest
<1>2. /\ NULL = 0 /\ HDR \in Nat /\ HDR > 0 /\ NULL \notin T
      /\ ch.real_size \in [T -> Nat]
      /\ ch.split_left \in [T -> Link(T)]
      /\ ch.split_right \in [T -> Link(T)]
      /\ T \subseteq Nat
  BY BlockFacts, HeapAssumption DEF NULL
<1>3. new \in Nat /\ new # NULL /\ t < new /\ new < t + ch.real_size[t]
  BY <1>2
<1>4. new \notin T
  BY <1>2, <1>3, BlockFacts
<1>5. /\ rs \in [U -> Nat]
      /\ sl \in [U -> Link(U)]
      /\ sr \in [U -> Link(U)]
  BY <1>2, <1>3 DEF Link, Put, Store
<1>6. \A x \in U :
          /\ rs[x] = IF x = new THEN ch.real_size[t] - HDR - n
                     ELSE IF x = t THEN HDR + n ELSE ch.real_size[x]
          /\ sl[x] = IF x = new THEN t
                     ELSE IF x = ch.split_right[t] THEN new ELSE ch.split_left[x]
          /\ sr[x] = IF x = new THEN ch.split_right[t]
                     ELSE IF x = t THEN new ELSE ch.split_right[x]
  BY <1>2, <1>3, <1>4 DEF Put, Store
<1> HIDE DEF rs, sl, sr
<1>7. ASSUME NEW x \in U
      PROVE  /\ HDR <= rs[x] /\ x + rs[x] <= top
             /\ sr[x] # NULL => sr[x] = x + rs[x] /\ sl[sr[x]] = x
             /\ sl[x] # NULL => sr[sl[x]] = x
  <2>1. CASE x = new
    BY <1>2, <1>3, <1>4, <1>6, <2>1, BlockFacts
  <2>2. CASE x = t
    BY <1>2, <1>3, <1>4, <1>6, <2>2, BlockFacts
  <2>3. CASE x \in T /\ x # t
    BY <1>2, <1>3, <1>4, <1>6, <2>3, BlockFacts
  <2> QED
    BY <2>1, <2>2, <2>3
<1>8. ASSUME NEW x \in U, NEW y \in U, x < y
      PROVE  x + rs[x] <= y
  <2>1. CASE x = new
    BY <1>2, <1>3, <1>4, <1>6, <1>8, <2>1, BlockFacts
  <2>2. CASE x # new /\ y = new
    BY <1>2, <1>3, <1>4, <1>6, <1>8, <2>2, BlockFacts
  <2>3. CASE x # new /\ y # new
    BY <1>2, <1>3, <1>4, <1>6, <1>8, <2>3, BlockFacts
  <2> QED
    BY <2>1, <2>2, <2>3
<1>9. BlocksOver([real_size |-> rs, split_left |-> sl, split_right |-> sr], U, top)
  <2>1. [real_size |-> rs, split_left |-> sl, split_right |-> sr] \in ChainType(U)
    BY <1>5 DEF ChainType
  <2>2. DOMAIN rs = U /\ U \subseteq Nat \ {NULL}
    BY <1>2, <1>3, <1>5
  <2> QED
    BY <1>7, <1>8, <2>1, <2>2 DEF BlocksOver, NeighboursLinked
<1>10. \A x \in T : rs[x] = IF x = t THEN HDR + n ELSE ch.real_size[x]
  BY <1>4, <1>6
<1> QED
  BY <1>1, <1>3, <1>4, <1>9, <1>10

-----------------------------------------------------------------------------
(* Each block lies in one that page_alloc returned, and lacks a neighbour  *)
(* just where that one begins or ends.                                     *)
InChunks(ch, T, blocks) ==
    \A t \in T : \E i \in 1 .. Len(blocks) :
        /\ blocks[i].addr <= t /\ t + ch.real_size[t] <= BlockEnd(blocks[i])
        /\ ch.split_left[t] = NULL <=> t = blocks[i].addr
        /\ ch.split_right[t] = NULL <=> t + ch.real_size[t] = BlockEnd(blocks[i])

(* Bin i is that of the block of t.                                        *)
BinIs(ch, t, i) == i = BinOf(ch.real_size[t] - HDR)

(* A free block is in the bin of its size.                                 *)
BinsFit(ch, b, T) == \A t \in T : b.index[t] # -1 => BinIs(ch, t, b.index[t])

(* Where the rest of block t begins when it is cut at n bytes.             *)
RestAt(t, n) == t + HDR + n

(* Of the tags T, t has index i in B, and the others the one they had in b. *)
Reindexed(B, b, T, t, i) ==
    \A x \in T : B.index[x] = IF x = t THEN i ELSE b.index[x]

(* Of the tags T, t has n bytes in F, and the others what they had in ch.  *)
Resized(F, ch, T, t, n) ==
    \A x \in T : F.real_size[x] = IF x = t THEN n ELSE ch.real_size[x]

(* Block t has room for n bytes and another tag.                           *)
RoomFor(ch, t, n) == ch.real_size[t] >= n + 2 * HDR

(* No two neighbours are free.                                             *)
Merged(ch, b, T) ==
    \A t \in T : ch.split_right[t] # NULL =>
        b.index[t] = -1 \/ b.index[ch.split_right[t]] = -1

(* The whole free chunks of bin i.                                         *)
WholeFree(ch, b, T, i) == {t \in T : b.index[t] = i /\ Whole(ch, t)}

(* complete says how many there are.                                       *)
Counted(ch, b, T, complete) ==
    /\ complete \in [Bins -> Int]
    /\ \A i \in Bins : /\ complete[i] = Cardinality(WholeFree(ch, b, T, i))
                       /\ complete[i] <= MAXCOMPLETE

(* The counts after t came to bin i, or left it.                           *)
OneMore(ch, t, complete, i) ==
    IF Whole(ch, t) THEN [complete EXCEPT ![i] = @ + 1] ELSE complete
OneLess(ch, t, complete, i) ==
    IF Whole(ch, t) THEN [complete EXCEPT ![i] = @ - 1] ELSE complete

(* What the heap's tags satisfy at every step, also under the lock.        *)
Consistent(ch, b, T, complete, top, blocks) ==
    /\ IsFiniteSet(T)
    /\ Counted(ch, b, T, complete)
    /\ BlocksOver(ch, T, top)
    /\ InChunks(ch, T, blocks)
    /\ ListsOver(b, T)
    /\ BinsFit(ch, b, T)
    /\ Merged(ch, b, T)

-----------------------------------------------------------------------------
(* The fields of the tags that stay when r is joined to l.                 *)
LEMMA JoinFields ==
    ASSUME NEW T, NEW ch, NEW top \in Int, BlocksOver(ch, T, top),
           NEW l \in T, NEW r \in T, l # r, NEW x \in T \ {r}
    PROVE  /\ join(ch, l, r).real_size[x] =
                  IF x = l THEN ch.real_size[l] + ch.real_size[r]
                  ELSE ch.real_size[x]
           /\ join(ch, l, r).split_right[x] =
                  IF x = l THEN ch.split_right[r] ELSE ch.split_right[x]
           /\ join(ch, l, r).split_left[x] =
                  IF x = ch.split_right[r] THEN l ELSE ch.split_left[x]
<1>1. /\ ch.real_size \in [T -> Nat]
      /\ ch.split_left \in [T -> Link(T)]
      /\ ch.split_right \in [T -> Link(T)]
  BY BlockFacts
<1> QED
  BY <1>1 DEF join, Forget, Store

(* Two neighbours become one block (melt_left, absorb_right).              *)
LEMMA JoinSound ==
    ASSUME NEW T, NEW ch, NEW top \in Int, BlocksOver(ch, T, top),
           NEW l \in T, NEW r \in T, ch.split_right[l] = r
    PROVE  BlocksOver(join(ch, l, r), T \ {r}, top) /\ l # r
<1> DEFINE U == T \ {r}
           rs == Forget([ch.real_size EXCEPT ![l] = @ + ch.real_size[r]], r)
           sl == Forget(Store(ch.split_left, ch.split_right[r], l), r)
           sr == Forget([ch.split_right EXCEPT ![l] = ch.split_right[r]], r)
<1>1. join(ch, l, r) = [real_size |-> rs, split_left |-> sl, split_right |-> sr]
  BY DEF join
<1>2. /\ NULL = 0 /\ HDR \in Nat /\ HDR > 0 /\ NULL \notin T /\ T \subseteq Nat
      /\ ch.real_size \in [T -> Nat]
      /\ ch.split_left \in [T -> Link(T)]
      /\ ch.split_right \in [T -> Link(T)]
  BY BlockFacts, HeapAssumption DEF NULL
<1>3. /\ r = l + ch.real_size[l] /\ ch.split_left[r] = l /\ l < r
      /\ \A x \in T : ch.split_right[x] = r => x = l
      /\ \A x \in T : ch.split_left[x] = r => x = ch.split_right[r]
      /\ ch.split_right[r] # r
  BY <1>2, BlockFacts
<1>4. \A x \in U :
          /\ rs[x] = IF x = l THEN ch.real_size[l] + ch.real_size[r]
                     ELSE ch.real_size[x]
          /\ sr[x] = IF x = l THEN ch.split_right[r] ELSE ch.split_right[x]
          /\ sl[x] = IF x = ch.split_right[r] THEN l ELSE ch.split_left[x]
  BY <1>2, <1>3 DEF Forget, Store
<1>5. /\ rs \in [U -> Nat]
      /\ sl \in [U -> Link(U)]
      /\ sr \in [U -> Link(U)]
  <2>1. DOMAIN rs = U /\ DOMAIN sl = U /\ DOMAIN sr = U
    BY <1>2, <1>3 DEF Forget, Store
  <2>2. \A x \in U : rs[x] \in Nat /\ sl[x] \in Link(U) /\ sr[x] \in Link(U)
    BY <1>2, <1>3, <1>4, BlockFacts, SMTT(30) DEF Link
  <2>3. rs = [x \in U |-> rs[x]] /\ sl = [x \in U |-> sl[x]] /\ sr = [x \in U |-> sr[x]]
    BY <2>1 DEF Forget
  <2> HIDE DEF rs, sl, sr, U
  <2> QED
    BY <2>2, <2>3
<1> HIDE DEF rs, sl, sr
<1>6. \A x, y \in T : x < y => x + ch.real_size[x] <= y
  BY BlockFacts
<1>7. ASSUME NEW x \in U
      PROVE  /\ HDR <= rs[x] /\ x + rs[x] <= top
             /\ sr[x] # NULL => sr[x] = x + rs[x] /\ sl[sr[x]] = x
             /\ sl[x] # NULL => sr[sl[x]] = x
  <2>1. CASE x = l
    BY <1>2, <1>3, <1>4, <2>1, BlockFacts
  <2>2. CASE x # l
    BY <1>2, <1>3, <1>4, <2>2, BlockFacts
  <2> QED
    BY <2>1, <2>2
<1>8. ASSUME NEW x \in U, NEW y \in U, x < y
      PROVE  x + rs[x] <= y
  <2>1. CASE x = l
    <3>1. /\ y \in T /\ y # r /\ l < y /\ y \in Nat /\ l \in Nat /\ r \in Nat
          /\ ch.real_size[l] \in Nat /\ ch.real_size[r] \in Nat
          /\ rs[x] = ch.real_size[l] + ch.real_size[r]
      BY <1>2, <1>4, <1>8, <2>1
    <3>2. r <= y
      BY <1>3, <1>6, <3>1
    <3>3. r + ch.real_size[r] <= y
      BY <1>6, <3>1, <3>2
    <3> QED
      BY <1>3, <2>1, <3>1, <3>3
  <2>2. CASE x # l
    <3>1. x \in T /\ y \in T /\ rs[x] = ch.real_size[x]
      BY <1>4, <2>2
    <3> QED
      BY <1>8, <1>6, <3>1
  <2> QED
    BY <2>1, <2>2
<1>9. BlocksOver([real_size |-> rs, split_left |-> sl, split_right |-> sr], U, top)
  <2>1. [real_size |-> rs, split_left |-> sl, split_right |-> sr] \in ChainType(U)
    BY <1>5 DEF ChainType
  <2>2. DOMAIN rs = U /\ U \subseteq Nat \ {NULL}
    BY <1>2, <1>5
  <2> QED
    BY <1>7, <1>8, <2>1, <2>2 DEF BlocksOver, NeighboursLinked
<1> QED
  BY <1>1, <1>3, <1>9

(* What page_alloc returned: blocks that lie one above the other below top. *)
PagesApart(blocks, top) ==
    /\ Len(blocks) \in Nat
    /\ \A i \in 1 .. Len(blocks) :
           /\ blocks[i].addr \in Int /\ BlockEnd(blocks[i]) \in Int
           /\ BlockEnd(blocks[i]) <= top
    /\ \A i, j \in 1 .. Len(blocks) : i < j => BlockEnd(blocks[i]) <= blocks[j].addr

(* Neighbours lie in the same block of pages.                              *)
LEMMA JoinInChunks ==
    ASSUME NEW T, NEW ch, NEW top \in Int, BlocksOver(ch, T, top),
           NEW blocks, PagesApart(blocks, top), InChunks(ch, T, blocks),
           NEW l \in T, NEW r \in T, ch.split_right[l] = r
    PROVE  InChunks(join(ch, l, r), T \ {r}, blocks)
<1>1. /\ NULL = 0 /\ HDR \in Nat /\ HDR > 0 /\ NULL \notin T /\ T \subseteq Nat
      /\ ch.real_size \in [T -> Nat]
      /\ r = l + ch.real_size[l] /\ l < r /\ ch.real_size[r] > 0
      /\ ch.split_left[r] = l
      /\ ch.split_right[r] # NULL => ch.split_left[ch.split_right[r]] = r
                                     /\ ch.split_right[r] > r
  BY BlockFacts, HeapAssumption DEF NULL
<1>2. \A x \in T \ {r} :
          /\ join(ch, l, r).real_size[x] =
                 IF x = l THEN ch.real_size[l] + ch.real_size[r]
                 ELSE ch.real_size[x]
          /\ join(ch, l, r).split_right[x] =
                 IF x = l THEN ch.split_right[r] ELSE ch.split_right[x]
          /\ join(ch, l, r).split_left[x] =
                 IF x = ch.split_right[r] THEN l ELSE ch.split_left[x]
  BY <1>1, JoinFields
<1> SUFFICES ASSUME NEW x \in T \ {r}
             PROVE  \E i \in 1 .. Len(blocks) :
                        /\ blocks[i].addr <= x
                        /\ x + join(ch, l, r).real_size[x] <= BlockEnd(blocks[i])
                        /\ join(ch, l, r).split_left[x] = NULL <=> x = blocks[i].addr
                        /\ join(ch, l, r).split_right[x] = NULL <=>
                               x + join(ch, l, r).real_size[x] = BlockEnd(blocks[i])
  BY DEF InChunks
<1>3. PICK i \in 1 .. Len(blocks) :
          /\ blocks[i].addr <= x /\ x + ch.real_size[x] <= BlockEnd(blocks[i])
          /\ ch.split_left[x] = NULL <=> x = blocks[i].addr
          /\ ch.split_right[x] = NULL <=> x + ch.real_size[x] = BlockEnd(blocks[i])
  BY DEF InChunks
<1>4. CASE x # l
  <2>1. /\ join(ch, l, r).real_size[x] = ch.real_size[x]
        /\ join(ch, l, r).split_right[x] = ch.split_right[x]
        /\ join(ch, l, r).split_left[x] = NULL <=> ch.split_left[x] = NULL
    BY <1>1, <1>2, <1>4, SMTT(30)
  <2> QED
    BY <1>3, <2>1
<1>5. CASE x = l
  <2>1. PICK j \in 1 .. Len(blocks) :
            /\ blocks[j].addr <= r /\ r + ch.real_size[r] <= BlockEnd(blocks[j])
            /\ ch.split_left[r] = NULL <=> r = blocks[j].addr
            /\ ch.split_right[r] = NULL <=> r + ch.real_size[r] = BlockEnd(blocks[j])
    BY DEF InChunks
  <2>2. /\ i \in Int /\ j \in Int
        /\ blocks[i].addr \in Int /\ BlockEnd(blocks[i]) \in Int
        /\ blocks[j].addr \in Int /\ BlockEnd(blocks[j]) \in Int
        /\ i < j => BlockEnd(blocks[i]) <= blocks[j].addr
        /\ j < i => BlockEnd(blocks[j]) <= blocks[i].addr
    BY DEF PagesApart
  <2>3. l \in Nat /\ r \in Nat /\ ch.real_size[l] \in Nat /\ ch.real_size[r] \in Nat
    BY <1>1
  <2>4. r < r + ch.real_size[r]
    BY <1>1, <2>3
  <2>5. r + ch.real_size[r] <= BlockEnd(blocks[j])
    BY <2>1
  <2>6. r < BlockEnd(blocks[j])
    BY <2>2, <2>3, <2>4, <2>5, SMTT(30)
  <2>7. /\ r <= BlockEnd(blocks[i]) /\ r # BlockEnd(blocks[i])
        /\ r < BlockEnd(blocks[j])
        /\ blocks[i].addr <= l /\ blocks[j].addr <= r
        /\ l < r
    BY <1>1, <1>3, <1>5, <2>1, <2>6
  <2>8. i = j
    <3>1. CASE i < j
      BY <2>2, <2>3, <2>7, <3>1
    <3>2. CASE j < i
      BY <2>2, <2>3, <2>7, <3>2
    <3> QED
      BY <2>2, <3>1, <3>2
  <2>9. /\ join(ch, l, r).real_size[x] = ch.real_size[l] + ch.real_size[r]
        /\ join(ch, l, r).split_right[x] = ch.split_right[r]
        /\ join(ch, l, r).split_left[x] = ch.split_left[l]
        /\ l + (ch.real_size[l] + ch.real_size[r]) = r + ch.real_size[r]
    BY <1>1, <1>2, <1>5, <2>3
  <2> QED
    BY <1>3, <1>5, <2>1, <2>8, <2>9
<1> QED
  BY <1>4, <1>5

(* Joining a free block to its neighbour, which is not in a list then,     *)
(* leaves the heap consistent and the whole free chunks as they are.       *)
LEMMA JoinConsistent ==
    ASSUME NEW T, NEW ch, NEW b, NEW complete, NEW top \in Int, NEW blocks,
           Consistent(ch, b, T, complete, top, blocks), PagesApart(blocks, top),
           NEW l \in T, NEW r \in T, ch.split_right[l] = r,
           NEW B, ListsOver(B, T \ {r}),
           Reindexed(B, b, T \ {r}, l, -1)
    PROVE  Consistent(join(ch, l, r), B, T \ {r}, complete, top, blocks)
<1> USE DEF Consistent, Reindexed
<1> DEFINE J == join(ch, l, r)
<1>1. /\ BlocksOver(J, T \ {r}, top)
      /\ InChunks(J, T \ {r}, blocks)
      /\ IsFiniteSet(T \ {r})
  BY JoinSound, JoinInChunks, FS_RemoveElement
<1>2. /\ l # r
      /\ \A x \in T \ {r} :
             /\ x # l => J.real_size[x] = ch.real_size[x]
             /\ J.split_right[x] =
                    IF x = l THEN ch.split_right[r] ELSE ch.split_right[x]
             /\ J.split_left[x] =
                    IF x = ch.split_right[r] THEN l ELSE ch.split_left[x]
  <2>1. BlocksOver(ch, T, top) /\ l # r
    BY JoinSound
  <2> QED
    BY <2>1, JoinFields
<1> HIDE DEF J
<1>3. /\ NULL \notin T
      /\ ch.split_left[r] = l
      /\ \A x \in T : ch.split_right[x] # NULL =>
             /\ ch.split_right[x] \in T
             /\ ch.split_left[ch.split_right[x]] = x
  BY BlockFacts
<1>4. BinsFit(J, B, T \ {r})
  BY <1>2 DEF BinsFit, BinIs
<1>5. Merged(J, B, T \ {r})
  <2> SUFFICES ASSUME NEW x \in T \ {r}, J.split_right[x] # NULL
               PROVE  B.index[x] = -1 \/ B.index[J.split_right[x]] = -1
    BY DEF Merged
  <2>1. CASE x = l
    BY <2>1
  <2>2. CASE x # l
    <3>1. /\ J.split_right[x] = ch.split_right[x]
          /\ ch.split_right[x] \in T \ {r}
          /\ b.index[x] = -1 \/ b.index[ch.split_right[x]] = -1
      BY <1>2, <1>3, <2>2 DEF Merged
    <3> QED
      BY <2>2, <3>1
  <2> QED
    BY <2>1, <2>2
<1>6. ASSUME NEW i \in Bins
      PROVE  WholeFree(J, B, T \ {r}, i) = WholeFree(ch, b, T, i)
  <2>1. i # -1
    BY NoBinBelow
  <2>2. \A x \in WholeFree(ch, b, T, i) : x # r /\ x # l
    BY <1>3 DEF WholeFree, Whole
  <2>3. \A x \in T \ {r} : x # l => (Whole(J, x) <=> Whole(ch, x))
    BY <1>2, <1>3 DEF Whole
  <2> QED
    BY <2>1, <2>2, <2>3 DEF WholeFree
<1>7. Counted(J, B, T \ {r}, complete)
  BY <1>6 DEF Counted
<1> QED
  BY <1>1, <1>4, <1>5, <1>7 DEF J

(* A free block leaves its list.                                           *)
LEMMA TakeConsistent ==
    ASSUME NEW T, NEW ch, NEW b, NEW complete, NEW top \in Int, NEW blocks,
           Consistent(ch, b, T, complete, top, blocks),
           NEW t \in T, b.index[t] # -1
    PROVE  /\ Consistent(ch, remove_tag(b, t), T,
                         OneLess(ch, t, complete, b.index[t]), top, blocks)
           /\ Reindexed(remove_tag(b, t), b, T, t, -1)
<1> DEFINE B == remove_tag(b, t)
<1>1. /\ IsFiniteSet(T) /\ BlocksOver(ch, T, top) /\ InChunks(ch, T, blocks)
      /\ ListsOver(b, T) /\ BinsFit(ch, b, T) /\ Merged(ch, b, T)
  BY DEF Consistent
<1>2. ListsOver(B, T) /\ B.index = [b.index EXCEPT ![t] = -1]
  BY <1>1, RemoveTagSound
<1>3. b.index \in [T -> Bins \cup {-1}] /\ -1 \notin Bins
  BY <1>1, ListFacts, NoBinBelow
<1> HIDE DEF B
<1>4. \A x \in T : B.index[x] = IF x = t THEN -1 ELSE b.index[x]
  BY <1>2, <1>3
<1>5. BinsFit(ch, B, T)
  BY <1>1, <1>4 DEF BinsFit, BinIs
<1>6. \A x \in T : ch.split_right[x] # NULL => ch.split_right[x] \in T
  BY <1>1, BlockFacts
<1>7. Merged(ch, B, T)
  BY <1>1, <1>4, <1>6 DEF Merged
<1>8. Counted(ch, B, T, OneLess(ch, t, complete, b.index[t]))
  <2>1. /\ complete \in [Bins -> Int] /\ b.index[t] \in Bins
        /\ \A i \in Bins : /\ complete[i] = Cardinality(WholeFree(ch, b, T, i))
                           /\ complete[i] <= MAXCOMPLETE
    BY <1>3 DEF Consistent, Counted
  <2>2. OneLess(ch, t, complete, b.index[t]) \in [Bins -> Int]
    BY <2>1 DEF OneLess
  <2> SUFFICES ASSUME NEW i \in Bins
               PROVE  /\ OneLess(ch, t, complete, b.index[t])[i] =
                             Cardinality(WholeFree(ch, B, T, i))
                      /\ OneLess(ch, t, complete, b.index[t])[i] <= MAXCOMPLETE
    BY <2>2 DEF Counted
  <2>3. WholeFree(ch, B, T, i) = WholeFree(ch, b, T, i) \ {t}
    BY <1>3, <1>4 DEF WholeFree
  <2>4. CASE t \in WholeFree(ch, b, T, i)
    <3>1. i = b.index[t] /\ Whole(ch, t)
      BY <2>4 DEF WholeFree
    <3>2. OneLess(ch, t, complete, b.index[t])[i] = complete[i] - 1
      BY <2>1, <3>1 DEF OneLess
    <3>3. IsFiniteSet(WholeFree(ch, b, T, i))
      BY <1>1, FS_Subset DEF WholeFree
    <3>4. Cardinality(WholeFree(ch, B, T, i)) = complete[i] - 1
      BY <2>1, <2>3, <2>4, <3>3, FS_RemoveElement
    <3> QED
      BY <2>1, <3>2, <3>4, HeapAssumption
  <2>5. CASE t \notin WholeFree(ch, b, T, i)
    <3>1. ~(i = b.index[t] /\ Whole(ch, t))
      BY <2>5 DEF WholeFree
    <3>2. OneLess(ch, t, complete, b.index[t])[i] = complete[i]
      BY <2>1, <3>1 DEF OneLess
    <3>3. WholeFree(ch, B, T, i) = WholeFree(ch, b, T, i)
      BY <2>3, <2>5
    <3> QED
      BY <2>1, <3>2, <3>3
  <2> QED
    BY <2>4, <2>5
<1> QED
  BY <1>1, <1>2, <1>4, <1>5, <1>7, <1>8 DEF Consistent, Reindexed, B

(* A block none of whose neighbours is free goes to the list of its size.  *)
LEMMA InsertConsistent ==
    ASSUME NEW T, NEW ch, NEW b, NEW complete, NEW top \in Int, NEW blocks,
           Consistent(ch, b, T, complete, top, blocks),
           NEW t \in T, b.index[t] = -1,
           ch.split_left[t] # NULL => b.index[ch.split_left[t]] = -1,
           ch.split_right[t] # NULL => b.index[ch.split_right[t]] = -1,
           NEW i \in Bins, BinIs(ch, t, i),
           Whole(ch, t) => complete[i] # MAXCOMPLETE
    PROVE  /\ Consistent(ch, insert_tag(b, t, i), T, OneMore(ch, t, complete, i),
                         top, blocks)
           /\ Reindexed(insert_tag(b, t, i), b, T, t, i)
<1> DEFINE B == insert_tag(b, t, i)
<1>1. /\ IsFiniteSet(T) /\ BlocksOver(ch, T, top) /\ InChunks(ch, T, blocks)
      /\ ListsOver(b, T) /\ BinsFit(ch, b, T) /\ Merged(ch, b, T)
  BY DEF Consistent
<1>2. ListsOver(B, T) /\ B.index = [b.index EXCEPT ![t] = i]
  BY <1>1, InsertTagSound
<1>3. b.index \in [T -> Bins \cup {-1}] /\ -1 \notin Bins
  BY <1>1, ListFacts, NoBinBelow
<1> HIDE DEF B
<1>4. \A x \in T : B.index[x] = IF x = t THEN i ELSE b.index[x]
  BY <1>2, <1>3
<1>5. BinsFit(ch, B, T)
  BY <1>1, <1>4 DEF BinsFit, BinIs
<1>6. \A x \in T : ch.split_right[x] # NULL =>
          /\ ch.split_right[x] \in T /\ ch.split_left[ch.split_right[x]] = x
          /\ ch.split_right[x] # x
  <2>1. /\ T \subseteq Nat /\ HDR > 0 /\ HDR \in Nat /\ ch.real_size \in [T -> Nat]
        /\ \A x \in T : /\ HDR <= ch.real_size[x]
                        /\ ch.split_right[x] # NULL =>
                               /\ ch.split_right[x] \in T
                               /\ ch.split_left[ch.split_right[x]] = x
                               /\ ch.split_right[x] = x + ch.real_size[x]
    BY <1>1, BlockFacts, HeapAssumption
  <2>2. \A x \in T : x + ch.real_size[x] # x
    <3> TAKE x \in T
    <3>1. x \in Nat /\ ch.real_size[x] \in Nat /\ HDR <= ch.real_size[x]
      BY <2>1
    <3> QED
      BY <2>1, <3>1
  <2> QED
    BY <2>1, <2>2
<1>7. NULL \notin T
  BY <1>1, BlockFacts
<1>8. ASSUME NEW x \in T, ch.split_right[x] # NULL
      PROVE  B.index[x] = -1 \/ B.index[ch.split_right[x]] = -1
  <2>1. CASE x = t
    BY <1>4, <1>6, <1>8, <2>1
  <2>2. CASE ch.split_right[x] = t
    BY <1>4, <1>6, <1>7, <1>8, <2>2
  <2>3. CASE x # t /\ ch.split_right[x] # t
    BY <1>1, <1>4, <1>6, <1>8, <2>3 DEF Merged
  <2> QED
    BY <2>1, <2>2, <2>3
<1>9. Counted(ch, B, T, OneMore(ch, t, complete, i))
  <2>1. /\ complete \in [Bins -> Int]
        /\ \A j \in Bins : /\ complete[j] = Cardinality(WholeFree(ch, b, T, j))
                           /\ complete[j] <= MAXCOMPLETE
    BY DEF Consistent, Counted
  <2>2. OneMore(ch, t, complete, i) \in [Bins -> Int]
    BY <2>1 DEF OneMore
  <2> SUFFICES ASSUME NEW j \in Bins
               PROVE  /\ OneMore(ch, t, complete, i)[j] =
                             Cardinality(WholeFree(ch, B, T, j))
                      /\ OneMore(ch, t, complete, i)[j] <= MAXCOMPLETE
    BY <2>2 DEF Counted
  <2>3. CASE j = i /\ Whole(ch, t)
    <3>1. WholeFree(ch, B, T, j) = WholeFree(ch, b, T, j) \cup {t}
      BY <1>4, <2>3 DEF WholeFree
    <3>2. t \notin WholeFree(ch, b, T, j)
      BY <1>3 DEF WholeFree
    <3>3. OneMore(ch, t, complete, i)[j] = complete[j] + 1
      BY <2>1, <2>3 DEF OneMore
    <3>4. IsFiniteSet(WholeFree(ch, b, T, j))
      BY <1>1, FS_Subset DEF WholeFree
    <3>5. Cardinality(WholeFree(ch, B, T, j)) = complete[j] + 1
      BY <2>1, <3>1, <3>2, <3>4, FS_AddElement
    <3> QED
      BY <2>1, <2>3, <3>3, <3>5, HeapAssumption
  <2>4. CASE ~(j = i /\ Whole(ch, t))
    <3>1. WholeFree(ch, B, T, j) = WholeFree(ch, b, T, j)
      BY <1>3, <1>4, <2>4 DEF WholeFree
    <3>2. OneMore(ch, t, complete, i)[j] = complete[j]
      BY <2>1, <2>4 DEF OneMore
    <3> QED
      BY <2>1, <3>1, <3>2
  <2> QED
    BY <2>3, <2>4
<1> QED
  BY <1>1, <1>2, <1>4, <1>5, <1>8, <1>9 DEF Consistent, Reindexed, Merged, B

(* A chunk that is one block goes back to page_free.                       *)
LEMMA DropConsistent ==
    ASSUME NEW T, NEW ch, NEW b, NEW complete, NEW top \in Int, NEW blocks,
           Consistent(ch, b, T, complete, top, blocks),
           NEW t \in T, b.index[t] = -1, Whole(ch, t)
    PROVE  /\ Consistent(forget_chunk(ch, t), forget_tag(b, t), T \ {t}, complete,
                         top, blocks)
           /\ Reindexed(forget_tag(b, t), b, T \ {t}, t, -1)
<1> DEFINE B == forget_tag(b, t)
           F == forget_chunk(ch, t)
           U == T \ {t}
<1>1. /\ IsFiniteSet(T) /\ BlocksOver(ch, T, top) /\ InChunks(ch, T, blocks)
      /\ ListsOver(b, T) /\ BinsFit(ch, b, T) /\ Merged(ch, b, T)
  BY DEF Consistent
<1>2. ListsOver(B, U) /\ B.index = Forget(b.index, t)
  BY <1>1, ForgetTagSound
<1>3. /\ b.index \in [T -> Bins \cup {-1}] /\ -1 \notin Bins
      /\ ch.real_size \in [T -> Nat]
      /\ ch.split_left \in [T -> Link(T)]
      /\ ch.split_right \in [T -> Link(T)]
  BY <1>1, ListFacts, NoBinBelow, BlockFacts
<1>4. /\ F.real_size = Forget(ch.real_size, t)
      /\ F.split_left = Forget(ch.split_left, t)
      /\ F.split_right = Forget(ch.split_right, t)
      /\ F = [real_size |-> F.real_size, split_left |-> F.split_left,
              split_right |-> F.split_right]
  BY DEF forget_chunk
<1> HIDE DEF B, F
<1>5. \A x \in U : /\ B.index[x] = b.index[x]
                   /\ F.real_size[x] = ch.real_size[x]
                   /\ F.split_left[x] = ch.split_left[x]
                   /\ F.split_right[x] = ch.split_right[x]
  BY <1>2, <1>3, <1>4 DEF Forget
<1>6. \A x \in U : /\ ch.split_left[x] \in Link(U)
                   /\ ch.split_right[x] \in Link(U)
  BY <1>1, <1>3, BlockFacts DEF Link, Whole
<1>7. BlocksOver(F, U, top)
  <2>1. /\ F.real_size \in [U -> Nat]
        /\ F.split_left \in [U -> Link(U)]
        /\ F.split_right \in [U -> Link(U)]
    <3>1. /\ F.real_size = [x \in U |-> ch.real_size[x]]
          /\ F.split_left = [x \in U |-> ch.split_left[x]]
          /\ F.split_right = [x \in U |-> ch.split_right[x]]
      BY <1>3, <1>4 DEF Forget
    <3> HIDE DEF U
    <3>2. \A x \in U : ch.real_size[x] \in Nat
      BY <1>3 DEF U
    <3> QED
      BY <1>6, <3>1, <3>2
  <2>2. F \in ChainType(U)
    BY <1>4, <2>1 DEF ChainType
  <2>3. NeighboursLinked(F)
    <3> SUFFICES ASSUME NEW x \in U
                 PROVE  /\ F.split_right[x] # NULL =>
                               /\ F.split_right[x] = x + F.real_size[x]
                               /\ F.split_left[F.split_right[x]] = x
                        /\ F.split_left[x] # NULL => F.split_right[F.split_left[x]] = x
      BY <2>1 DEF NeighboursLinked
    <3>1. /\ ch.split_right[x] # NULL =>
                 /\ ch.split_right[x] = x + ch.real_size[x]
                 /\ ch.split_left[ch.split_right[x]] = x
                 /\ ch.split_right[x] \in U
          /\ ch.split_left[x] # NULL => /\ ch.split_right[ch.split_left[x]] = x
                                        /\ ch.split_left[x] \in U
      BY <1>1, <1>6, BlockFacts DEF Link
    <3> QED
      BY <1>5, <3>1
  <2>4. /\ U \subseteq Nat \ {NULL}
        /\ \A x \in U : HDR <= F.real_size[x] /\ x + F.real_size[x] <= top
        /\ \A x, y \in U : x < y => x + F.real_size[x] <= y
    BY <1>1, <1>5, BlockFacts
  <2> QED
    BY <2>2, <2>3, <2>4 DEF BlocksOver
<1>8. InChunks(F, U, blocks)
  BY <1>1, <1>5 DEF InChunks
<1>9. BinsFit(F, B, U)
  BY <1>1, <1>5 DEF BinsFit, BinIs
<1>10. Merged(F, B, U)
  BY <1>1, <1>5, <1>6 DEF Merged, Link
<1>11. IsFiniteSet(U)
  BY <1>1, FS_RemoveElement
<1>12. ASSUME NEW i \in Bins
       PROVE  WholeFree(F, B, U, i) = WholeFree(ch, b, T, i)
  BY <1>3, <1>5 DEF WholeFree, Whole
<1>13. Counted(F, B, U, complete)
  BY <1>12 DEF Consistent, Counted
<1> QED
  BY <1>2, <1>5, <1>7, <1>8, <1>9, <1>10, <1>11, <1>13
  DEF Consistent, Reindexed, B, F

(* allocate_new_tag: the new chunk lies above all others.                  *)
ChunkAdded(blocks, more, t, bytes, top, newtop) ==
    /\ t = top /\ HDR <= bytes /\ top + bytes <= newtop
    /\ Len(more) = Len(blocks) + 1
    /\ \A i \in 1 .. Len(blocks) : more[i] = blocks[i]
    /\ more[Len(blocks) + 1].addr = t
    /\ BlockEnd(more[Len(blocks) + 1]) = t + bytes

(* The new chunk is one block that no list holds.                          *)
LEMMA NewConsistent ==
    ASSUME NEW T, NEW ch, NEW b, NEW complete, NEW top \in Int, NEW blocks,
           Consistent(ch, b, T, complete, top, blocks), PagesApart(blocks, top),
           NEW t \in Nat \ {NULL}, NEW bytes \in Nat,
           NEW newtop \in Int, NEW more,
           ChunkAdded(blocks, more, t, bytes, top, newtop)
    PROVE  /\ t \notin T
           /\ Consistent(new_chunk(ch, t, bytes), unlisted(b, t), T \cup {t},
                         complete, newtop, more)
           /\ Reindexed(unlisted(b, t), b, T \cup {t}, t, -1)
           /\ Whole(new_chunk(ch, t, bytes), t)
           /\ Resized(new_chunk(ch, t, bytes), ch, T \cup {t}, t, bytes)
<1> DEFINE B == unlisted(b, t)
           F == new_chunk(ch, t, bytes)
           U == T \cup {t}
<1> USE DEF ChunkAdded
<1>1. /\ IsFiniteSet(T) /\ BlocksOver(ch, T, top) /\ InChunks(ch, T, blocks)
      /\ ListsOver(b, T) /\ BinsFit(ch, b, T) /\ Merged(ch, b, T)
  BY DEF Consistent
<1>2. /\ b.index \in [T -> Bins \cup {-1}] /\ -1 \notin Bins
      /\ ch.real_size \in [T -> Nat]
      /\ ch.split_left \in [T -> Link(T)]
      /\ ch.split_right \in [T -> Link(T)]
      /\ T \subseteq Nat /\ NULL \notin T
      /\ HDR \in Nat /\ HDR > 0
      /\ \A x \in T : /\ HDR <= ch.real_size[x]
                      /\ x + ch.real_size[x] <= top
  BY <1>1, ListFacts, NoBinBelow, BlockFacts, HeapAssumption, SMTT(30)
<1>3. \A x \in T : x < t
  <2> TAKE x \in T
  <2>1. /\ x \in Nat /\ ch.real_size[x] \in Nat /\ HDR <= ch.real_size[x]
        /\ x + ch.real_size[x] <= top
    BY <1>2
  <2> QED
    BY <1>2, <2>1
<1>4. t \notin T
  BY <1>3
<1>5. ListsOver(B, U) /\ B.index = Put(b.index, t, -1)
  BY <1>1, <1>4, UnlistedSound
<1>6. /\ F.real_size = Put(ch.real_size, t, bytes)
      /\ F.split_left = Put(ch.split_left, t, NULL)
      /\ F.split_right = Put(ch.split_right, t, NULL)
      /\ F = [real_size |-> F.real_size, split_left |-> F.split_left,
              split_right |-> F.split_right]
  BY DEF new_chunk
<1> HIDE DEF B, F
<1>7. /\ B.index[t] = -1 /\ F.real_size[t] = bytes
      /\ F.split_left[t] = NULL /\ F.split_right[t] = NULL
      /\ \A x \in T : /\ B.index[x] = b.index[x]
                      /\ F.real_size[x] = ch.real_size[x]
                      /\ F.split_left[x] = ch.split_left[x]
                      /\ F.split_right[x] = ch.split_right[x]
  BY <1>2, <1>4, <1>5, <1>6 DEF Put
<1>8. /\ F.real_size \in [U -> Nat]
      /\ F.split_left \in [U -> Link(U)]
      /\ F.split_right \in [U -> Link(U)]
  BY <1>2, <1>6 DEF Put, Link
<1>9. BlocksOver(F, U, newtop)
  <2>1. F \in ChainType(U)
    BY <1>6, <1>8 DEF ChainType
  <2>2. NeighboursLinked(F)
    <3> SUFFICES ASSUME NEW x \in U
                 PROVE  /\ F.split_right[x] # NULL =>
                               /\ F.split_right[x] = x + F.real_size[x]
                               /\ F.split_left[F.split_right[x]] = x
                        /\ F.split_left[x] # NULL => F.split_right[F.split_left[x]] = x
      BY <1>8 DEF NeighboursLinked
    <3>1. CASE x = t
      BY <1>7, <3>1
    <3>2. CASE x \in T
      <4>1. /\ ch.split_right[x] # NULL =>
                   /\ ch.split_right[x] = x + ch.real_size[x]
                   /\ ch.split_left[ch.split_right[x]] = x
                   /\ ch.split_right[x] \in T
            /\ ch.split_left[x] # NULL => /\ ch.split_right[ch.split_left[x]] = x
                                          /\ ch.split_left[x] \in T
        BY <1>1, <3>2, BlockFacts
      <4> QED
        BY <1>7, <3>2, <4>1
    <3> QED
      BY <3>1, <3>2
  <2>3. ASSUME NEW x \in U
        PROVE  HDR <= F.real_size[x] /\ x + F.real_size[x] <= newtop
    <3>1. CASE x = t
      BY <1>7, <3>1
    <3>2. CASE x \in T
      <4>1. /\ HDR <= ch.real_size[x] /\ x + ch.real_size[x] <= top
            /\ x \in Nat /\ ch.real_size[x] \in Nat /\ F.real_size[x] = ch.real_size[x]
        BY <1>2, <1>7, <3>2
      <4> QED
        BY <4>1
    <3> QED
      BY <3>1, <3>2
  <2>4. ASSUME NEW x \in U, NEW y \in U, x < y
        PROVE  x + F.real_size[x] <= y
    <3>1. CASE x \in T /\ y \in T
      BY <1>1, <1>7, <2>4, <3>1, BlockFacts
    <3>2. CASE x \in T /\ y = t
      BY <1>2, <1>7, <3>2
    <3>3. CASE x = t
      <4>1. y # t /\ y \in T /\ y < t /\ y \in Nat
        BY <1>2, <1>3, <2>4, <3>3
      <4> QED
        BY <2>4, <3>3, <4>1
    <3> QED
      BY <3>1, <3>2, <3>3
  <2>5. U \subseteq Nat \ {NULL}
    BY <1>2
  <2> QED
    BY <2>1, <2>2, <2>3, <2>4, <2>5 DEF BlocksOver
<1>10. InChunks(F, U, more)
  <2>1. Len(blocks) \in Nat
    BY DEF PagesApart
  <2> SUFFICES ASSUME NEW x \in U
               PROVE  \E i \in 1 .. Len(more) :
                          /\ more[i].addr <= x
                          /\ x + F.real_size[x] <= BlockEnd(more[i])
                          /\ F.split_left[x] = NULL <=> x = more[i].addr
                          /\ F.split_right[x] = NULL <=>
                                 x + F.real_size[x] = BlockEnd(more[i])
    BY DEF InChunks
  <2>2. CASE x = t
    <3>1. Len(blocks) + 1 \in 1 .. Len(more)
      BY <2>1
    <3>2. t <= t /\ t + bytes <= t + bytes
      OBVIOUS
    <3> QED
      BY <1>7, <2>2, <3>1, <3>2
  <2>3. CASE x \in T
    <3>1. PICK i \in 1 .. Len(blocks) :
              /\ blocks[i].addr <= x /\ x + ch.real_size[x] <= BlockEnd(blocks[i])
              /\ ch.split_left[x] = NULL <=> x = blocks[i].addr
              /\ ch.split_right[x] = NULL <=> x + ch.real_size[x] = BlockEnd(blocks[i])
      BY <1>1, <2>3 DEF InChunks
    <3>2. i \in 1 .. Len(more) /\ more[i] = blocks[i]
      BY <2>1
    <3> QED
      BY <1>7, <2>3, <3>1, <3>2
  <2> QED
    BY <2>2, <2>3
<1>11. BinsFit(F, B, U)
  BY <1>1, <1>7 DEF BinsFit, BinIs
<1>12. Merged(F, B, U)
  <2> SUFFICES ASSUME NEW x \in U, F.split_right[x] # NULL
               PROVE  B.index[x] = -1 \/ B.index[F.split_right[x]] = -1
    BY DEF Merged
  <2>1. x \in T /\ ch.split_right[x] # NULL /\ F.split_right[x] = ch.split_right[x]
    BY <1>7
  <2>2. ch.split_right[x] \in T
    BY <1>2, <2>1 DEF Link
  <2> QED
    BY <1>1, <1>7, <2>1, <2>2 DEF Merged
<1>13. IsFiniteSet(U)
  BY <1>1, FS_AddElement
<1>14. ASSUME NEW i \in Bins
       PROVE  WholeFree(F, B, U, i) = WholeFree(ch, b, T, i)
  <2>1. i # -1 /\ \A x \in T : Whole(F, x) <=> Whole(ch, x)
    BY <1>2, <1>7 DEF Whole
  <2> QED
    BY <1>4, <1>7, <2>1 DEF WholeFree
<1>15. Whole(F, t)
  BY <1>7 DEF Whole
<1>16. Counted(F, B, U, complete)
  BY <1>14 DEF Consistent, Counted
<1>17. \A x \in U : /\ B.index[x] = IF x = t THEN -1 ELSE b.index[x]
                    /\ F.real_size[x] = IF x = t THEN bytes ELSE ch.real_size[x]
  BY <1>4, <1>7
<1> QED
  BY <1>4, <1>5, <1>9, <1>10, <1>11, <1>12, <1>13, <1>15, <1>16, <1>17
  DEF Consistent, Reindexed, Resized, B, F

(* The fields of the tags after t was cut at n bytes.                      *)
LEMMA SplitFields ==
    ASSUME NEW T, NEW ch, NEW top \in Int, BlocksOver(ch, T, top),
           NEW t \in T, NEW n \in Nat, RestAt(t, n) \notin T,
           NEW x \in T \cup {RestAt(t, n)}
    PROVE  /\ split_tag(ch, t, n).real_size[x] =
                  IF x = RestAt(t, n) THEN ch.real_size[t] - HDR - n
                  ELSE IF x = t THEN HDR + n ELSE ch.real_size[x]
           /\ split_tag(ch, t, n).split_left[x] =
                  IF x = RestAt(t, n) THEN t
                  ELSE IF x = ch.split_right[t] THEN RestAt(t, n)
                  ELSE ch.split_left[x]
           /\ split_tag(ch, t, n).split_right[x] =
                  IF x = RestAt(t, n) THEN ch.split_right[t]
                  ELSE IF x = t THEN RestAt(t, n) ELSE ch.split_right[x]
<1>1. /\ ch.real_size \in [T -> Nat]
      /\ ch.split_left \in [T -> Link(T)]
      /\ ch.split_right \in [T -> Link(T)]
  BY BlockFacts
<1> QED
  BY <1>1 DEF split_tag, Put, Store, Kept, Rest, RestAt

(* A block in use is cut in two, none of which is in a list yet.           *)
LEMMA CutConsistent ==
    ASSUME NEW T, NEW ch, NEW b, NEW complete, NEW top \in Int, NEW blocks,
           Consistent(ch, b, T, complete, top, blocks), PagesApart(blocks, top),
           NEW t \in T, b.index[t] = -1,
           NEW n \in Nat, RoomFor(ch, t, n)
    PROVE  /\ RestAt(t, n) \in Nat \ {NULL} /\ RestAt(t, n) \notin T
           /\ Consistent(split_tag(ch, t, n), unlisted(b, RestAt(t, n)),
                         T \cup {RestAt(t, n)}, complete, top, blocks)
           /\ Reindexed(unlisted(b, RestAt(t, n)), b, T \cup {RestAt(t, n)},
                        RestAt(t, n), -1)
<1> DEFINE new == RestAt(t, n)
           B == unlisted(b, new)
           F == split_tag(ch, t, n)
           U == T \cup {new}
<1>1. /\ IsFiniteSet(T) /\ BlocksOver(ch, T, top) /\ InChunks(ch, T, blocks)
      /\ ListsOver(b, T) /\ BinsFit(ch, b, T) /\ Merged(ch, b, T)
  BY DEF Consistent
<1>2. new \in Nat \ {NULL} /\ new \notin T /\ BlocksOver(F, U, top)
  BY <1>1, SplitTagSound DEF RestAt, RoomFor
<1>3. /\ b.index \in [T -> Bins \cup {-1}] /\ -1 \notin Bins
      /\ ch.real_size \in [T -> Nat]
      /\ ch.split_left \in [T -> Link(T)]
      /\ ch.split_right \in [T -> Link(T)]
      /\ T \subseteq Nat /\ NULL \notin T
      /\ HDR \in Nat /\ HDR > 0
      /\ \A x \in T :
             /\ HDR <= ch.real_size[x]
             /\ ch.split_right[x] # NULL => /\ ch.split_right[x] = x + ch.real_size[x]
                                            /\ ch.split_left[ch.split_right[x]] = x
  BY <1>1, ListFacts, NoBinBelow, BlockFacts, HeapAssumption
<1>4. ListsOver(B, U) /\ B.index = Put(b.index, new, -1)
  BY <1>1, <1>2, UnlistedSound
<1>5. \A x \in U :
          /\ F.real_size[x] = IF x = new THEN ch.real_size[t] - HDR - n
                              ELSE IF x = t THEN HDR + n ELSE ch.real_size[x]
          /\ F.split_left[x] = IF x = new THEN t
                               ELSE IF x = ch.split_right[t] THEN new
                               ELSE ch.split_left[x]
          /\ F.split_right[x] = IF x = new THEN ch.split_right[t]
                                ELSE IF x = t THEN new ELSE ch.split_right[x]
  BY <1>1, <1>2, SplitFields
<1> HIDE DEF B, F
<1>6. B.index[new] = -1 /\ \A x \in T : B.index[x] = b.index[x]
  BY <1>2, <1>3, <1>4 DEF Put
<1>7. InChunks(F, U, blocks)
  <2> SUFFICES ASSUME NEW x \in U
               PROVE  \E i \in 1 .. Len(blocks) :
                          /\ blocks[i].addr <= x
                          /\ x + F.real_size[x] <= BlockEnd(blocks[i])
                          /\ F.split_left[x] = NULL <=> x = blocks[i].addr
                          /\ F.split_right[x] = NULL <=>
                                 x + F.real_size[x] = BlockEnd(blocks[i])
    BY DEF InChunks
  <2>1. CASE x \in T /\ x # t
    <3>1. PICK i \in 1 .. Len(blocks) :
              /\ blocks[i].addr <= x /\ x + ch.real_size[x] <= BlockEnd(blocks[i])
              /\ ch.split_left[x] = NULL <=> x = blocks[i].addr
              /\ ch.split_right[x] = NULL <=> x + ch.real_size[x] = BlockEnd(blocks[i])
      BY <1>1, <2>1 DEF InChunks
    <3>2. /\ F.real_size[x] = ch.real_size[x]
          /\ F.split_right[x] = ch.split_right[x]
          /\ F.split_left[x] = IF x = ch.split_right[t] THEN new
                               ELSE ch.split_left[x]
      BY <1>2, <1>5, <2>1
    <3>3. x = ch.split_right[t] => ch.split_left[x] # NULL
      BY <1>3, <2>1
    <3>4. F.split_left[x] = NULL <=> ch.split_left[x] = NULL
      BY <1>2, <3>2, <3>3
    <3> QED
      BY <3>1, <3>2, <3>4
  <2>2. CASE x = t \/ x = new
    <3>1. PICK i \in 1 .. Len(blocks) :
              /\ blocks[i].addr <= t /\ t + ch.real_size[t] <= BlockEnd(blocks[i])
              /\ ch.split_left[t] = NULL <=> t = blocks[i].addr
              /\ ch.split_right[t] = NULL <=> t + ch.real_size[t] = BlockEnd(blocks[i])
      BY <1>1 DEF InChunks
    <3>2. /\ t \in Nat /\ new \in Nat /\ t < new /\ ch.real_size[t] \in Nat
          /\ new < t + ch.real_size[t]
          /\ t + (HDR + n) = new
          /\ new + (ch.real_size[t] - HDR - n) = t + ch.real_size[t]
      <4>1. /\ t \in Nat /\ n \in Nat /\ HDR \in Nat /\ HDR > 0
            /\ new = t + HDR + n
        BY <1>3 DEF RestAt, RoomFor
      <4>2. PICK w \in Nat : w = ch.real_size[t] /\ w >= n + 2 * HDR
        BY <1>3 DEF RoomFor
      <4>3. w >= n + 2 * HDR
        BY <4>2
      <4> HIDE DEF new
      <4>4. new \in Nat /\ t < new /\ t + (HDR + n) = new
        BY <4>1
      <4>5. new < t + w /\ new + (w - HDR - n) = t + w
        BY <4>1, <4>3
      <4> QED
        BY <4>1, <4>2, <4>4, <4>5
    <3>3. ch.split_right[t] # t
      <4>1. ch.split_right[t] # NULL => ch.split_right[t] = t + ch.real_size[t]
        BY <1>3
      <4>2. t + ch.real_size[t] # t /\ t # NULL
        BY <1>3, <3>2, SMTT(30)
      <4> QED
        BY <4>1, <4>2
    <3>4. blocks[i].addr \in Int /\ BlockEnd(blocks[i]) \in Int
      BY DEF PagesApart
    <3>5. CASE x = t
      <4>1. /\ F.real_size[x] = HDR + n /\ F.split_right[x] = new
            /\ F.split_left[x] = ch.split_left[x]
        BY <1>2, <1>3, <1>5, <3>2, <3>3, <3>5
      <4>2. /\ x + F.real_size[x] = new
            /\ new < BlockEnd(blocks[i])
        BY <3>1, <3>2, <3>4, <3>5, <4>1, SMTT(30)
      <4> QED
        BY <1>2, <3>1, <3>2, <3>4, <3>5, <4>1, <4>2
    <3>6. CASE x = new
      <4>1. /\ x + F.real_size[x] = t + ch.real_size[t]
            /\ F.split_left[x] = t /\ F.split_right[x] = ch.split_right[t]
        BY <1>5, <3>2, <3>6
      <4>2. blocks[i].addr < x
        BY <3>1, <3>2, <3>4, <3>6
      <4>3. F.split_left[x] # NULL /\ x # blocks[i].addr
        BY <1>3, <3>2, <3>4, <3>6, <4>1, <4>2, SMTT(30)
      <4>4. blocks[i].addr <= x
        BY <3>1, <3>2, <3>4, <3>6
      <4> QED
        BY <3>1, <4>1, <4>3, <4>4
    <3> QED
      BY <2>2, <3>5, <3>6
  <2> QED
    BY <2>1, <2>2
<1>8. BinsFit(F, B, U)
  BY <1>1, <1>2, <1>5, <1>6 DEF BinsFit, BinIs
<1>9. Merged(F, B, U)
  <2> SUFFICES ASSUME NEW x \in U, F.split_right[x] # NULL
               PROVE  B.index[x] = -1 \/ B.index[F.split_right[x]] = -1
    BY DEF Merged
  <2>1. CASE x = t \/ x = new
    BY <1>6, <2>1
  <2>2. CASE x \in T /\ x # t
    <3>1. F.split_right[x] = ch.split_right[x]
      BY <1>2, <1>5, <2>2
    <3>2. ch.split_right[x] \in T
      BY <1>3, <2>2, <3>1 DEF Link
    <3> QED
      BY <1>1, <1>6, <2>2, <3>1, <3>2 DEF Merged
  <2> QED
    BY <2>1, <2>2
<1>10. IsFiniteSet(U)
  BY <1>1, FS_AddElement
<1>11. ASSUME NEW i \in Bins
       PROVE  WholeFree(F, B, U, i) = WholeFree(ch, b, T, i)
  <2>1. i # -1
    BY <1>3
  <2>2. \A x \in T : x # t => (Whole(F, x) <=> Whole(ch, x))
    BY <1>2, <1>3, <1>5 DEF Whole
  <2> QED
    BY <1>6, <2>1, <2>2 DEF WholeFree
<1>12. Counted(F, B, U, complete)
  BY <1>11 DEF Consistent, Counted
<1>13. Reindexed(B, b, U, new, -1)
  BY <1>2, <1>6 DEF Reindexed
<1> QED
  BY <1>2, <1>4, <1>7, <1>8, <1>9, <1>10, <1>12, <1>13 DEF Consistent, B, F

(* A block in use is cut in two and the rest goes to a bin.                *)
LEMMA SplitConsistent ==
    ASSUME NEW T, NEW ch, NEW b, NEW complete, NEW top \in Int, NEW blocks,
           Consistent(ch, b, T, complete, top, blocks), PagesApart(blocks, top),
           NEW t \in T, b.index[t] = -1,
           ch.split_right[t] # NULL => b.index[ch.split_right[t]] = -1,
           NEW n \in Nat, RoomFor(ch, t, n),
           NEW i \in Bins, BinIs(split_tag(ch, t, n), RestAt(t, n), i)
    PROVE  /\ RestAt(t, n) \in Nat \ {NULL} /\ RestAt(t, n) \notin T
           /\ Consistent(split_tag(ch, t, n),
                         insert_tag(unlisted(b, RestAt(t, n)), RestAt(t, n), i),
                         T \cup {RestAt(t, n)}, complete, top, blocks)
           /\ Reindexed(insert_tag(unlisted(b, RestAt(t, n)), RestAt(t, n), i), b,
                        T \cup {RestAt(t, n)}, RestAt(t, n), i)
<1> DEFINE new == RestAt(t, n)
           B == unlisted(b, new)
           F == split_tag(ch, t, n)
           U == T \cup {new}
<1>1. /\ new \in Nat \ {NULL} /\ new \notin T
      /\ Consistent(F, B, U, complete, top, blocks)
      /\ Reindexed(B, b, U, new, -1)
  <2>1. new \in Nat \ {NULL} /\ new \notin T
    BY CutConsistent
  <2>2. Consistent(F, B, U, complete, top, blocks)
    BY CutConsistent
  <2>3. Reindexed(B, b, U, new, -1)
    BY CutConsistent
  <2> QED
    BY <2>1, <2>2, <2>3
<1>2. /\ BlocksOver(ch, T, top) /\ ListsOver(b, T)
  BY DEF Consistent
<1>3. /\ F.split_left[new] = t
      /\ F.split_right[new] = ch.split_right[t]
  BY <1>1, <1>2, SplitFields
<1>4. /\ ch.split_right[t] # NULL => ch.split_right[t] \in T
      /\ NULL \notin T
  BY <1>2, BlockFacts
<1>5. BinIs(F, new, i)
  OBVIOUS
<1> HIDE DEF B, F, new, U
<1>6. new \in U /\ B.index[new] = -1
  BY <1>1 DEF U, Reindexed
<1>7. /\ F.split_left[new] # NULL => B.index[F.split_left[new]] = -1
      /\ F.split_right[new] # NULL => B.index[F.split_right[new]] = -1
  BY <1>1, <1>3, <1>4 DEF U, Reindexed
<1>8. ~Whole(F, new)
  BY <1>3, <1>4 DEF Whole
<1>9. Consistent(F, insert_tag(B, new, i), U, OneMore(F, new, complete, i), top, blocks)
  BY <1>1, <1>5, <1>6, <1>7, <1>8, InsertConsistent
<1>10. Reindexed(insert_tag(B, new, i), B, U, new, i)
  BY <1>1, <1>5, <1>6, <1>7, <1>8, InsertConsistent
<1>11. OneMore(F, new, complete, i) = complete
  BY <1>8 DEF OneMore
<1>12. Reindexed(insert_tag(B, new, i), b, U, new, i)
  BY <1>1, <1>10 DEF Reindexed
<1> QED
  BY <1>1, <1>9, <1>11, <1>12 DEF B, F, new, U
-----------------------------------------------------------------------------
(* A set of numbers that is not empty has a least one.                     *)
LEMMA LeastNat ==
    ASSUME NEW S, S \subseteq Nat, S # {}
    PROVE  \E x \in S : \A y \in S : x <= y
<1>1. \E x \in S : \A y \in S : ~(<<y, x>> \in OpToRel(<, Nat))
  BY NatLessThanWellFounded, WFMin, Zenon
<1>2. PICK x \in S : \A y \in S : ~(<<y, x>> \in OpToRel(<, Nat))
  BY <1>1
<1>3. \A y \in S : <<y, x>> \in OpToRel(<, Nat) <=> y < x
  BY DEF OpToRel
<1>4. \A y \in S : ~(y < x)
  BY <1>2, <1>3
<1> QED
  BY <1>4

(* 2 ^ n counts the subsets of a set of n elements.                        *)
LEMMA PowerOfTwo == \A n \in Nat : 2 ^ n \in Nat
<1> TAKE n \in Nat
<1>1. IsFiniteSet(1 .. n) /\ Cardinality(1 .. n) = n
  BY FS_Interval
<1>2. IsFiniteSet(SUBSET (1 .. n)) /\ Cardinality(SUBSET (1 .. n)) = 2 ^ n
  BY <1>1, FS_SUBSET
<1> QED
  BY <1>2, FS_CardinalityType

(* The bin of malloc, free and split_tag is one of l_freePages, whatever   *)
(* the size (getexp's loop and the clamps around its calls).               *)
LEMMA BinOfInBins == \A s \in Int : BinOf(s) \in Bins
<1> TAKE s \in Int
<1> DEFINE S == {r \in MINEXP .. MAXEXP : r = MAXEXP \/ 2 ^ r > s}
<1>1. /\ MINEXP \in Nat /\ MAXEXP \in Nat /\ MINEXP < MAXEXP
      /\ \A r \in MINEXP .. MAXEXP : r \in Nat /\ 2 ^ r \in Nat
  BY HeapAssumption, PowerOfTwo
<1>2. \E x \in S : \A y \in S : x <= y
  <2>1. S \subseteq Nat /\ MAXEXP \in S
    BY <1>1
  <2> HIDE DEF S
  <2> QED
    BY <2>1, LeastNat
<1>3. PICK x \in S : \A y \in S : x <= y
  BY <1>2
<1>4. \A r \in MINEXP .. x - 1 : 2 ^ r <= s
  <2> TAKE r \in MINEXP .. x - 1
  <2>1. r \in MINEXP .. MAXEXP /\ r < x /\ r # MAXEXP
    BY <1>1
  <2>2. ~(2 ^ r > s)
    BY <1>1, <1>3, <2>1
  <2> QED
    BY <1>1, <2>1, <2>2
<1>5. /\ StopShift(s) \in MINEXP .. MAXEXP
      /\ StopShift(s) = MAXEXP \/ 2 ^ StopShift(s) > s
      /\ \A r \in MINEXP .. StopShift(s) - 1 : 2 ^ r <= s
  BY <1>3, <1>4 DEF StopShift
<1>6. getexp(s) >= MINEXP => getexp(s) \in Bins
  <2>1. CASE s < 2 ^ MINEXP
    BY <1>1, <2>1 DEF getexp
  <2>2. CASE ~(s < 2 ^ MINEXP)
    BY <1>1, <1>5, <2>2 DEF getexp, Bins
  <2> QED
    BY <2>1, <2>2
<1>7. getexp(s) \in Int
  BY <1>1, <1>5 DEF getexp
<1>8. MINEXP \in Bins
  BY <1>1 DEF Bins
<1> QED
  BY <1>1, <1>6, <1>7, <1>8 DEF BinOf

(* A chunk is of as many pages as page_alloc is asked for at most, and has *)
(* room for the size and its tag (allocate_new_tag).                       *)
LEMMA ChunkHasRoom ==
    ASSUME NEW n \in Sizes
    PROVE  /\ PagesFor(n) \in 1 .. MaxPages
           /\ n + HDR <= Bytes(PagesFor(n))
<1> DEFINE usage == n + HDR
           q == usage \div PAGESIZE
           r == usage % PAGESIZE
           pages == q + (IF r # 0 THEN 1 ELSE 0)
<1>1. /\ n \in Nat /\ HDR \in Nat /\ HDR > 0 /\ PAGESIZE \in Nat /\ PAGESIZE > 0
      /\ l_pageCount \in Nat /\ l_pageCount > 0 /\ MaxPages \in Nat
      /\ PagesFor(n) <= MaxPages
  BY HeapAssumption, PageAssumption
<1>2. /\ usage \in Nat /\ usage > 0
      /\ q \in Int /\ r \in 0 .. PAGESIZE - 1
      /\ usage = PAGESIZE * q + r
  BY <1>1, SMTT(30)
<1>3. q >= 0
  BY <1>1, <1>2, SMTT(30)
<1>4. pages \in Nat /\ pages > 0 /\ usage <= PAGESIZE * pages
  BY <1>1, <1>2, <1>3, SMTT(30)
<1>5. PagesFor(n) = IF pages < l_pageCount THEN l_pageCount ELSE pages
  BY DEF PagesFor
<1> HIDE DEF pages
<1>6. PagesFor(n) \in Nat /\ PagesFor(n) > 0 /\ PagesFor(n) >= pages
  BY <1>1, <1>4, <1>5
<1>7. PAGESIZE * pages <= PAGESIZE * PagesFor(n)
  BY <1>1, <1>4, <1>6, SMTT(30)
<1> QED
  BY <1>1, <1>2, <1>4, <1>6, <1>7 DEF Bytes
-----------------------------------------------------------------------------
(* The caller is between liballoc_lock and liballoc_unlock.                *)
Holds(c) == pc[c] \in {"search", "merge"}

(* One caller at most is.                                                  *)
OneInside ==
    /\ \A c, d \in Callers : Holds(c) /\ Holds(d) => c = d
    /\ \A c \in Callers : Holds(c) => lock = 1

(* The types of what Consistent does not speak of.                         *)
LocalsTyped ==
    /\ lock \in {0, 1}
    /\ size \in [Tags -> Nat]
    /\ live \subseteq Nat
    /\ pc \in [Callers -> {"idle", "search", "merge", "re_malloc", "re_copy"}]
    /\ tag \in [Callers -> Link(Tags)]
    /\ want \in [Callers -> Sizes \cup {0}]
    /\ old \in [Callers -> Nat]
    /\ real_size \in [Callers -> Nat]

(* What malloc's and free's local variable tag says while they work.       *)
TagAtWork ==
    \A c \in Callers :
        /\ pc[c] \in {"idle", "re_malloc"} => tag[c] = NULL
        /\ pc[c] = "search" /\ tag[c] # NULL => bins.index[tag[c]] = BinOf(want[c])
        /\ pc[c] = "merge" => /\ tag[c] \in Tags
                              /\ bins.index[tag[c]] = -1
                              /\ tag[c] + HDR \notin live
        /\ pc[c] = "re_copy" => /\ tag[c] \in Tags
                                /\ tag[c] + HDR \in live
                                /\ size[tag[c]] = want[c]

(* What realloc's arguments and real_size say.                             *)
ReallocAtWork ==
    \A c \in Callers :
        /\ pc[c] \in {"search", "re_malloc", "re_copy"} => want[c] \in Sizes
        /\ pc[c] \in {"idle", "merge"} => old[c] = NULL
        /\ pc[c] \in {"re_malloc", "re_copy"} => old[c] # NULL
        /\ old[c] # NULL => /\ old[c] \in live
                            /\ real_size[c] <= size[old[c] - HDR]
                            /\ real_size[c] <= want[c]

(* No two callers hold the same pointer for realloc's sake.                *)
PointersApart ==
    \A c, d \in Callers :
        /\ c # d /\ old[c] # NULL => old[c] # old[d]
        /\ c # d /\ pc[c] = "re_copy" /\ pc[d] = "re_copy" => tag[c] # tag[d]
        /\ pc[d] = "re_copy" => old[c] # tag[d] + HDR

(* What holds of the heap between any two steps.                           *)
HeapSound ==
    /\ HeapTop \in Nat \ {NULL}
    /\ Consistent(chain, bins, Tags, l_completePages, HeapTop, page_blocks)
    /\ LocalsTyped
    /\ LiveBlocksIntact
    /\ OneInside
    /\ TagAtWork
    /\ ReallocAtWork
    /\ PointersApart

(* The sizes malloc works on, also where the regions are not spaced.       *)
Asked ==
    /\ pc \in [Callers -> {"idle", "search", "merge", "re_malloc", "re_copy"}]
    /\ want \in [Callers -> Sizes \cup {0}]
    /\ \A c \in Callers : pc[c] \in {"search", "re_malloc", "re_copy"} =>
                             want[c] \in Sizes

(* The inductive invariant.                                                *)
HeapIInv == PoolIInv /\ Asked /\ (WellSpaced => HeapSound)

(* page_alloc's blocks lie one above the other below HeapTop.              *)
ApartBelowTop == PagesApart(page_blocks, HeapTop)

(* The page allocator's invariant (PagePoolProofs) says so.                *)
LEMMA PoolApart == PoolIInv /\ WellSpaced => ApartBelowTop
<1> SUFFICES ASSUME PoolIInv, WellSpaced
             PROVE  PagesApart(page_blocks, HeapTop)
  BY DEF ApartBelowTop
<1>1. /\ page_blocks \in Seq([addr : Int, pages : 1 .. MaxPages])
      /\ page_heap_offset \in Int /\ BOOT_BSP_HEAP_BASE \in Nat
      /\ BlocksDisjoint /\ BlocksBelowTop
  BY PageAssumption DEF PoolIInv, PoolTypeOK
<1>2. ASSUME NEW i \in 1 .. Len(page_blocks)
      PROVE  page_blocks[i].addr \in Int /\ BlockEnd(page_blocks[i]) \in Int
  <2>1. page_blocks[i] \in [addr : Int, pages : 1 .. MaxPages]
    BY <1>1, ElementOfSeq
  <2>2. Bytes(page_blocks[i].pages) \in Nat
    BY <2>1, BytesBounds
  <2> QED
    BY <2>1, <2>2 DEF BlockEnd
<1>3. Len(page_blocks) \in Nat
  BY <1>1, LenProperties
<1> QED
  BY <1>1, <1>2, <1>3 DEF PagesApart, BlocksDisjoint, BlocksBelowTop, HeapTop

(* And so it does after a step.                                            *)
LEMMA PoolApartNext == PoolIInv' /\ WellSpaced' => ApartBelowTop'
BY PoolApart, PTL

(* Block t is given to a caller that asked for n bytes; the other blocks   *)
(* are as they were in b, ch and sz.                                       *)
Gives(t, n, b, ch, sz) ==
    /\ DOMAIN sz \cup {t} \subseteq Tags'
    /\ size' \in [Tags' -> Nat]
    /\ size'[t] = n
    /\ HDR + n <= chain'.real_size[t]
    /\ bins'.index[t] = -1
    /\ \A x \in DOMAIN sz \ {t} : /\ size'[x] = sz[x]
                                  /\ bins'.index[x] = b.index[x]
                                  /\ chain'.real_size[x] = ch.real_size[x]

(* The block of tag t has n bytes after the tag.                           *)
HasBytes(ch, t, n) == HDR + n <= ch.real_size[t]

(* The end of malloc, where the block is cut if it is much too large.      *)
LEMMA GiveConsistent ==
    ASSUME NEW c, NEW t, NEW n \in Nat, NEW b, NEW ch, NEW sz, NEW complete,
           NEW top \in Int, NEW blocks, NEW T, T = DOMAIN sz \cup {t},
           give(c, t, n, b, ch, sz),
           Consistent(ch, b, T, complete, top, blocks), PagesApart(blocks, top),
           \A x \in DOMAIN sz : sz[x] \in Nat,
           b.index[t] = -1, HasBytes(ch, t, n),
           ch.split_right[t] # NULL => b.index[ch.split_right[t]] = -1
    PROVE  /\ Consistent(chain', bins', Tags', complete, top, blocks)
           /\ Gives(t, n, b, ch, sz)
<1> DEFINE remainder == ch.real_size[t] - n - 2 * HDR
           new == RestAt(t, n)
           i == BinOf(remainder)
<1>1. /\ BlocksOver(ch, T, top) /\ ListsOver(b, T) /\ t \in T
      /\ ch.real_size \in [T -> Nat] /\ HDR \in Nat
  BY HeapAssumption, BlockFacts DEF Consistent
<1>2. CASE remainder > 0 /\ getexp(remainder) >= 0
  <2>1. /\ chain' = split_tag(ch, t, n)
        /\ bins' = insert_tag(unlisted(b, new), new, i)
        /\ size' = Put(Put(sz, t, n), new, 0)
    BY <1>2 DEF give, RestAt
  <2>2. RoomFor(ch, t, n)
    BY <1>1, <1>2 DEF RoomFor
  <2>3. new \notin T
    BY <2>2, CutConsistent
  <2>4. remainder \in Int /\ i \in Bins
    BY <1>1, BinOfInBins
  <2>5. BinIs(split_tag(ch, t, n), new, i)
    <3>1. split_tag(ch, t, n).real_size[new] = ch.real_size[t] - HDR - n
      BY <1>1, <2>3, SplitFields
    <3>2. split_tag(ch, t, n).real_size[new] - HDR = remainder
      BY <1>1, <3>1
    <3> QED
      BY <3>2 DEF BinIs
  <2> HIDE DEF i, new, remainder
  <2>6. Consistent(split_tag(ch, t, n), insert_tag(unlisted(b, new), new, i),
                   T \cup {new}, complete, top, blocks)
    BY <2>2, <2>4, <2>5, SplitConsistent DEF new
  <2>7. Reindexed(insert_tag(unlisted(b, new), new, i), b, T \cup {new}, new, i)
    BY <2>2, <2>4, <2>5, SplitConsistent DEF new
  <2>8. Tags' = T \cup {new}
    BY <2>1 DEF Tags, Put
  <2>9. \A x \in T : chain'.real_size[x] =
                         IF x = t THEN HDR + n ELSE ch.real_size[x]
    BY <1>1, <2>1, <2>3, SplitFields DEF new
  <2>10. /\ size' = [x \in T \cup {new} |-> size'[x]]
         /\ \A x \in T \cup {new} : size'[x] = IF x = new THEN 0
                                                ELSE IF x = t THEN n ELSE sz[x]
    BY <2>1, <2>3 DEF Put
  <2>11. size' \in [Tags' -> Nat]
    BY <2>8, <2>10
  <2>12. HDR + n <= chain'.real_size[t]
    BY <1>1, <2>9
  <2> QED
    BY <1>1, <2>1, <2>3, <2>6, <2>7, <2>8, <2>9, <2>10, <2>11, <2>12
    DEF Gives, Reindexed
<1>3. CASE ~(remainder > 0 /\ getexp(remainder) >= 0)
  <2>1. chain' = ch /\ bins' = b /\ size' = Put(sz, t, n)
    BY <1>3 DEF give
  <2>2. Tags' = T
    BY <2>1 DEF Tags, Put
  <2>3. /\ size' = [x \in T |-> size'[x]]
        /\ \A x \in T : size'[x] = IF x = t THEN n ELSE sz[x]
    BY <2>1 DEF Put
  <2>4. size' \in [Tags' -> Nat]
    BY <2>2, <2>3
  <2> QED
    BY <1>1, <2>1, <2>2, <2>3, <2>4 DEF Gives, HasBytes
<1> QED
  BY <1>2, <1>3

(* What the invariant says of the callers, with its definitions expanded.  *)
LEMMA SoundFacts ==
    ASSUME HeapSound
    PROVE  /\ HeapTop \in Nat \ {NULL}
           /\ Tags \subseteq Nat /\ NULL \notin Tags
           /\ HDR \in Nat /\ HDR > 0
           /\ live \subseteq Nat
           /\ bins.index \in [Tags -> Bins \cup {-1}] /\ -1 \notin Bins
           /\ chain.real_size \in [Tags -> Nat]
           /\ \A p \in live : /\ p - HDR \in Tags
                              /\ bins.index[p - HDR] = -1
                              /\ HDR + size[p - HDR] <= chain.real_size[p - HDR]
           /\ BlocksOver(chain, Tags, HeapTop)
           /\ ListsOver(bins, Tags)
<1>1. HeapTop \in Nat \ {NULL} /\ HeapTop \in Int
  BY DEF HeapSound
<1>2. BlocksOver(chain, Tags, HeapTop) /\ ListsOver(bins, Tags)
  BY DEF HeapSound, Consistent
<1>3. /\ Tags \subseteq Nat /\ NULL \notin Tags
      /\ chain.real_size \in [Tags -> Nat]
  BY <1>1, <1>2, BlockFacts
<1>4. bins.index \in [Tags -> Bins \cup {-1}] /\ -1 \notin Bins
  BY <1>2, ListFacts, NoBinBelow
<1> QED
  BY <1>1, <1>2, <1>3, <1>4, HeapAssumption
  DEF HeapSound, LocalsTyped, LiveBlocksIntact

(* The blocks other than t are as they are in bins and chain, and t was in  *)
(* use by no one.                                                          *)
Untouched(b, ch, t) ==
    /\ \A x \in Tags \ {t} : /\ b.index[x] = bins.index[x]
                             /\ ch.real_size[x] = chain.real_size[x]
    /\ t \in Tags => bins.index[t] # -1

(* What a step does to the blocks in use: malloc adds one that was not in   *)
(* use, and the others keep their sizes; the steps of free keep them all.  *)
BlockAdded ==
    /\ \A p \in live : size'[p - HDR] = size[p - HDR]
    /\ \E t \in Tags' : t + HDR \notin live /\ live' = live \cup {t + HDR}

(* The blocks in use are the same.                                         *)
BlocksKept == live' = live /\ \A p \in live : size'[p - HDR] = size[p - HDR]

(* malloc returns: the caller owns the block, and the lock is free.        *)
LEMMA GiveSound ==
    ASSUME HeapSound, NEW c \in Callers, pc[c] = "search",
           NEW t, NEW b, NEW ch,
           give(c, t, want[c], b, ch, size),
           Gives(t, want[c], b, ch, size),
           HeapTop' \in Nat \ {NULL},
           Consistent(chain', bins', Tags', l_completePages', HeapTop', page_blocks'),
           Untouched(b, ch, t)
    PROVE  HeapSound' /\ BlockAdded
<1> DEFINE n == want[c]
<1>1. /\ Tags \subseteq Nat /\ NULL \notin Tags
      /\ HDR \in Nat /\ HDR > 0
      /\ live \subseteq Nat
      /\ \A p \in live : /\ p - HDR \in Tags
                         /\ bins.index[p - HDR] = -1
                         /\ HDR + size[p - HDR] <= chain.real_size[p - HDR]
  BY SoundFacts
<1>2. /\ lock' = 0 /\ live' = live \cup {t + HDR}
      /\ old' = old /\ real_size' = real_size
      /\ old[c] = NULL => /\ pc' = [pc EXCEPT ![c] = "idle"]
                          /\ tag' = [tag EXCEPT ![c] = NULL]
                          /\ want' = [want EXCEPT ![c] = 0]
      /\ old[c] # NULL => /\ pc' = [pc EXCEPT ![c] = "re_copy"]
                          /\ tag' = [tag EXCEPT ![c] = t]
                          /\ want' = want
  BY DEF give
<1>3. /\ Tags \cup {t} \subseteq Tags' /\ size' \in [Tags' -> Nat]
      /\ size'[t] = n /\ HDR + n <= chain'.real_size[t] /\ bins'.index[t] = -1
      /\ \A x \in Tags \ {t} : /\ size'[x] = size[x]
                               /\ bins'.index[x] = bins.index[x]
                               /\ chain'.real_size[x] = chain.real_size[x]
  BY DEF Gives, Tags, Untouched
<1>4. t \in Nat \ {NULL}
  BY <1>3 DEF Consistent, ListsOver
<1>5. t \in Tags => bins.index[t] # -1
  BY DEF Untouched
<1>6. \A p \in live : /\ p - HDR \in Tags \ {t} /\ p - HDR \in Tags'
                      /\ size'[p - HDR] = size[p - HDR]
                      /\ bins'.index[p - HDR] = -1
                      /\ HDR + size'[p - HDR] <= chain'.real_size[p - HDR]
  BY <1>1, <1>3, <1>5
<1>7. t + HDR \notin live /\ t + HDR # NULL
  <2>1. t + HDR # NULL
    BY <1>1, <1>4 DEF NULL
  <2>2. ASSUME NEW p \in live, p = t + HDR PROVE FALSE
    <3>1. p - HDR = t
      BY <1>1, <1>4, <2>2
    <3>2. p - HDR \in Tags \ {t}
      BY <1>6
    <3> QED
      BY <3>1, <3>2
  <2> QED
    BY <2>1, <2>2
<1>8. /\ pc \in [Callers -> {"idle", "search", "merge", "re_malloc", "re_copy"}]
      /\ tag \in [Callers -> Link(Tags)]
      /\ want \in [Callers -> Sizes \cup {0}]
      /\ old \in [Callers -> Nat]
      /\ real_size \in [Callers -> Nat]
  BY DEF HeapSound, LocalsTyped
<1>9. \A d \in Callers : d # c => pc[d] \in {"idle", "re_malloc", "re_copy"}
  BY <1>8 DEF HeapSound, OneInside, Holds
<1>10. \A d \in Callers : d # c => /\ pc'[d] = pc[d] /\ tag'[d] = tag[d]
                                   /\ want'[d] = want[d]
  BY <1>2, <1>8
<1>11. /\ old[c] = NULL => pc'[c] = "idle" /\ tag'[c] = NULL
       /\ old[c] # NULL => pc'[c] = "re_copy" /\ tag'[c] = t /\ want'[c] = n
  BY <1>2, <1>8
<1>12. n \in Sizes
  BY DEF HeapSound, ReallocAtWork
<1>13. /\ \A d \in Callers : pc[d] \in {"idle", "re_malloc"} => tag[d] = NULL
       /\ \A d \in Callers : pc[d] = "re_copy" => /\ tag[d] \in Tags
                                                  /\ tag[d] + HDR \in live
                                                  /\ size[tag[d]] = want[d]
  BY DEF HeapSound, TagAtWork
<1>14. \A d \in Callers : pc[d] = "re_copy" =>
           tag[d] \in Tags' /\ tag[d] # t /\ size'[tag[d]] = want[d]
  <2> TAKE d \in Callers
  <2> HAVE pc[d] = "re_copy"
  <2>1. tag[d] \in Tags /\ tag[d] + HDR \in live /\ size[tag[d]] = want[d]
    BY <1>13
  <2>2. tag[d] # t
    BY <1>7, <2>1
  <2> QED
    BY <1>3, <2>1, <2>2
<1>15. LocalsTyped'
  <2>1. tag' \in [Callers -> Link(Tags')]
    <3>1. \A d \in Callers : tag'[d] \in Link(Tags')
      BY <1>3, <1>9, <1>10, <1>11, <1>13, <1>14 DEF Link
    <3>2. tag' = [d \in Callers |-> tag'[d]]
      BY <1>2, <1>8
    <3> QED
      BY <3>1, <3>2
  <2>2. live' \subseteq Nat
    <3>1. t + HDR \in Nat
      BY <1>1, <1>4
    <3> QED
      BY <1>1, <1>2, <3>1
  <2>3. /\ pc' \in [Callers -> {"idle", "search", "merge", "re_malloc", "re_copy"}]
        /\ want' \in [Callers -> Sizes \cup {0}]
        /\ old' \in [Callers -> Nat]
        /\ real_size' \in [Callers -> Nat]
    BY <1>2, <1>8
  <2> QED
    BY <1>2, <1>3, <2>1, <2>2, <2>3 DEF LocalsTyped
<1>16. LiveBlocksIntact'
  <2> SUFFICES ASSUME NEW p \in live'
               PROVE  /\ p - HDR \in Tags'
                      /\ bins'.index[p - HDR] = -1
                      /\ HDR + size'[p - HDR] <= chain'.real_size[p - HDR]
    BY DEF LiveBlocksIntact
  <2>1. CASE p \in live
    BY <1>6, <2>1
  <2>2. CASE p = t + HDR
    <3>1. p - HDR = t
      BY <1>1, <1>4, <2>2
    <3> QED
      BY <1>3, <3>1
  <2> QED
    BY <1>2, <2>1, <2>2
<1>17. OneInside'
  BY <1>9, <1>10, <1>11 DEF OneInside, Holds
<1>18. TagAtWork'
  <2> SUFFICES ASSUME NEW d \in Callers
               PROVE  /\ pc'[d] \in {"idle", "re_malloc"} => tag'[d] = NULL
                      /\ pc'[d] \notin {"search", "merge"}
                      /\ pc'[d] = "re_copy" => /\ tag'[d] \in Tags'
                                               /\ tag'[d] + HDR \in live'
                                               /\ size'[tag'[d]] = want'[d]
    BY DEF TagAtWork
  <2>1. CASE d = c
    BY <1>2, <1>3, <1>11, <2>1
  <2>2. CASE d # c
    BY <1>2, <1>9, <1>10, <1>13, <1>14, <2>2
  <2> QED
    BY <2>1, <2>2
<1>19. \A d \in Callers : old[d] # NULL => /\ old[d] \in live
                                           /\ real_size[d] <= size'[old[d] - HDR]
                                           /\ real_size[d] <= want[d]
  BY <1>6 DEF HeapSound, ReallocAtWork
<1>20. ReallocAtWork'
  <2> SUFFICES ASSUME NEW d \in Callers
               PROVE  /\ pc'[d] \in {"search", "re_malloc", "re_copy"} =>
                             want'[d] \in Sizes
                      /\ pc'[d] \in {"idle", "merge"} => old'[d] = NULL
                      /\ pc'[d] \in {"re_malloc", "re_copy"} => old'[d] # NULL
                      /\ old'[d] # NULL => /\ old'[d] \in live'
                                           /\ real_size'[d] <= size'[old'[d] - HDR]
                                           /\ real_size'[d] <= want'[d]
    BY DEF ReallocAtWork
  <2>1. CASE d = c
    BY <1>2, <1>11, <1>12, <1>19, <2>1
  <2>2. CASE d # c
    BY <1>2, <1>10, <1>19, <2>2 DEF HeapSound, ReallocAtWork
  <2> QED
    BY <2>1, <2>2
<1>21. PointersApart'
  <2>1. \A d, e \in Callers : d # e /\ old[d] # NULL => old[d] # old[e]
    BY DEF HeapSound, PointersApart
  <2>2. ASSUME NEW d \in Callers, NEW e \in Callers, d # e,
               pc'[d] = "re_copy", pc'[e] = "re_copy"
        PROVE  tag'[d] # tag'[e]
    <3>1. CASE d = c
      BY <1>10, <1>11, <1>14, <2>2, <3>1
    <3>2. CASE e = c
      BY <1>10, <1>11, <1>14, <2>2, <3>2
    <3>3. CASE d # c /\ e # c
      BY <1>10, <2>2, <3>3 DEF HeapSound, PointersApart
    <3> QED
      BY <3>1, <3>2, <3>3
  <2>3. ASSUME NEW d \in Callers, NEW e \in Callers, pc'[e] = "re_copy"
        PROVE  old[d] # tag'[e] + HDR
    <3>1. CASE e = c
      BY <1>7, <1>11, <1>19, <2>3, <3>1
    <3>2. CASE e # c
      BY <1>10, <2>3, <3>2 DEF HeapSound, PointersApart
    <3> QED
      BY <3>1, <3>2
  <2> QED
    BY <1>2, <2>1, <2>2, <2>3 DEF PointersApart
<1>22. BlockAdded
  BY <1>2, <1>3, <1>6, <1>7 DEF BlockAdded
<1> QED
  BY <1>15, <1>16, <1>17, <1>18, <1>20, <1>21, <1>22 DEF HeapSound

(* malloc's search ends at a block that is large enough.                   *)
LEMMA TakeSound ==
    ASSUME PoolIInv, WellSpaced, HeapSound, NEW c \in Callers, malloc_take(c)
    PROVE  HeapSound' /\ BlockAdded
<1> DEFINE t == tag[c]
           n == want[c]
           b == remove_tag(bins, t)
<1>1. /\ pc[c] = "search" /\ t # NULL /\ Fits(t, n)
      /\ l_completePages' = CountTaken(t, BinOf(n))
      /\ give(c, t, n, b, chain, size)
      /\ UNCHANGED poolVars
  BY DEF malloc_take
<1>2. /\ HeapTop \in Nat \ {NULL} /\ HDR \in Nat
      /\ bins.index \in [Tags -> Bins \cup {-1}] /\ -1 \notin Bins
      /\ chain.real_size \in [Tags -> Nat]
      /\ BlocksOver(chain, Tags, HeapTop)
      /\ PagesApart(page_blocks, HeapTop)
  BY SoundFacts, PoolApart DEF ApartBelowTop
<1>3. t \in Tags /\ n \in Sizes /\ n \in Nat
  BY <1>1, HeapAssumption DEF HeapSound, LocalsTyped, Link, ReallocAtWork
<1>4. bins.index[t] = BinOf(n) /\ bins.index[t] # -1
  <2>1. bins.index[t] = BinOf(n)
    BY <1>1 DEF HeapSound, TagAtWork
  <2>2. BinOf(n) \in Bins
    BY <1>3, BinOfInBins
  <2> QED
    BY <1>2, <2>1, <2>2
<1>5. l_completePages' = OneLess(chain, t, l_completePages, bins.index[t])
  BY <1>1, <1>4 DEF CountTaken, OneLess
<1>6. Consistent(chain, bins, Tags, l_completePages, HeapTop, page_blocks)
  BY DEF HeapSound
<1>7. /\ HeapTop' = HeapTop /\ page_blocks' = page_blocks
  BY <1>1 DEF HeapTop, poolVars
<1>8. Tags = DOMAIN size \cup {t} /\ \A x \in DOMAIN size : size[x] \in Nat
  BY <1>3 DEF Tags, HeapSound, LocalsTyped
<1>9. HasBytes(chain, t, n)
  BY <1>1, <1>2, <1>3 DEF HasBytes, Fits
<1> HIDE DEF t, n
<1>10. Consistent(chain, b, Tags, l_completePages', HeapTop, page_blocks)
  BY <1>2, <1>3, <1>4, <1>5, <1>6, TakeConsistent
<1>11. Reindexed(b, bins, Tags, t, -1)
  BY <1>2, <1>3, <1>4, <1>6, TakeConsistent
<1>12. b.index[t] = -1 /\ \A x \in Tags \ {t} : b.index[x] = bins.index[x]
  BY <1>3, <1>11 DEF Reindexed
<1>13. chain.split_right[t] # NULL => b.index[chain.split_right[t]] = -1
  <2>1. chain.split_right[t] # NULL => chain.split_right[t] \in Tags
    BY <1>2, <1>3, BlockFacts
  <2>2. chain.split_right[t] # NULL => bins.index[chain.split_right[t]] = -1
    BY <1>3, <1>4, <1>6 DEF Consistent, Merged
  <2> QED
    BY <1>12, <2>1, <2>2
<1> HIDE DEF b
<1>14. give(c, t, n, b, chain, size)
  BY <1>1 DEF t, n, b
<1>15. /\ Consistent(chain', bins', Tags', l_completePages', HeapTop, page_blocks)
       /\ Gives(t, n, b, chain, size)
  BY <1>2, <1>3, <1>8, <1>9, <1>10, <1>12, <1>13, <1>14, GiveConsistent
<1>16. Consistent(chain', bins', Tags', l_completePages', HeapTop', page_blocks')
  BY <1>7, <1>15
<1>17. HeapTop' \in Nat \ {NULL}
  BY <1>2, <1>7
<1> QED
  <2>1. Untouched(b, chain, t)
    BY <1>4, <1>12 DEF Untouched
  <2>2. give(c, t, want[c], b, chain, size) /\ Gives(t, want[c], b, chain, size)
    BY <1>14, <1>15 DEF n
  <2> QED
    BY <1>1, <1>16, <1>17, <2>1, <2>2, GiveSound

(* malloc's search finds none, and page_alloc gives it a new chunk.        *)
LEMMA NewSound ==
    ASSUME PoolIInv, WellSpaced, ApartBelowTop',
           HeapSound, NEW c \in Callers, malloc_new(c)
    PROVE  HeapSound' /\ BlockAdded
<1> DEFINE t == HeapTop
           n == want[c]
           bytes == Bytes(PagesFor(n))
           b == unlisted(bins, t)
           ch == new_chunk(chain, t, bytes)
           T == Tags \cup {t}
<1>1. /\ pc[c] = "search" /\ page_alloc(PagesFor(n))
      /\ give(c, t, n, b, ch, size)
      /\ l_completePages' = l_completePages
  BY DEF malloc_new
<1>2. /\ HeapTop \in Nat \ {NULL} /\ HDR \in Nat
      /\ PagesApart(page_blocks, HeapTop)
  BY SoundFacts, PoolApart DEF ApartBelowTop
<1>3. n \in Sizes /\ n \in Nat
  BY <1>1, HeapAssumption DEF HeapSound, ReallocAtWork
<1>4. PagesFor(n) \in 1 .. MaxPages /\ n + HDR <= bytes
  BY <1>3, ChunkHasRoom
<1>5. /\ HeapTop' \in Int /\ bytes \in Nat /\ HeapTop + bytes <= HeapTop'
  BY <1>1, <1>4, PageAllocBlock
<1>6. HeapTop' \in Nat \ {NULL}
  BY <1>2, <1>5 DEF NULL
<1>7. page_blocks' = Append(page_blocks, [addr |-> t, pages |-> PagesFor(n)])
  BY <1>1 DEF page_alloc, page_alloc_here, page_alloc_move, page_return
<1>8. /\ Len(page_blocks') = Len(page_blocks) + 1
      /\ \A i \in 1 .. Len(page_blocks) : page_blocks'[i] = page_blocks[i]
      /\ page_blocks'[Len(page_blocks) + 1] = [addr |-> t, pages |-> PagesFor(n)]
  BY <1>7, AppendProperties DEF PoolIInv, PoolTypeOK
<1>9. /\ page_blocks'[Len(page_blocks) + 1].addr = t
      /\ BlockEnd(page_blocks'[Len(page_blocks) + 1]) = t + bytes
  BY <1>8 DEF BlockEnd
<1>10. Consistent(chain, bins, Tags, l_completePages, HeapTop, page_blocks)
  BY DEF HeapSound
<1>11. HDR <= bytes /\ HeapTop \in Int
  BY <1>2, <1>3, <1>4, <1>5
<1> HIDE DEF bytes
<1>12. ChunkAdded(page_blocks, page_blocks', t, bytes, HeapTop, HeapTop')
  BY <1>5, <1>8, <1>9, <1>11 DEF ChunkAdded
<1> HIDE DEF t
<1>13. t \in Nat \ {NULL}
  BY <1>2 DEF t
<1>14. t \notin Tags
  BY <1>2, <1>5, <1>10, <1>11, <1>12, <1>13, NewConsistent
<1>15. Consistent(ch, b, T, l_completePages, HeapTop', page_blocks')
  BY <1>2, <1>5, <1>10, <1>11, <1>12, <1>13, NewConsistent
<1>16. Reindexed(b, bins, T, t, -1)
  BY <1>2, <1>5, <1>10, <1>11, <1>12, <1>13, NewConsistent
<1>17. Whole(ch, t)
  BY <1>2, <1>5, <1>10, <1>11, <1>12, <1>13, NewConsistent
<1>18. Resized(ch, chain, T, t, bytes)
  BY <1>2, <1>5, <1>10, <1>11, <1>12, <1>13, NewConsistent
<1> HIDE DEF b, ch, n
<1>19. b.index[t] = -1 /\ \A x \in Tags \ {t} : b.index[x] = bins.index[x]
  BY <1>16 DEF Reindexed
<1>20. HasBytes(ch, t, n)
  <2>1. ch.real_size[t] = bytes
    BY <1>18 DEF Resized
  <2>2. n + HDR <= bytes
    BY <1>4 DEF bytes
  <2> QED
    BY <1>2, <1>3, <1>5, <2>1, <2>2 DEF HasBytes, bytes
<1>21. \A x \in Tags \ {t} : ch.real_size[x] = chain.real_size[x]
  BY <1>18 DEF Resized
<1>22. give(c, t, n, b, ch, size)
  BY <1>1 DEF t, n, b, ch, bytes
<1>23. T = DOMAIN size \cup {t} /\ \A x \in DOMAIN size : size[x] \in Nat
  BY DEF Tags, HeapSound, LocalsTyped
<1>24. ch.split_right[t] # NULL => b.index[ch.split_right[t]] = -1
  BY <1>17 DEF Whole
<1> HIDE DEF T
<1>25. /\ Consistent(chain', bins', Tags', l_completePages, HeapTop', page_blocks')
       /\ Gives(t, n, b, ch, size)
  BY <1>3, <1>5, <1>15, <1>19, <1>20, <1>22, <1>23, <1>24, GiveConsistent
     DEF ApartBelowTop
<1>26. Consistent(chain', bins', Tags', l_completePages', HeapTop', page_blocks')
  BY <1>1, <1>25
<1> QED
  <2>1. Untouched(b, ch, t)
    BY <1>14, <1>19, <1>21 DEF Untouched
  <2>2. give(c, t, want[c], b, ch, size) /\ Gives(t, want[c], b, ch, size)
    BY <1>22, <1>25 DEF n
  <2> QED
    BY <1>1, <1>6, <1>26, <2>1, <2>2, GiveSound

(* The blocks the callers own are as they were.                            *)
LiveKept ==
    \A p \in live : /\ p - HDR \in Tags'
                    /\ bins'.index[p - HDR] = -1
                    /\ chain'.real_size[p - HDR] = chain.real_size[p - HDR]
                    /\ size'[p - HDR] = size[p - HDR]

(* free goes on with block t, which no one owns.                           *)
GoesOnWith(c, t) ==
    /\ t \in Tags' /\ bins'.index[t] = -1 /\ t + HDR \notin live
    /\ tag' = [tag EXCEPT ![c] = t]
    /\ UNCHANGED <<lock, pc, want, old, real_size>>

(* A step of free keeps the invariant if it keeps the tags consistent and  *)
(* the blocks in use as they are.                                          *)
LEMMA FreeStepSound ==
    ASSUME HeapSound, NEW c \in Callers, pc[c] = "merge",
           HeapTop' = HeapTop,
           Consistent(chain', bins', Tags', l_completePages', HeapTop', page_blocks'),
           size' \in [Tags' -> Nat],
           LiveKept, live' = live,
           liballoc_unlock(c) \/ \E t \in Tags' : GoesOnWith(c, t)
    PROVE  HeapSound' /\ BlocksKept
<1>1. /\ pc \in [Callers -> {"idle", "search", "merge", "re_malloc", "re_copy"}]
      /\ tag \in [Callers -> Link(Tags)]
      /\ want \in [Callers -> Sizes \cup {0}]
      /\ old \in [Callers -> Nat]
      /\ real_size \in [Callers -> Nat]
      /\ live \subseteq Nat /\ lock \in {0, 1}
  BY DEF HeapSound, LocalsTyped
<1>2. /\ want' = want /\ old' = old /\ real_size' = real_size
      /\ pc' \in [Callers -> {"idle", "search", "merge", "re_malloc", "re_copy"}]
      /\ lock' \in {0, 1}
  BY <1>1 DEF liballoc_unlock, GoesOnWith
<1>3. /\ Tags \subseteq Nat /\ HDR \in Nat
      /\ \A p \in live : /\ p - HDR \in Tags
                         /\ bins.index[p - HDR] = -1
                         /\ HDR + size[p - HDR] <= chain.real_size[p - HDR]
  BY SoundFacts
<1>4. \A d \in Callers : d # c => /\ pc[d] \in {"idle", "re_malloc", "re_copy"}
                                  /\ pc'[d] = pc[d] /\ tag'[d] = tag[d]
  BY <1>1 DEF HeapSound, OneInside, Holds, liballoc_unlock, GoesOnWith
<1>5. old[c] = NULL
  BY DEF HeapSound, ReallocAtWork
<1>6. \/ /\ lock' = 0 /\ pc'[c] = "idle" /\ tag'[c] = NULL
      \/ /\ lock' = lock /\ pc'[c] = "merge" /\ tag'[c] \in Tags'
         /\ bins'.index[tag'[c]] = -1 /\ tag'[c] + HDR \notin live
  BY <1>1 DEF liballoc_unlock, GoesOnWith
<1>7. \A d \in Callers : d # c =>
          /\ pc[d] \in {"idle", "re_malloc"} => tag[d] = NULL
          /\ pc[d] = "re_copy" => /\ tag[d] \in Tags'
                                  /\ tag[d] + HDR \in live
                                  /\ size'[tag[d]] = want[d]
  <2> TAKE d \in Callers
  <2> HAVE d # c
  <2>1. pc[d] \in {"idle", "re_malloc"} => tag[d] = NULL
    BY DEF HeapSound, TagAtWork
  <2>2. ASSUME pc[d] = "re_copy"
        PROVE  tag[d] \in Tags' /\ tag[d] + HDR \in live /\ size'[tag[d]] = want[d]
    <3>1. tag[d] \in Tags /\ tag[d] + HDR \in live /\ size[tag[d]] = want[d]
      BY <2>2 DEF HeapSound, TagAtWork
    <3>2. (tag[d] + HDR) - HDR = tag[d]
      <4>1. tag[d] \in Nat /\ HDR \in Nat
        BY <1>3, <3>1
      <4> QED
        BY <4>1
    <3>3. tag[d] \in Tags' /\ size'[tag[d]] = size[tag[d]]
      BY <3>1, <3>2 DEF LiveKept
    <3> QED
      BY <3>1, <3>3
  <2> QED
    BY <2>1, <2>2
<1>8. LocalsTyped'
  <2>1. tag' = [d \in Callers |-> tag'[d]]
    BY <1>1 DEF liballoc_unlock, GoesOnWith
  <2>2. \A d \in Callers : tag'[d] \in Link(Tags')
    BY <1>4, <1>6, <1>7 DEF Link
  <2>3. tag' \in [Callers -> Link(Tags')]
    BY <2>1, <2>2
  <2> QED
    BY <1>1, <1>2, <2>3 DEF LocalsTyped
<1>9. LiveBlocksIntact'
  BY <1>3 DEF LiveKept, LiveBlocksIntact
<1>10. OneInside'
  <2>1. pc[c] = "merge" => lock = 1
    BY DEF HeapSound, OneInside, Holds
  <2> QED
    BY <1>4, <1>6, <2>1 DEF OneInside, Holds
<1>11. TagAtWork'
  <2> SUFFICES ASSUME NEW d \in Callers
               PROVE  /\ pc'[d] \in {"idle", "re_malloc"} => tag'[d] = NULL
                      /\ pc'[d] # "search"
                      /\ pc'[d] = "merge" => /\ tag'[d] \in Tags'
                                             /\ bins'.index[tag'[d]] = -1
                                             /\ tag'[d] + HDR \notin live'
                      /\ pc'[d] = "re_copy" => /\ tag'[d] \in Tags'
                                               /\ tag'[d] + HDR \in live'
                                               /\ size'[tag'[d]] = want'[d]
    BY DEF TagAtWork
  <2>1. CASE d = c
    BY <1>6, <2>1
  <2>2. CASE d # c
    BY <1>2, <1>4, <1>7, <2>2
  <2> QED
    BY <2>1, <2>2
<1>12. ReallocAtWork'
  <2> SUFFICES ASSUME NEW d \in Callers
               PROVE  /\ pc'[d] \in {"search", "re_malloc", "re_copy"} =>
                             want'[d] \in Sizes
                      /\ pc'[d] \in {"idle", "merge"} => old'[d] = NULL
                      /\ pc'[d] \in {"re_malloc", "re_copy"} => old'[d] # NULL
                      /\ old'[d] # NULL => /\ old'[d] \in live'
                                           /\ real_size'[d] <= size'[old'[d] - HDR]
                                           /\ real_size'[d] <= want'[d]
    BY DEF ReallocAtWork
  <2>1. CASE d = c
    BY <1>2, <1>5, <1>6, <2>1
  <2>2. CASE d # c
    <3>1. old[d] # NULL => /\ old[d] \in live
                           /\ real_size[d] <= size'[old[d] - HDR]
                           /\ real_size[d] <= want[d]
      BY DEF HeapSound, ReallocAtWork, LiveKept
    <3> QED
      BY <1>2, <1>4, <2>2, <3>1 DEF HeapSound, ReallocAtWork
  <2> QED
    BY <2>1, <2>2
<1>13. PointersApart'
  <2>1. \A d, e \in Callers :
            /\ d # e /\ old[d] # NULL => old[d] # old[e]
            /\ d # e /\ pc[d] = "re_copy" /\ pc[e] = "re_copy" => tag[d] # tag[e]
            /\ pc[e] = "re_copy" => old[d] # tag[e] + HDR
    BY DEF HeapSound, PointersApart
  <2>2. \A d \in Callers : pc'[d] = "re_copy" => pc[d] = "re_copy" /\ tag'[d] = tag[d]
    BY <1>4, <1>6
  <2> QED
    BY <1>2, <2>1, <2>2 DEF PointersApart
<1>14. HeapTop' \in Nat \ {NULL}
  BY DEF HeapSound
<1>15. BlocksKept
  BY DEF BlocksKept, LiveKept
<1> QED
  BY <1>8, <1>9, <1>10, <1>11, <1>12, <1>13, <1>14, <1>15 DEF HeapSound

(* A block in a list is owned by no one, and pointers are behind tags.     *)
LEMMA PointerOfTag ==
    ASSUME HeapSound, NEW t \in Tags
    PROVE  /\ \A p \in live : p - HDR = t => p = t + HDR
           /\ bins.index[t] # -1 => t + HDR \notin live
<1>1. /\ t \in Nat /\ HDR \in Nat /\ live \subseteq Nat
      /\ \A p \in live : bins.index[p - HDR] = -1
  BY SoundFacts
<1>2. ASSUME NEW p \in live, p - HDR = t
      PROVE  p = t + HDR
  BY <1>1, <1>2
<1>3. ASSUME NEW p \in live, p = t + HDR
      PROVE  bins.index[t] = -1
  <2>1. p - HDR = t
    BY <1>1, <1>3
  <2> QED
    BY <1>1, <2>1
<1> QED
  BY <1>2, <1>3

(* What free's loops know of the block they work on.                       *)
LEMMA MergeFacts ==
    ASSUME PoolIInv, WellSpaced, HeapSound, NEW c \in Callers, pc[c] = "merge"
    PROVE  /\ tag[c] \in Tags /\ bins.index[tag[c]] = -1
           /\ tag[c] + HDR \notin live
           /\ HeapTop \in Int
           /\ PagesApart(page_blocks, HeapTop)
           /\ Consistent(chain, bins, Tags, l_completePages, HeapTop, page_blocks)
           /\ size \in [Tags -> Nat]
           /\ tag \in [Callers -> Link(Tags)]
           /\ \A p \in live : p - HDR \in Tags /\ p - HDR # tag[c]
<1>1. tag[c] \in Tags /\ bins.index[tag[c]] = -1 /\ tag[c] + HDR \notin live
  BY DEF HeapSound, TagAtWork
<1>2. \A p \in live : p - HDR \in Tags /\ p - HDR # tag[c]
  BY <1>1, PointerOfTag, SoundFacts
<1>3. HeapTop \in Int
  BY SoundFacts
<1> QED
  BY <1>1, <1>2, <1>3, PoolApart DEF ApartBelowTop, HeapSound, LocalsTyped

(* A round of free's first loop.                                           *)
LEMMA MeltSound ==
    ASSUME PoolIInv, WellSpaced, HeapSound, NEW c \in Callers, free_melt_left(c)
    PROVE  HeapSound' /\ BlocksKept
<1> DEFINE t == tag[c]
           left == chain.split_left[t]
           U == Tags \ {t}
<1>1. /\ pc[c] = "merge" /\ left # NULL /\ bins.index[left] >= 0
      /\ chain' = join(chain, left, t)
      /\ bins' = remove_tag(forget_tag(bins, t), left)
      /\ size' = Forget(size, t)
      /\ tag' = [tag EXCEPT ![c] = left]
      /\ l_completePages' = l_completePages /\ live' = live
      /\ UNCHANGED <<poolVars, lock, pc, want, old, real_size>>
  BY DEF free_melt_left, FreeLeft, melt_left
<1>2. /\ t \in Tags /\ bins.index[t] = -1
      /\ HeapTop \in Int
      /\ PagesApart(page_blocks, HeapTop)
      /\ Consistent(chain, bins, Tags, l_completePages, HeapTop, page_blocks)
      /\ size \in [Tags -> Nat]
      /\ \A p \in live : p - HDR \in Tags /\ p - HDR # t
  BY <1>1, MergeFacts
<1>3. BlocksOver(chain, Tags, HeapTop) /\ ListsOver(bins, Tags)
  BY <1>2 DEF Consistent
<1>4. left \in Tags /\ chain.split_right[left] = t
  BY <1>1, <1>2, <1>3, BlockFacts
<1>5. left # t
  BY <1>2, <1>3, <1>4, JoinSound
<1>6. bins.index \in [Tags -> Bins \cup {-1}] /\ bins.index[left] # -1
  BY <1>1, <1>3, ListFacts
<1> HIDE DEF t, left
<1>7. /\ ListsOver(forget_tag(bins, t), U)
      /\ \A x \in U : forget_tag(bins, t).index[x] = bins.index[x]
  <2>1. ListsOver(forget_tag(bins, t), U)
    BY <1>2, <1>3, ForgetTagSound
  <2>2. forget_tag(bins, t).index = Forget(bins.index, t)
    BY <1>2, <1>3, ForgetTagSound
  <2> QED
    BY <1>6, <2>1, <2>2 DEF Forget
<1>8. left \in U /\ forget_tag(bins, t).index[left] # -1
  BY <1>4, <1>5, <1>6, <1>7
<1>9. /\ ListsOver(bins', U)
      /\ bins'.index = [forget_tag(bins, t).index EXCEPT ![left] = -1]
  BY <1>1, <1>7, <1>8, RemoveTagSound, SMTT(30) DEF t, left
<1>10. Reindexed(bins', bins, U, left, -1)
  <2>1. forget_tag(bins, t).index \in [U -> Bins \cup {-1}]
    BY <1>7, ListFacts
  <2> QED
    BY <1>7, <1>9, <2>1 DEF Reindexed
<1>11. Consistent(join(chain, left, t), bins', U, l_completePages, HeapTop, page_blocks)
  BY <1>2, <1>4, <1>9, <1>10, JoinConsistent
<1>12. Tags' = U /\ size' \in [Tags' -> Nat] /\ \A x \in U : size'[x] = size[x]
  BY <1>1, <1>2 DEF Tags, Forget, t
<1>13. HeapTop' = HeapTop /\ page_blocks' = page_blocks
  BY <1>1 DEF HeapTop, poolVars
<1>14. chain' = join(chain, left, t)
  BY <1>1 DEF t, left
<1>15. Consistent(chain', bins', Tags', l_completePages', HeapTop', page_blocks')
  BY <1>1, <1>11, <1>12, <1>13, <1>14
<1>16. LiveKept
  <2> SUFFICES ASSUME NEW p \in live
               PROVE  /\ p - HDR \in Tags'
                      /\ bins'.index[p - HDR] = -1
                      /\ chain'.real_size[p - HDR] = chain.real_size[p - HDR]
                      /\ size'[p - HDR] = size[p - HDR]
    BY DEF LiveKept
  <2>1. p - HDR \in U /\ bins.index[p - HDR] = -1 /\ p - HDR # left
    BY <1>2, <1>6, SoundFacts
  <2> DEFINE x == p - HDR
  <2> HIDE DEF x
  <2>2. x \in Tags \ {t} /\ x # left
    BY <2>1 DEF x
  <2>3. chain'.real_size[x] = chain.real_size[x]
    BY <1>2, <1>3, <1>4, <1>5, <1>14, <2>2, JoinFields
  <2> QED
    BY <1>10, <1>12, <2>1, <2>3 DEF Reindexed, x
<1>17. GoesOnWith(c, left)
  <2>1. left + HDR \notin live
    BY <1>4, <1>6, PointerOfTag
  <2>2. bins'.index[left] = -1
    BY <1>8, <1>10 DEF Reindexed
  <2> QED
    BY <1>1, <1>8, <1>12, <2>1, <2>2 DEF GoesOnWith, t, left
<1> QED
  BY <1>1, <1>8, <1>12, <1>13, <1>15, <1>16, <1>17, FreeStepSound

(* A round of its second loop.                                             *)
LEMMA AbsorbSound ==
    ASSUME PoolIInv, WellSpaced, HeapSound, NEW c \in Callers, free_absorb_right(c)
    PROVE  HeapSound' /\ BlocksKept
<1> DEFINE t == tag[c]
           right == chain.split_right[t]
           U == Tags \ {right}
<1>1. /\ pc[c] = "merge" /\ right # NULL /\ bins.index[right] >= 0
      /\ chain' = join(chain, t, right)
      /\ bins' = forget_tag(remove_tag(bins, right), right)
      /\ size' = Forget(size, right)
      /\ l_completePages' = l_completePages /\ live' = live
      /\ UNCHANGED <<poolVars, lock, pc, tag, want, old, real_size>>
  BY DEF free_absorb_right, FreeRight, absorb_right, localVars
<1>2. /\ t \in Tags /\ bins.index[t] = -1 /\ t + HDR \notin live
      /\ HeapTop \in Int
      /\ PagesApart(page_blocks, HeapTop)
      /\ Consistent(chain, bins, Tags, l_completePages, HeapTop, page_blocks)
      /\ size \in [Tags -> Nat]
      /\ tag \in [Callers -> Link(Tags)]
      /\ \A p \in live : p - HDR \in Tags /\ p - HDR # t
  BY <1>1, MergeFacts
<1>3. BlocksOver(chain, Tags, HeapTop) /\ ListsOver(bins, Tags)
  BY <1>2 DEF Consistent
<1>4. right \in Tags
  BY <1>1, <1>2, <1>3, BlockFacts
<1>5. t # right
  BY <1>2, <1>3, <1>4, JoinSound
<1>6. bins.index \in [Tags -> Bins \cup {-1}] /\ bins.index[right] # -1
  BY <1>1, <1>3, ListFacts
<1>7. chain.split_right[t] = right
  OBVIOUS
<1>8. tag[c] = t
  OBVIOUS
<1> HIDE DEF t, right
<1>9. /\ ListsOver(remove_tag(bins, right), Tags)
      /\ remove_tag(bins, right).index = [bins.index EXCEPT ![right] = -1]
  BY <1>3, <1>4, <1>6, RemoveTagSound
<1>10. remove_tag(bins, right).index[right] = -1
  BY <1>4, <1>6, <1>9
<1>11. /\ ListsOver(bins', U)
       /\ bins'.index = Forget(remove_tag(bins, right).index, right)
  BY <1>1, <1>4, <1>9, <1>10, ForgetTagSound DEF t, right
<1>12. Reindexed(bins', bins, U, t, -1)
  <2>1. \A x \in U : bins'.index[x] = bins.index[x]
    BY <1>6, <1>9, <1>11 DEF Forget
  <2> QED
    BY <1>2, <2>1 DEF Reindexed
<1>13. Consistent(join(chain, t, right), bins', U, l_completePages, HeapTop, page_blocks)
  BY <1>2, <1>4, <1>7, <1>11, <1>12, JoinConsistent
<1>14. Tags' = U /\ size' \in [Tags' -> Nat] /\ \A x \in U : size'[x] = size[x]
  BY <1>1, <1>2 DEF Tags, Forget, t, right
<1>15. HeapTop' = HeapTop /\ page_blocks' = page_blocks
  BY <1>1 DEF HeapTop, poolVars
<1>16. chain' = join(chain, t, right)
  BY <1>1 DEF t, right
<1>17. Consistent(chain', bins', Tags', l_completePages', HeapTop', page_blocks')
  BY <1>1, <1>13, <1>14, <1>15, <1>16
<1>18. LiveKept
  <2> SUFFICES ASSUME NEW p \in live
               PROVE  /\ p - HDR \in Tags'
                      /\ bins'.index[p - HDR] = -1
                      /\ chain'.real_size[p - HDR] = chain.real_size[p - HDR]
                      /\ size'[p - HDR] = size[p - HDR]
    BY DEF LiveKept
  <2>1. p - HDR \in U /\ bins.index[p - HDR] = -1 /\ p - HDR # t
    BY <1>2, <1>6, SoundFacts
  <2> DEFINE x == p - HDR
  <2> HIDE DEF x
  <2>2. x \in Tags \ {right} /\ x # t
    BY <2>1 DEF x
  <2>3. chain'.real_size[x] = chain.real_size[x]
    BY <1>2, <1>3, <1>4, <1>5, <1>16, <2>2, JoinFields
  <2> QED
    BY <1>12, <1>14, <2>1, <2>3 DEF Reindexed, x
<1>19. GoesOnWith(c, t)
  <2>1. t \in U
    BY <1>2, <1>5
  <2>2. bins'.index[t] = -1
    BY <1>12, <2>1 DEF Reindexed
  <2>3. tag' = [tag EXCEPT ![c] = t]
    BY <1>1, <1>2, <1>8
  <2> QED
    BY <1>1, <1>2, <1>14, <2>1, <2>2, <2>3 DEF GoesOnWith
<1>20. t \in Tags'
  BY <1>2, <1>5, <1>14
<1> QED
  BY <1>1, <1>14, <1>15, <1>17, <1>18, <1>19, <1>20, FreeStepSound

(* A chunk that is free as a whole goes back to page_free.                 *)
LEMMA DropSound ==
    ASSUME PoolIInv, WellSpaced, HeapSound, NEW c \in Callers, free_drop(c)
    PROVE  HeapSound' /\ BlocksKept
<1> DEFINE t == tag[c]
           U == Tags \ {t}
<1>1. /\ pc[c] = "merge" /\ Whole(chain, t)
      /\ chain' = forget_chunk(chain, t)
      /\ bins' = forget_tag(bins, t)
      /\ size' = Forget(size, t)
      /\ liballoc_unlock(c)
      /\ l_completePages' = l_completePages /\ live' = live
      /\ UNCHANGED poolVars
  BY DEF free_drop
<1>2. /\ t \in Tags /\ bins.index[t] = -1
      /\ HeapTop \in Int
      /\ Consistent(chain, bins, Tags, l_completePages, HeapTop, page_blocks)
      /\ size \in [Tags -> Nat]
      /\ \A p \in live : p - HDR \in Tags /\ p - HDR # t
  BY <1>1, MergeFacts
<1> HIDE DEF t
<1>3. Consistent(forget_chunk(chain, t), forget_tag(bins, t), U, l_completePages,
                 HeapTop, page_blocks)
  BY <1>1, <1>2, DropConsistent DEF t
<1>4. Reindexed(forget_tag(bins, t), bins, U, t, -1)
  BY <1>1, <1>2, DropConsistent DEF t
<1>5. Tags' = U /\ size' \in [Tags' -> Nat] /\ \A x \in U : size'[x] = size[x]
  BY <1>1, <1>2 DEF Tags, Forget, t
<1>6. HeapTop' = HeapTop /\ page_blocks' = page_blocks
  BY <1>1 DEF HeapTop, poolVars
<1>7. Consistent(chain', bins', Tags', l_completePages', HeapTop', page_blocks')
  BY <1>1, <1>3, <1>5, <1>6 DEF t
<1>8. \A x \in U : chain'.real_size[x] = chain.real_size[x]
  <2>1. chain.real_size \in [Tags -> Nat]
    BY SoundFacts
  <2> QED
    BY <1>1, <2>1 DEF forget_chunk, Forget, t
<1>9. LiveKept
  <2>1. \A p \in live : p - HDR \in U /\ bins.index[p - HDR] = -1
    BY <1>2, SoundFacts
  <2> QED
    BY <1>1, <1>4, <1>5, <1>8, <2>1 DEF LiveKept, Reindexed, t
<1> QED
  BY <1>1, <1>5, <1>6, <1>7, <1>9, FreeStepSound

(* free puts the block into the list of its size.                          *)
LEMMA InsertSound ==
    ASSUME PoolIInv, WellSpaced, HeapSound, NEW c \in Callers, free_insert(c)
    PROVE  HeapSound' /\ BlocksKept
<1> DEFINE t == tag[c]
           i == BinOfTag(t)
<1>1. /\ pc[c] = "merge"
      /\ ~FreeLeft(t) /\ ~FreeRight(t)
      /\ Whole(chain, t) => l_completePages[i] # MAXCOMPLETE
      /\ l_completePages' = OneMore(chain, t, l_completePages, i)
      /\ bins' = insert_tag(bins, t, i)
      /\ liballoc_unlock(c)
      /\ chain' = chain /\ size' = size /\ live' = live
      /\ UNCHANGED poolVars
  BY DEF free_insert, OneMore
<1>2. /\ t \in Tags /\ bins.index[t] = -1
      /\ HeapTop \in Int
      /\ Consistent(chain, bins, Tags, l_completePages, HeapTop, page_blocks)
      /\ size \in [Tags -> Nat]
      /\ \A p \in live : p - HDR \in Tags /\ p - HDR # t
  BY <1>1, MergeFacts
<1>3. BlocksOver(chain, Tags, HeapTop) /\ ListsOver(bins, Tags)
  BY <1>2 DEF Consistent
<1>4. /\ bins.index \in [Tags -> Bins \cup {-1}] /\ Bins \subseteq Nat
      /\ chain.split_left[t] # NULL => chain.split_left[t] \in Tags
      /\ chain.split_right[t] # NULL => chain.split_right[t] \in Tags
  BY <1>2, <1>3, ListFacts, BlockFacts, NoBinBelow
<1>5. /\ chain.split_left[t] # NULL => bins.index[chain.split_left[t]] = -1
      /\ chain.split_right[t] # NULL => bins.index[chain.split_right[t]] = -1
  <2>1. ASSUME NEW x \in Tags, ~(bins.index[x] >= 0)
        PROVE  bins.index[x] = -1
    <3>1. bins.index[x] \in Nat \/ bins.index[x] = -1
      BY <1>4
    <3> QED
      BY <2>1, <3>1
  <2> QED
    BY <1>1, <1>4, <2>1 DEF FreeLeft, FreeRight
<1>6. i \in Bins /\ BinIs(chain, t, i)
  <2>1. chain.real_size[t] \in Nat /\ HDR \in Nat
    BY <1>2, SoundFacts
  <2>2. chain.real_size[t] - HDR \in Int
    BY <2>1
  <2> QED
    BY <2>2, BinOfInBins DEF BinOfTag, BinIs
<1> HIDE DEF t, i
<1>7. Whole(chain, t) => l_completePages[i] # MAXCOMPLETE
  BY <1>1 DEF t, i
<1>8. Consistent(chain, insert_tag(bins, t, i), Tags,
                 OneMore(chain, t, l_completePages, i), HeapTop, page_blocks)
  BY <1>2, <1>5, <1>6, <1>7, InsertConsistent
<1>9. Reindexed(insert_tag(bins, t, i), bins, Tags, t, i)
  BY <1>2, <1>5, <1>6, <1>7, InsertConsistent
<1>10. HeapTop' = HeapTop /\ page_blocks' = page_blocks /\ Tags' = Tags
  BY <1>1 DEF HeapTop, poolVars, Tags
<1>11. Consistent(chain', bins', Tags', l_completePages', HeapTop', page_blocks')
  BY <1>1, <1>8, <1>10 DEF t, i
<1>12. LiveKept
  <2>1. \A p \in live : /\ p - HDR \in Tags /\ p - HDR # t
                        /\ bins.index[p - HDR] = -1
    BY <1>2, SoundFacts
  <2>2. bins' = insert_tag(bins, t, i) /\ chain' = chain /\ size' = size
    BY <1>1 DEF t, i
  <2> QED
    BY <1>9, <1>10, <2>1, <2>2 DEF LiveKept, Reindexed
<1>13. size' \in [Tags' -> Nat]
  BY <1>1, <1>2, <1>10
<1> QED
  BY <1>1, <1>10, <1>11, <1>12, <1>13, FreeStepSound

(* A step that changes neither the tags nor the page allocator.            *)
TagsAlone == UNCHANGED <<poolVars, tagVars>>

(* It keeps what the invariant says of them.                               *)
LEMMA TagsAloneFacts ==
    ASSUME HeapSound, TagsAlone
    PROVE  /\ HeapTop' \in Nat \ {NULL}
           /\ Consistent(chain', bins', Tags', l_completePages', HeapTop', page_blocks')
           /\ Tags' = Tags
           /\ size' \in [Tags' -> Nat]
           /\ live' \subseteq live => LiveBlocksIntact'
<1>1. /\ HeapTop' = HeapTop /\ page_blocks' = page_blocks /\ Tags' = Tags
      /\ chain' = chain /\ bins' = bins /\ size' = size
      /\ l_completePages' = l_completePages
  BY DEF TagsAlone, tagVars, poolVars, HeapTop, Tags
<1> QED
  BY <1>1 DEF HeapSound, LocalsTyped, LiveBlocksIntact

(* The callers' variables, one by one.                                     *)
LEMMA LocalFacts ==
    ASSUME HeapSound
    PROVE  /\ pc \in [Callers -> {"idle", "search", "merge", "re_malloc", "re_copy"}]
           /\ tag \in [Callers -> Link(Tags)]
           /\ want \in [Callers -> Sizes \cup {0}]
           /\ old \in [Callers -> Nat]
           /\ real_size \in [Callers -> Nat]
           /\ live \subseteq Nat /\ lock \in {0, 1}
           /\ \A c \in Callers : lock = 0 => ~Holds(c)
           /\ TagAtWork /\ ReallocAtWork /\ PointersApart
BY DEF HeapSound, LocalsTyped, OneInside

(* malloc, also realloc's call of it, up to its search.                    *)
LEMMA SearchSound ==
    ASSUME HeapSound, NEW c \in Callers, NEW n \in Sizes, begin_search(c, n),
           pc[c] \in {"idle", "re_malloc"}, pc[c] = "re_malloc" => n = want[c]
    PROVE  HeapSound'
<1>1. /\ lock = 0 /\ lock' = 1 /\ live' = live /\ old' = old
      /\ pc' = [pc EXCEPT ![c] = "search"]
      /\ tag' = [tag EXCEPT ![c] = bins.l_freePages[BinOf(n)]]
      /\ want' = [want EXCEPT ![c] = n]
      /\ real_size' = real_size
      /\ TagsAlone
  BY DEF begin_search, liballoc_lock, TagsAlone
<1>2. /\ HeapTop' \in Nat \ {NULL}
      /\ Consistent(chain', bins', Tags', l_completePages', HeapTop', page_blocks')
      /\ Tags' = Tags /\ size' \in [Tags' -> Nat]
      /\ LiveBlocksIntact'
  BY <1>1, TagsAloneFacts
<1>3. bins' = bins /\ size' = size
  BY <1>1 DEF TagsAlone, tagVars
<1>4. /\ pc \in [Callers -> {"idle", "search", "merge", "re_malloc", "re_copy"}]
      /\ tag \in [Callers -> Link(Tags)]
      /\ want \in [Callers -> Sizes \cup {0}]
      /\ old \in [Callers -> Nat]
      /\ real_size \in [Callers -> Nat]
      /\ live \subseteq Nat
      /\ \A d \in Callers : ~Holds(d)
  BY <1>1, LocalFacts
<1>5. /\ bins.l_freePages[BinOf(n)] \in Link(Tags)
      /\ bins.l_freePages[BinOf(n)] # NULL =>
             bins.index[bins.l_freePages[BinOf(n)]] = BinOf(n)
  <2>1. BinOf(n) \in Bins
    BY BinOfInBins, HeapAssumption
  <2>2. ListsOver(bins, Tags)
    BY SoundFacts
  <2> QED
    BY <2>1, <2>2, ListFacts
<1>6. LocalsTyped'
  BY <1>1, <1>2, <1>4, <1>5 DEF LocalsTyped
<1>7. OneInside'
  BY <1>1, <1>4 DEF OneInside, Holds
<1>8. \A d \in Callers :
          /\ d # c => pc'[d] = pc[d] /\ tag'[d] = tag[d] /\ want'[d] = want[d]
          /\ d = c => /\ pc'[d] = "search" /\ want'[d] = n
                      /\ tag'[d] = bins.l_freePages[BinOf(n)]
  BY <1>1, <1>4
<1>9. TagAtWork'
  BY <1>1, <1>2, <1>3, <1>4, <1>5, <1>8 DEF HeapSound, TagAtWork, Holds
<1>10. ReallocAtWork'
  <2> SUFFICES ASSUME NEW d \in Callers
               PROVE  /\ pc'[d] \in {"search", "re_malloc", "re_copy"} =>
                             want'[d] \in Sizes
                      /\ pc'[d] \in {"idle", "merge"} => old'[d] = NULL
                      /\ pc'[d] \in {"re_malloc", "re_copy"} => old'[d] # NULL
                      /\ old'[d] # NULL => /\ old'[d] \in live'
                                           /\ real_size'[d] <= size'[old'[d] - HDR]
                                           /\ real_size'[d] <= want'[d]
    BY DEF ReallocAtWork
  <2>1. /\ pc[d] \in {"search", "re_malloc", "re_copy"} => want[d] \in Sizes
        /\ pc[d] \in {"idle", "merge"} => old[d] = NULL
        /\ pc[d] \in {"re_malloc", "re_copy"} => old[d] # NULL
        /\ old[d] # NULL => /\ old[d] \in live
                            /\ real_size[d] <= size[old[d] - HDR]
                            /\ real_size[d] <= want[d]
    BY DEF HeapSound, ReallocAtWork
  <2>2. CASE d = c
    BY <1>1, <1>3, <1>8, <2>1, <2>2
  <2>3. CASE d # c
    BY <1>1, <1>3, <1>8, <2>1, <2>3
  <2> QED
    BY <2>2, <2>3
<1>11. PointersApart'
  <2>1. PointersApart
    BY LocalFacts
  <2> QED
    BY <1>1, <1>8, <2>1 DEF PointersApart
<1> QED
  BY <1>2, <1>6, <1>7, <1>9, <1>10, <1>11 DEF HeapSound

(* A block that is too small: malloc goes on to the next of the list.      *)
LEMMA NextSound ==
    ASSUME HeapSound, NEW c \in Callers, malloc_next(c)
    PROVE  HeapSound'
<1>1. /\ pc[c] = "search" /\ tag[c] # NULL
      /\ tag' = [tag EXCEPT ![c] = bins.next[tag[c]]]
      /\ UNCHANGED <<lock, live, pc, want, old, real_size>>
      /\ TagsAlone
  BY DEF malloc_next, TagsAlone
<1>2. /\ HeapTop' \in Nat \ {NULL}
      /\ Consistent(chain', bins', Tags', l_completePages', HeapTop', page_blocks')
      /\ Tags' = Tags /\ size' \in [Tags' -> Nat]
      /\ LiveBlocksIntact'
  BY <1>1, TagsAloneFacts
<1>3. bins' = bins /\ size' = size
  BY <1>1 DEF TagsAlone, tagVars
<1>4. tag \in [Callers -> Link(Tags)]
  BY LocalFacts
<1>5. /\ bins.next[tag[c]] \in Link(Tags)
      /\ bins.next[tag[c]] # NULL => bins.index[bins.next[tag[c]]] = BinOf(want[c])
  <2>1. tag[c] \in Tags /\ ListsOver(bins, Tags)
    BY <1>1, <1>4, SoundFacts DEF Link
  <2>2. bins.index[tag[c]] = BinOf(want[c])
    BY <1>1 DEF HeapSound, TagAtWork
  <2> QED
    BY <2>1, <2>2, ListFacts
<1>6. \A d \in Callers : tag'[d] = IF d = c THEN bins.next[tag[c]] ELSE tag[d]
  BY <1>1, <1>4
<1>7. LocalsTyped'
  <2>1. tag' \in [Callers -> Link(Tags')]
    BY <1>1, <1>2, <1>4, <1>5
  <2> QED
    BY <1>1, <1>2, <2>1, LocalFacts DEF LocalsTyped
<1>8. OneInside'
  BY <1>1 DEF HeapSound, OneInside, Holds
<1>9. TagAtWork'
  BY <1>1, <1>2, <1>3, <1>5, <1>6 DEF HeapSound, TagAtWork
<1>10. ReallocAtWork'
  BY <1>1, <1>3 DEF HeapSound, ReallocAtWork
<1>11. PointersApart'
  BY <1>1, <1>6 DEF HeapSound, PointersApart
<1> QED
  BY <1>2, <1>7, <1>8, <1>9, <1>10, <1>11 DEF HeapSound

(* free, also realloc's call of it, up to its loops.                       *)
LEMMA BeginFreeSound ==
    ASSUME HeapSound, NEW c \in Callers, NEW p \in live, begin_free(c, p),
           \A d \in Callers : d # c => /\ old[d] # p
                                       /\ pc[d] = "re_copy" => tag[d] # p - HDR
    PROVE  HeapSound'
<1>1. /\ lock = 0 /\ lock' = 1 /\ live' = live \ {p}
      /\ pc' = [pc EXCEPT ![c] = "merge"]
      /\ tag' = [tag EXCEPT ![c] = p - HDR]
      /\ want' = [want EXCEPT ![c] = 0]
      /\ old' = [old EXCEPT ![c] = NULL]
      /\ real_size' = [real_size EXCEPT ![c] = 0]
      /\ TagsAlone
  BY DEF begin_free, liballoc_lock, TagsAlone
<1>2. /\ HeapTop' \in Nat \ {NULL}
      /\ Consistent(chain', bins', Tags', l_completePages', HeapTop', page_blocks')
      /\ Tags' = Tags /\ size' \in [Tags' -> Nat]
      /\ LiveBlocksIntact'
  BY <1>1, TagsAloneFacts
<1>3. bins' = bins /\ size' = size
  BY <1>1 DEF TagsAlone, tagVars
<1>4. /\ pc \in [Callers -> {"idle", "search", "merge", "re_malloc", "re_copy"}]
      /\ tag \in [Callers -> Link(Tags)]
      /\ want \in [Callers -> Sizes \cup {0}]
      /\ old \in [Callers -> Nat]
      /\ real_size \in [Callers -> Nat]
      /\ live \subseteq Nat
      /\ \A d \in Callers : ~Holds(d)
  BY <1>1, LocalFacts
<1>5. /\ p - HDR \in Tags /\ bins.index[p - HDR] = -1
      /\ (p - HDR) + HDR = p
      /\ HDR \in Nat /\ Tags \subseteq Nat
  <2>1. p \in Nat /\ HDR \in Nat
    BY SoundFacts
  <2>2. (p - HDR) + HDR = p
    BY <2>1
  <2> QED
    BY <2>1, <2>2, SoundFacts
<1>6. \A d \in Callers :
          /\ d # c => /\ pc'[d] = pc[d] /\ tag'[d] = tag[d] /\ want'[d] = want[d]
                      /\ old'[d] = old[d] /\ real_size'[d] = real_size[d]
          /\ d = c => /\ pc'[d] = "merge" /\ want'[d] = 0 /\ old'[d] = NULL
                      /\ tag'[d] = p - HDR /\ real_size'[d] = 0
  BY <1>1, <1>4
<1>7. LocalsTyped'
  <2>1. tag' \in [Callers -> Link(Tags')]
    BY <1>1, <1>2, <1>4, <1>5 DEF Link
  <2>2. /\ old' \in [Callers -> Nat] /\ real_size' \in [Callers -> Nat]
        /\ want' \in [Callers -> Sizes \cup {0}]
        /\ pc' \in [Callers -> {"idle", "search", "merge", "re_malloc", "re_copy"}]
    BY <1>1, <1>4 DEF NULL
  <2> QED
    BY <1>1, <1>2, <1>4, <2>1, <2>2 DEF LocalsTyped
<1>8. OneInside'
  BY <1>1, <1>4, <1>6 DEF OneInside, Holds
<1>9. TagAtWork'
  <2> SUFFICES ASSUME NEW d \in Callers
               PROVE  /\ pc'[d] \in {"idle", "re_malloc"} => tag'[d] = NULL
                      /\ pc'[d] # "search"
                      /\ pc'[d] = "merge" => /\ tag'[d] \in Tags'
                                             /\ bins'.index[tag'[d]] = -1
                                             /\ tag'[d] + HDR \notin live'
                      /\ pc'[d] = "re_copy" => /\ tag'[d] \in Tags'
                                               /\ tag'[d] + HDR \in live'
                                               /\ size'[tag'[d]] = want'[d]
    BY DEF TagAtWork
  <2>1. CASE d = c
    BY <1>1, <1>2, <1>3, <1>5, <1>6, <2>1
  <2>2. CASE d # c
    <3>1. /\ pc[d] \in {"idle", "re_malloc"} => tag[d] = NULL
          /\ pc[d] = "re_copy" => /\ tag[d] \in Tags
                                  /\ tag[d] + HDR \in live
                                  /\ size[tag[d]] = want[d]
      BY DEF HeapSound, TagAtWork
    <3>2. pc[d] = "re_copy" => tag[d] + HDR # p
      <4> HAVE pc[d] = "re_copy"
      <4>1. tag[d] # p - HDR
        BY <2>2
      <4>2. tag[d] \in Nat /\ p \in Nat
        BY <1>4, <1>5, <3>1
      <4> QED
        BY <1>5, <4>1, <4>2
    <3> QED
      BY <1>1, <1>2, <1>3, <1>4, <1>6, <2>2, <3>1, <3>2 DEF Holds
  <2> QED
    BY <2>1, <2>2
<1>10. ReallocAtWork'
  <2> SUFFICES ASSUME NEW d \in Callers
               PROVE  /\ pc'[d] \in {"search", "re_malloc", "re_copy"} =>
                             want'[d] \in Sizes
                      /\ pc'[d] \in {"idle", "merge"} => old'[d] = NULL
                      /\ pc'[d] \in {"re_malloc", "re_copy"} => old'[d] # NULL
                      /\ old'[d] # NULL => /\ old'[d] \in live'
                                           /\ real_size'[d] <= size'[old'[d] - HDR]
                                           /\ real_size'[d] <= want'[d]
    BY DEF ReallocAtWork
  <2>1. /\ pc[d] \in {"search", "re_malloc", "re_copy"} => want[d] \in Sizes
        /\ pc[d] \in {"idle", "merge"} => old[d] = NULL
        /\ pc[d] \in {"re_malloc", "re_copy"} => old[d] # NULL
        /\ old[d] # NULL => /\ old[d] \in live
                            /\ real_size[d] <= size[old[d] - HDR]
                            /\ real_size[d] <= want[d]
    BY DEF HeapSound, ReallocAtWork
  <2>2. CASE d = c
    BY <1>6, <2>2
  <2>3. CASE d # c
    <3>1. old[d] # p
      BY <2>3
    <3>2. old[d] # NULL => old[d] \in live'
      BY <1>1, <2>1, <3>1
    <3> QED
      BY <1>3, <1>6, <2>1, <2>3, <3>2
  <2> QED
    BY <2>2, <2>3
<1>11. PointersApart'
  <2>1. PointersApart
    BY LocalFacts
  <2>2. \A d, e \in Callers : d # e /\ old'[d] # NULL => old'[d] # old'[e]
    BY <1>6, <2>1 DEF PointersApart
  <2>3. \A d, e \in Callers : d # e /\ pc'[d] = "re_copy" /\ pc'[e] = "re_copy" =>
                                tag'[d] # tag'[e]
    BY <1>6, <2>1 DEF PointersApart
  <2>4. ASSUME NEW d \in Callers, NEW e \in Callers, pc'[e] = "re_copy"
        PROVE  old'[d] # tag'[e] + HDR
    <3>1. e # c /\ pc[e] = "re_copy" /\ tag'[e] = tag[e]
      BY <1>6, <2>4
    <3>2. tag[e] \in Nat /\ HDR \in Nat /\ HDR > 0
      BY <1>5, <3>1, SoundFacts DEF HeapSound, TagAtWork
    <3>3. tag[e] + HDR # NULL
      BY <3>2 DEF NULL
    <3>4. old[d] # tag[e] + HDR
      BY <2>1, <3>1 DEF PointersApart
    <3> QED
      BY <1>6, <3>1, <3>3, <3>4
  <2> QED
    BY <2>2, <2>3, <2>4 DEF PointersApart
<1> QED
  BY <1>1, <1>2, <1>7, <1>8, <1>9, <1>10, <1>11 DEF HeapSound

(* realloc reads the size of the old block.                                *)
LEMMA ReallocSound ==
    ASSUME HeapSound, NEW c \in Callers, NEW p \in live, NEW n \in Sizes,
           realloc(c, p, n)
    PROVE  HeapSound'
<1>1. /\ pc[c] = "idle" /\ Freeable(p)
      /\ pc' = [pc EXCEPT ![c] = "re_malloc"]
      /\ want' = [want EXCEPT ![c] = n]
      /\ old' = [old EXCEPT ![c] = p]
      /\ real_size' = [real_size EXCEPT ![c] = CopySize(p, n)]
      /\ UNCHANGED <<lock, live, tag>>
      /\ TagsAlone
  BY DEF realloc, TagsAlone
<1>2. /\ HeapTop' \in Nat \ {NULL}
      /\ Consistent(chain', bins', Tags', l_completePages', HeapTop', page_blocks')
      /\ Tags' = Tags /\ size' \in [Tags' -> Nat]
      /\ LiveBlocksIntact'
  BY <1>1, TagsAloneFacts
<1>3. bins' = bins /\ size' = size
  BY <1>1 DEF TagsAlone, tagVars
<1>4. /\ pc \in [Callers -> {"idle", "search", "merge", "re_malloc", "re_copy"}]
      /\ tag \in [Callers -> Link(Tags)]
      /\ want \in [Callers -> Sizes \cup {0}]
      /\ old \in [Callers -> Nat]
      /\ real_size \in [Callers -> Nat]
      /\ live \subseteq Nat /\ lock \in {0, 1}
  BY LocalFacts
<1>5. /\ p \in Nat /\ p # NULL /\ n \in Nat /\ p - HDR \in Tags
      /\ HDR \in Nat /\ Tags \subseteq Nat
  <2>1. p \in Nat /\ p - HDR \in Nat /\ HDR \in Nat /\ HDR > 0
    BY SoundFacts
  <2>2. p # NULL
    BY <2>1 DEF NULL
  <2> QED
    BY <2>1, <2>2, SoundFacts, HeapAssumption
<1>6. /\ CopySize(p, n) \in Nat
      /\ CopySize(p, n) <= size[p - HDR] /\ CopySize(p, n) <= n
  <2>1. size[p - HDR] \in Nat
    BY <1>2, <1>3, <1>5
  <2> QED
    BY <1>5, <2>1 DEF CopySize
<1>7. \A d \in Callers :
          /\ d # c => /\ pc'[d] = pc[d] /\ want'[d] = want[d]
                      /\ old'[d] = old[d] /\ real_size'[d] = real_size[d]
          /\ d = c => /\ pc'[d] = "re_malloc" /\ want'[d] = n /\ old'[d] = p
                      /\ real_size'[d] = CopySize(p, n)
  BY <1>1, <1>4
<1>8. LocalsTyped'
  <2>1. /\ old' \in [Callers -> Nat] /\ real_size' \in [Callers -> Nat]
        /\ want' \in [Callers -> Sizes \cup {0}]
        /\ pc' \in [Callers -> {"idle", "search", "merge", "re_malloc", "re_copy"}]
    BY <1>1, <1>4, <1>5, <1>6
  <2> QED
    BY <1>1, <1>2, <1>4, <2>1 DEF LocalsTyped
<1>9. OneInside'
  BY <1>1, <1>7 DEF HeapSound, OneInside, Holds
<1>10. TagAtWork'
  BY <1>1, <1>2, <1>3, <1>7 DEF HeapSound, TagAtWork
<1>11. ReallocAtWork'
  <2> SUFFICES ASSUME NEW d \in Callers
               PROVE  /\ pc'[d] \in {"search", "re_malloc", "re_copy"} =>
                             want'[d] \in Sizes
                      /\ pc'[d] \in {"idle", "merge"} => old'[d] = NULL
                      /\ pc'[d] \in {"re_malloc", "re_copy"} => old'[d] # NULL
                      /\ old'[d] # NULL => /\ old'[d] \in live'
                                           /\ real_size'[d] <= size'[old'[d] - HDR]
                                           /\ real_size'[d] <= want'[d]
    BY DEF ReallocAtWork
  <2>1. CASE d = c
    BY <1>1, <1>3, <1>5, <1>6, <1>7, <2>1
  <2>2. CASE d # c
    <3>1. /\ pc[d] \in {"search", "re_malloc", "re_copy"} => want[d] \in Sizes
          /\ pc[d] \in {"idle", "merge"} => old[d] = NULL
          /\ pc[d] \in {"re_malloc", "re_copy"} => old[d] # NULL
          /\ old[d] # NULL => /\ old[d] \in live
                              /\ real_size[d] <= size[old[d] - HDR]
                              /\ real_size[d] <= want[d]
      BY DEF HeapSound, ReallocAtWork
    <3> QED
      BY <1>1, <1>3, <1>7, <2>2, <3>1
  <2> QED
    BY <2>1, <2>2
<1>12. PointersApart'
  <2>1. PointersApart
    BY LocalFacts
  <2>2. \A d \in Callers : /\ old[d] # p
                           /\ pc[d] = "re_copy" => tag[d] # p - HDR
    BY <1>1 DEF Freeable
  <2>3. \A d, e \in Callers : d # e /\ old'[d] # NULL => old'[d] # old'[e]
    BY <1>7, <2>1, <2>2 DEF PointersApart
  <2>4. \A d, e \in Callers : d # e /\ pc'[d] = "re_copy" /\ pc'[e] = "re_copy" =>
                                tag'[d] # tag'[e]
    BY <1>1, <1>7, <2>1 DEF PointersApart
  <2>5. ASSUME NEW d \in Callers, NEW e \in Callers, pc'[e] = "re_copy"
        PROVE  old'[d] # tag'[e] + HDR
    <3>1. pc[e] = "re_copy" /\ tag'[e] = tag[e]
      BY <1>1, <1>7, <2>5
    <3>2. tag[e] \in Nat
      BY <1>5, <3>1 DEF HeapSound, TagAtWork
    <3>3. p # tag[e] + HDR
      BY <1>5, <2>2, <3>1, <3>2
    <3>4. old[d] # tag[e] + HDR
      BY <2>1, <3>1 DEF PointersApart
    <3> QED
      BY <1>7, <3>1, <3>3, <3>4
  <2> QED
    BY <2>3, <2>4, <2>5 DEF PointersApart
<1> QED
  BY <1>2, <1>8, <1>9, <1>10, <1>11, <1>12 DEF HeapSound

(* A step that leaves the heap alone.                                      *)
LEMMA HeapAlone ==
    ASSUME HeapSound, HeapTop' = HeapTop, page_blocks' = page_blocks,
           UNCHANGED heapVars
    PROVE  HeapSound'
BY
DEF HeapSound, Tags, LocalsTyped, LiveBlocksIntact, OneInside, Holds,
   TagAtWork,
       ReallocAtWork, PointersApart, heapVars, tagVars, localVars

(* Nothing is in the heap when the page allocator starts.                  *)
LEMMA HeapInitSound == HeapInit => HeapIInv
<1> SUFFICES ASSUME HeapInit PROVE PoolIInv /\ Asked /\ HeapSound
  BY DEF HeapIInv
<1>1. PoolIInv
  BY PoolInitInv DEF HeapInit
<1>2. /\ size = <<>> /\ Tags = {} /\ lock = 0 /\ live = {}
      /\ chain = [real_size |-> <<>>, split_left |-> <<>>, split_right |-> <<>>]
      /\ bins = [l_freePages |-> [i \in Bins |-> NULL],
                 index |-> <<>>, next |-> <<>>, prev |-> <<>>]
      /\ l_completePages = [i \in Bins |-> 0]
      /\ pc = [c \in Callers |-> "idle"]
      /\ tag = [c \in Callers |-> NULL]
      /\ want = [c \in Callers |-> 0]
      /\ old = [c \in Callers |-> NULL]
      /\ real_size = [c \in Callers |-> 0]
  BY DEF HeapInit, Tags
<1>3. HeapTop \in Nat \ {NULL}
  BY PageAssumption DEF HeapInit, PoolInit, HeapTop, NULL
<1>4. Consistent(chain, bins, Tags, l_completePages, HeapTop, page_blocks)
  <2>1. BlocksOver(chain, {}, HeapTop)
    BY <1>2 DEF BlocksOver, ChainType, NeighboursLinked
  <2>2. ListsOver(bins, {})
    BY <1>2 DEF ListsOver, BinsType, ListsSound, Link
  <2>3. Counted(chain, bins, {}, l_completePages)
    <3>1. \A i \in Bins : WholeFree(chain, bins, {}, i) = {}
      BY DEF WholeFree
    <3>2. Cardinality({}) = 0
      BY FS_EmptySet
    <3>3. /\ l_completePages \in [Bins -> Int]
          /\ \A i \in Bins : l_completePages[i] = 0 /\ 0 <= MAXCOMPLETE
      BY <1>2, HeapAssumption
    <3> QED
      BY <3>1, <3>2, <3>3 DEF Counted
  <2>4. /\ IsFiniteSet({}) /\ InChunks(chain, {}, page_blocks)
        /\ BinsFit(chain, bins, {}) /\ Merged(chain, bins, {})
    BY FS_EmptySet DEF InChunks, BinsFit, Merged
  <2> QED
    BY <1>2, <2>1, <2>2, <2>3, <2>4 DEF Consistent
<1>5. LocalsTyped
  BY <1>2 DEF LocalsTyped, Link, NULL
<1>6. LiveBlocksIntact /\ OneInside /\ TagAtWork /\ ReallocAtWork /\ PointersApart
  BY <1>2 DEF LiveBlocksIntact, OneInside, Holds, TagAtWork, ReallocAtWork,
              PointersApart
<1>7. Asked
  BY <1>2 DEF Asked
<1> QED
  BY <1>1, <1>3, <1>4, <1>5, <1>6, <1>7 DEF HeapSound

(* A longer list of regions is spaced only if it was before.               *)
LEMMA RegionAdded ==
    ASSUME PoolIInv, page_layout_scan
    PROVE  WellSpaced' => WellSpaced
<1>1. page_freelist \in Seq([addr : Nat, size : Nat])
  BY DEF PoolIInv, PoolTypeOK
<1>2. CASE page_freelist' = page_freelist
  BY <1>2 DEF WellSpaced
<1>3. CASE \E e \in [addr : Nat, size : Nat] : page_freelist' = Append(page_freelist, e)
  <2>1. /\ Len(page_freelist) \in Nat
        /\ Len(page_freelist') = Len(page_freelist) + 1
        /\ \A i \in 1 .. Len(page_freelist) : page_freelist'[i] = page_freelist[i]
    BY <1>1, <1>3, AppendProperties
  <2>2. ASSUME NEW i \in 1 .. Len(page_freelist) - 1
        PROVE  /\ i \in 1 .. Len(page_freelist') - 1
               /\ page_freelist'[i] = page_freelist[i]
               /\ page_freelist'[i + 1] = page_freelist[i + 1]
    <3>1. i \in 1 .. Len(page_freelist) /\ i + 1 \in 1 .. Len(page_freelist)
      BY <2>1
    <3> QED
      BY <2>1, <3>1
  <2> QED
    BY <2>2 DEF WellSpaced
<1>4. ASSUME e820[cursor].type = E820_USABLE
      PROVE  \E e \in [addr : Nat, size : Nat] : page_freelist' = Append(page_freelist, e)
  <2>1. cursor \in 1 .. Len(e820) /\ e820[cursor] \in E820Entry
    BY LenProperties DEF page_layout_scan, PoolIInv, PoolTypeOK
  <2>2. [addr |-> e820[cursor].addr, size |-> e820[cursor].size]
            \in [addr : Nat, size : Nat]
    BY <2>1 DEF E820Entry
  <2> QED
    BY <1>4, <2>2 DEF page_layout_scan
<1> QED
  BY <1>2, <1>3, <1>4 DEF page_layout_scan

(* The sizes asked for are in Sizes, whatever the memory map.              *)
LEMMA AskedStep == Asked /\ [HeapNext]_vars => Asked'
<1> SUFFICES ASSUME Asked, [HeapNext]_vars PROVE Asked'
  OBVIOUS
<1> USE DEF Asked
<1>1. CASE boot \/ panicked \/ UNCHANGED vars
  BY <1>1 DEF boot, panicked, vars, heapVars, localVars
<1>2. ASSUME NEW c \in Callers, call(c)
      PROVE  Asked'
  BY <1>2 DEF call, malloc, free, realloc, realloc_malloc, realloc_free,
              begin_search, begin_free
<1>3. ASSUME NEW c \in Callers, locked(c)
      PROVE  Asked'
  <2>1. CASE malloc_next(c)
    BY <2>1 DEF malloc_next
  <2>2. CASE malloc_take(c)
    BY <2>2 DEF malloc_take, give
  <2>3. CASE malloc_new(c)
    BY <2>3 DEF malloc_new, give
  <2>4. CASE malloc_panic(c)
    BY <2>4 DEF malloc_panic, heapVars, localVars
  <2>5. CASE free_melt_left(c) \/ free_absorb_right(c)
    BY <2>5 DEF free_melt_left, free_absorb_right, localVars
  <2>6. CASE free_drop(c) \/ free_insert(c)
    BY <2>6 DEF free_drop, free_insert, liballoc_unlock
  <2> QED
    BY <1>3, <2>1, <2>2, <2>3, <2>4, <2>5, <2>6 DEF locked
<1> QED
  BY <1>1, <1>2, <1>3 DEF HeapNext

(* Every step of the heap keeps the invariant.                             *)
LEMMA HeapStepInv == HeapIInv /\ [HeapNext]_vars => HeapIInv'
<1> SUFFICES ASSUME HeapIInv, [HeapNext]_vars PROVE HeapIInv'
  OBVIOUS
<1>1. PoolIInv
  BY DEF HeapIInv
<1>2. Asked'
  BY AskedStep DEF HeapIInv
<1>3. ASSUME UNCHANGED poolVars
      PROVE  PoolIInv' /\ (WellSpaced' => WellSpaced)
  BY <1>1, <1>3, PoolStutterInv DEF poolVars, WellSpaced
<1>4. WellSpaced => HeapSound
  BY DEF HeapIInv
<1>5. PoolIInv' /\ WellSpaced' => ApartBelowTop'
  BY PoolApartNext
<1>6. CASE boot
  <2>1. page_layout /\ UNCHANGED heapVars
    BY <1>6 DEF boot
  <2>2. PoolIInv'
    BY <1>1, <2>1, PoolLayoutInv
  <2>3. HeapTop' = HeapTop /\ page_blocks' = page_blocks
    BY <2>1 DEF page_layout, page_layout_scan, page_layout_scanned,
                page_layout_skip, page_layout_located, HeapTop, layoutVars
  <2>4. WellSpaced' => WellSpaced
    <3>1. CASE page_layout_scan
      BY <1>1, <3>1, RegionAdded
    <3>2. CASE page_freelist' = page_freelist
      BY <3>2 DEF WellSpaced
    <3> QED
      BY <2>1, <3>1, <3>2
      DEF page_layout, page_layout_scanned, page_layout_skip,
                              page_layout_located, layoutVars
  <2> QED
    BY <1>2, <1>4, <2>1, <2>2, <2>3, <2>4, HeapAlone DEF HeapIInv
<1>7. ASSUME NEW c \in Callers, NEW n \in Sizes, malloc(c, n)
      PROVE  HeapIInv'
  <2>1. UNCHANGED poolVars /\ begin_search(c, n) /\ pc[c] = "idle"
    BY <1>7 DEF malloc, begin_search
  <2>2. HeapSound => HeapSound'
    BY <2>1, SearchSound
  <2> QED
    BY <1>2, <1>3, <1>4, <2>1, <2>2 DEF HeapIInv
<1>8. ASSUME NEW c \in Callers, NEW p \in live, free(c, p)
      PROVE  HeapIInv'
  <2>1. UNCHANGED poolVars /\ begin_free(c, p) /\ Freeable(p)
    BY <1>8 DEF free, begin_free
  <2> QED
    BY <1>2, <1>3, <1>4, <2>1, BeginFreeSound DEF HeapIInv, Freeable
<1>9. ASSUME NEW c \in Callers, NEW p \in live, NEW n \in Sizes, realloc(c, p, n)
      PROVE  HeapIInv'
  <2>1. UNCHANGED poolVars
    BY <1>9 DEF realloc
  <2> QED
    BY <1>2, <1>3, <1>4, <1>9, <2>1, ReallocSound DEF HeapIInv
<1>10. ASSUME NEW c \in Callers, realloc_malloc(c)
      PROVE  HeapIInv'
  <2>1. UNCHANGED poolVars /\ begin_search(c, want[c]) /\ pc[c] = "re_malloc"
    BY <1>10 DEF realloc_malloc, begin_search
  <2>2. HeapSound => want[c] \in Sizes
    BY <2>1 DEF HeapSound, ReallocAtWork
  <2> QED
    BY <1>2, <1>3, <1>4, <2>1, <2>2, SearchSound DEF HeapIInv
<1>11. ASSUME NEW c \in Callers, realloc_free(c)
       PROVE  HeapIInv'
  <2>1. UNCHANGED poolVars /\ begin_free(c, old[c]) /\ pc[c] = "re_copy"
    BY <1>11 DEF realloc_free, begin_free
  <2>2. ASSUME HeapSound
        PROVE  /\ old[c] \in live
               /\ \A d \in Callers : d # c =>
                      /\ old[d] # old[c]
                      /\ pc[d] = "re_copy" => tag[d] # old[c] - HDR
    <3>1. old[c] # NULL /\ old[c] \in live
      BY <2>1, <2>2 DEF HeapSound, ReallocAtWork
    <3>2. ASSUME NEW d \in Callers, d # c, pc[d] = "re_copy"
          PROVE  tag[d] # old[c] - HDR
      <4>1. old[c] # tag[d] + HDR
        BY <2>2, <3>2 DEF HeapSound, PointersApart
      <4>2. tag[d] \in Nat /\ old[c] \in Nat /\ HDR \in Nat
        BY <2>2, <3>1, <3>2, SoundFacts DEF HeapSound, TagAtWork
      <4> QED
        BY <4>1, <4>2
    <3>3. \A d \in Callers : d # c => old[d] # old[c]
      BY <2>2, <3>1 DEF HeapSound, PointersApart
    <3> QED
      BY <3>1, <3>2, <3>3
  <2> QED
    BY <1>2, <1>3, <1>4, <2>1, <2>2, BeginFreeSound DEF HeapIInv
<1>12. ASSUME NEW c \in Callers, malloc_next(c)
       PROVE  HeapIInv'
  <2>1. UNCHANGED poolVars
    BY <1>12 DEF malloc_next
  <2> QED
    BY <1>2, <1>3, <1>4, <1>12, <2>1, NextSound DEF HeapIInv
<1>13. ASSUME NEW c \in Callers, malloc_take(c)
       PROVE  HeapIInv'
  <2>1. UNCHANGED poolVars
    BY <1>13 DEF malloc_take
  <2> QED
    BY <1>2, <1>1, <1>3, <1>4, <1>13, <2>1, TakeSound DEF HeapIInv
<1>14. ASSUME NEW c \in Callers, malloc_new(c)
       PROVE  HeapIInv'
  <2>1. page_alloc(PagesFor(want[c])) /\ pc[c] = "search"
    BY <1>14 DEF malloc_new
  <2>2. WellSpaced' => WellSpaced
    BY <2>1
    DEF page_alloc, page_alloc_here, page_alloc_move, layoutVars, WellSpaced
  <2>3. PoolIInv'
    <3>1. PagesFor(want[c]) \in 1 .. MaxPages
      BY <2>1, ChunkHasRoom DEF HeapIInv, Asked
    <3> QED
      BY <1>1, <2>1, <3>1, PageAllocInv
  <2> QED
    BY <1>2, <1>1, <1>4, <1>5, <1>14, <2>2, <2>3, NewSound DEF HeapIInv
<1>15. ASSUME NEW c \in Callers, malloc_panic(c)
       PROVE  HeapIInv'
  <2>1. page_alloc_panic /\ UNCHANGED heapVars
    BY <1>15 DEF malloc_panic
  <2>2. PoolIInv'
    BY <1>1, <2>1, PagePanicInv
  <2>3. /\ HeapTop' = HeapTop /\ page_blocks' = page_blocks
        /\ WellSpaced' => WellSpaced
    BY <2>1 DEF page_alloc_panic, HeapTop, layoutVars, WellSpaced
  <2> QED
    BY <1>2, <1>4, <2>1, <2>2, <2>3, HeapAlone DEF HeapIInv
<1>16. ASSUME NEW c \in Callers, free_melt_left(c)
       PROVE  HeapIInv'
  <2>1. UNCHANGED poolVars
    BY <1>16 DEF free_melt_left
  <2> QED
    BY <1>2, <1>1, <1>3, <1>4, <1>16, <2>1, MeltSound DEF HeapIInv
<1>17. ASSUME NEW c \in Callers, free_absorb_right(c)
       PROVE  HeapIInv'
  <2>1. UNCHANGED poolVars
    BY <1>17 DEF free_absorb_right
  <2> QED
    BY <1>2, <1>1, <1>3, <1>4, <1>17, <2>1, AbsorbSound DEF HeapIInv
<1>18. ASSUME NEW c \in Callers, free_drop(c)
       PROVE  HeapIInv'
  <2>1. UNCHANGED poolVars
    BY <1>18 DEF free_drop
  <2> QED
    BY <1>2, <1>1, <1>3, <1>4, <1>18, <2>1, DropSound DEF HeapIInv
<1>19. ASSUME NEW c \in Callers, free_insert(c)
       PROVE  HeapIInv'
  <2>1. UNCHANGED poolVars
    BY <1>19 DEF free_insert
  <2> QED
    BY <1>2, <1>1, <1>3, <1>4, <1>19, <2>1, InsertSound DEF HeapIInv
<1>20. CASE panicked \/ UNCHANGED vars
  <2>1. UNCHANGED poolVars /\ UNCHANGED heapVars
    BY <1>20 DEF panicked, panic_spin, vars
  <2>2. HeapTop' = HeapTop /\ page_blocks' = page_blocks
    BY <2>1 DEF poolVars, HeapTop
  <2> QED
    BY <1>2, <1>3, <1>4, <2>1, <2>2, HeapAlone DEF HeapIInv
<1> QED
  BY <1>6, <1>7, <1>8, <1>9, <1>10, <1>11, <1>12, <1>13, <1>14, <1>15, <1>16,
     <1>17, <1>18, <1>19, <1>20
  DEF HeapNext, call, locked

(* The invariant holds in every state malloc, realloc and free get to.     *)
THEOREM HeapInvariant == HeapSpec => []HeapIInv
BY HeapInitSound, HeapStepInv, PTL DEF HeapSpec

-----------------------------------------------------------------------------
(* The heap's variables stay within their types: no link leads out of the  *)
(* tags there are (malloc, realloc, free).                                 *)
THEOREM HeapTypes == HeapSpec => [](WellSpaced => HeapTypeOK)
<1>1. HeapIInv => (WellSpaced => HeapTypeOK)
  <2> SUFFICES ASSUME HeapSound PROVE HeapTypeOK
    BY DEF HeapIInv
  <2>1. BlocksOver(chain, Tags, HeapTop) /\ ListsOver(bins, Tags)
    BY SoundFacts
  <2>2. l_completePages \in [Bins -> Int]
    BY DEF HeapSound, Consistent, Counted
  <2> QED
    BY <2>1, <2>2 DEF HeapTypeOK, HeapSound, LocalsTyped, BlocksOver, ListsOver
<1> QED
  BY <1>1, HeapInvariant, PTL

(* No two blocks of the heap share a byte, for every mix of sizes that are *)
(* cut, joined and given back (split_tag, melt_left, absorb_right).        *)
THEOREM BlocksNeverOverlap == HeapSpec => []TagsApart
<1>1. HeapIInv => TagsApart
  <2> SUFFICES ASSUME HeapSound PROVE \A s, t \in Tags : s < t => EndOfTag(s) <= t
    BY DEF HeapIInv, TagsApart
  <2>1. BlocksOver(chain, Tags, HeapTop)
    BY SoundFacts
  <2> QED
    BY <2>1 DEF BlocksOver, EndOfTag
<1> QED
  BY <1>1, HeapInvariant, PTL

(* The boundary tags of every chunk tile it (split_tag, melt_left,         *)
(* absorb_right, allocate_new_tag).                                        *)
THEOREM ChunksTiled == HeapSpec => [](WellSpaced => TagsTileChunks)
<1>1. HeapIInv => (WellSpaced => TagsTileChunks)
  <2> SUFFICES ASSUME HeapSound PROVE TagsTileChunks
    BY DEF HeapIInv
  <2>1. BlocksOver(chain, Tags, HeapTop)
    BY SoundFacts
  <2>2. InChunks(chain, Tags, page_blocks)
    BY DEF HeapSound, Consistent
  <2> QED
    BY <2>1, <2>2 DEF BlocksOver, InChunks, TagsTileChunks, EndOfTag
<1> QED
  BY <1>1, HeapInvariant, PTL

(* A caller's block keeps its tag, is in no free list and has room for the *)
(* size it asked for (malloc, free).                                       *)
THEOREM OwnedBlocksIntact == HeapSpec => [](WellSpaced => LiveBlocksIntact)
<1>1. HeapIInv => (WellSpaced => LiveBlocksIntact)
  BY DEF HeapIInv, HeapSound
<1> QED
  BY <1>1, HeapInvariant, PTL

(* The bins stay doubly linked lists (insert_tag, remove_tag).             *)
THEOREM FreeListsLinked == HeapSpec => [](WellSpaced => FreeListsSound)
<1>1. HeapIInv => (WellSpaced => FreeListsSound)
  <2> SUFFICES ASSUME HeapSound PROVE ListsSound(bins)
    BY DEF HeapIInv, FreeListsSound
  <2>1. ListsOver(bins, Tags)
    BY SoundFacts
  <2> QED
    BY <2>1 DEF ListsOver
<1> QED
  BY <1>1, HeapInvariant, PTL

(* A free block is in the bin malloc would look for it in (split_tag,      *)
(* free, getexp).                                                          *)
THEOREM FreeBlocksFound == HeapSpec => [](WellSpaced => FreeBlocksInTheirBin)
<1>1. HeapIInv => (WellSpaced => FreeBlocksInTheirBin)
  <2> SUFFICES ASSUME HeapSound PROVE FreeBlocksInTheirBin
    BY DEF HeapIInv
  <2>1. BinsFit(chain, bins, Tags)
    BY DEF HeapSound, Consistent
  <2> QED
    BY <2>1 DEF BinsFit, BinIs, FreeBlocksInTheirBin
<1> QED
  BY <1>1, HeapInvariant, PTL

(* Two neighbours are never both free (free's two loops, malloc's rest).   *)
THEOREM NoFreeNeighbours == HeapSpec => [](WellSpaced => FreeBlocksMerged)
<1>1. HeapIInv => (WellSpaced => FreeBlocksMerged)
  <2> SUFFICES ASSUME HeapSound PROVE FreeBlocksMerged
    BY DEF HeapIInv
  <2>1. Merged(chain, bins, Tags) /\ NULL \notin Tags
    BY SoundFacts DEF HeapSound, Consistent
  <2> QED
    BY <2>1 DEF Merged, FreeBlocksMerged
<1> QED
  BY <1>1, HeapInvariant, PTL

(* l_completePages is the number of whole free chunks of each bin, however *)
(* malloc and free change it.                                              *)
THEOREM CountsKept == HeapSpec => [](WellSpaced => CompletePagesCounted)
<1>1. HeapIInv => (WellSpaced => CompletePagesCounted)
  <2> SUFFICES ASSUME HeapSound PROVE CompletePagesCounted
    BY DEF HeapIInv
  <2>1. Counted(chain, bins, Tags, l_completePages)
    BY DEF HeapSound, Consistent
  <2> QED
    BY <2>1 DEF Counted, WholeFree, CompletePagesCounted
<1> QED
  BY <1>1, HeapInvariant, PTL

(* realloc's copy stays within both blocks, which the caller still owns,   *)
(* though other processors malloc and free between its two locks.          *)
THEOREM ReallocSafe == HeapSpec => [](WellSpaced => ReallocCopyInBounds)
<1>1. HeapIInv => (WellSpaced => ReallocCopyInBounds)
  <2> SUFFICES ASSUME HeapSound, NEW c \in Callers, pc[c] = "re_copy"
               PROVE  /\ {tag[c] + HDR, old[c]} \subseteq live
                      /\ tag[c] # old[c] - HDR
                      /\ HDR + real_size[c] <= chain.real_size[old[c] - HDR]
                      /\ HDR + real_size[c] <= chain.real_size[tag[c]]
    BY DEF HeapIInv, ReallocCopyInBounds
  <2>1. /\ tag[c] \in Tags /\ tag[c] + HDR \in live /\ size[tag[c]] = want[c]
        /\ old[c] # NULL /\ old[c] \in live
        /\ real_size[c] <= size[old[c] - HDR] /\ real_size[c] <= want[c]
        /\ old[c] # tag[c] + HDR
    BY DEF HeapSound, TagAtWork, ReallocAtWork, PointersApart
  <2>2. /\ Tags \subseteq Nat /\ live \subseteq Nat /\ HDR \in Nat
        /\ chain.real_size \in [Tags -> Nat] /\ size \in [Tags -> Nat]
        /\ real_size[c] \in Nat
        /\ \A p \in live : /\ p - HDR \in Tags
                           /\ HDR + size[p - HDR] <= chain.real_size[p - HDR]
    BY SoundFacts DEF HeapSound, LocalsTyped
  <2>3. tag[c] # old[c] - HDR
    <3>1. tag[c] \in Nat /\ old[c] \in Nat
      BY <2>1, <2>2
    <3> QED
      BY <2>1, <2>2, <3>1
  <2>4. HDR + real_size[c] <= chain.real_size[old[c] - HDR]
    <3>1. /\ size[old[c] - HDR] \in Nat /\ chain.real_size[old[c] - HDR] \in Nat
          /\ HDR + size[old[c] - HDR] <= chain.real_size[old[c] - HDR]
      BY <2>1, <2>2
    <3> QED
      BY <2>1, <2>2, <3>1
  <2>5. HDR + real_size[c] <= chain.real_size[tag[c]]
    <3>1. (tag[c] + HDR) - HDR = tag[c]
      <4>1. tag[c] \in Nat /\ HDR \in Nat
        BY <2>1, <2>2
      <4> QED
        BY <4>1
    <3>2. /\ size[tag[c]] \in Nat /\ chain.real_size[tag[c]] \in Nat
          /\ HDR + size[tag[c]] <= chain.real_size[tag[c]]
      BY <2>1, <2>2, <3>1
    <3> QED
      BY <2>1, <2>2, <3>2
  <2> QED
    BY <2>1, <2>3, <2>4, <2>5
<1> QED
  BY <1>1, HeapInvariant, PTL

-----------------------------------------------------------------------------
(* A step of the heap gives one block, takes one back, or neither.         *)
LEMMA HeapStepBlocks ==
    ASSUME HeapIInv, WellSpaced, HeapNext
    PROVE  \/ BlocksKept
           \/ BlockAdded
           \/ \E p \in live : live' = live \ {p} /\ size' = size
<1>1. PoolIInv /\ HeapSound /\ HeapIInv'
  BY HeapStepInv DEF HeapIInv
<1>2. ASSUME UNCHANGED <<size, live>>
      PROVE  BlocksKept
  BY <1>2 DEF BlocksKept
<1>3. CASE boot \/ panicked
  BY <1>2, <1>3 DEF boot, panicked, heapVars, tagVars
<1>4. ASSUME NEW c \in Callers, call(c)
      PROVE  BlocksKept \/ \E p \in live : live' = live \ {p} /\ size' = size
  <2>1. ASSUME NEW n, begin_search(c, n)
        PROVE  BlocksKept
    BY <1>2, <2>1 DEF begin_search, tagVars
  <2>2. ASSUME NEW p \in live, begin_free(c, p)
        PROVE  \E q \in live : live' = live \ {q} /\ size' = size
    BY <2>2 DEF begin_free, tagVars
  <2>3. realloc_free(c) => old[c] \in live
    BY <1>1 DEF realloc_free, HeapSound, ReallocAtWork
  <2>4. ASSUME NEW p, NEW n, realloc(c, p, n)
        PROVE  BlocksKept
    BY <1>2, <2>4 DEF realloc, tagVars
  <2> QED
    BY <1>4, <2>1, <2>2, <2>3, <2>4
    DEF call, malloc, free, realloc_malloc, realloc_free
<1>5. ASSUME NEW c \in Callers, locked(c)
      PROVE  BlocksKept \/ BlockAdded
  <2>1. CASE malloc_next(c) \/ malloc_panic(c)
    BY <1>2, <2>1 DEF malloc_next, malloc_panic, heapVars, tagVars
  <2>2. CASE malloc_take(c)
    BY <1>1, <2>2, TakeSound
  <2>3. CASE malloc_new(c)
    <3>1. WellSpaced'
      BY <2>3 DEF malloc_new, page_alloc, page_alloc_here, page_alloc_move,
                  layoutVars, WellSpaced
    <3>2. ApartBelowTop'
      BY <1>1, <3>1, PoolApartNext DEF HeapIInv
    <3> QED
      BY <1>1, <2>3, <3>2, NewSound
  <2>4. CASE free_melt_left(c)
    BY <1>1, <2>4, MeltSound
  <2>5. CASE free_absorb_right(c)
    BY <1>1, <2>5, AbsorbSound
  <2>6. CASE free_drop(c)
    BY <1>1, <2>6, DropSound
  <2>7. CASE free_insert(c)
    BY <1>1, <2>7, InsertSound
  <2> QED
    BY <1>5, <2>1, <2>2, <2>3, <2>4, <2>5, <2>6, <2>7 DEF locked
<1> QED
  BY <1>3, <1>4, <1>5 DEF HeapNext

(* What malloc gives shares no byte with a block that is in use.           *)
LEMMA AddedAllocates ==
    ASSUME HeapSound, HeapSound', BlockAdded
    PROVE  A!Allocate
<1>1. PICK t \in Tags' : t + HDR \notin live /\ live' = live \cup {t + HDR}
  BY DEF BlockAdded
<1> DEFINE q == t + HDR
           b == [ptr |-> q, len |-> size'[q - HDR]]
<1>2. /\ Tags' \subseteq Nat /\ HDR \in Nat /\ HDR > 0
      /\ live' \subseteq Nat
      /\ size' \in [Tags' -> Nat]
      /\ chain'.real_size \in [Tags' -> Nat]
      /\ \A p \in live' : /\ p - HDR \in Tags'
                          /\ HDR + size'[p - HDR] <= chain'.real_size[p - HDR]
      /\ \A x, y \in Tags' : x < y => x + chain'.real_size[x] <= y
  BY HeapAssumption
  DEF HeapSound, Consistent, BlocksOver, ChainType, LocalsTyped,
     LiveBlocksIntact
<1>3. q - HDR = t /\ q \in Nat \ {0} /\ t \in Nat
  <2>1. t \in Nat /\ HDR \in Nat /\ HDR > 0
    BY <1>2
  <2> QED
    BY <2>1
<1>4. Blocks' = Blocks \cup {b}
  <2>1. \A p \in live : size'[p - HDR] = size[p - HDR]
    BY DEF BlockAdded
  <2> HIDE DEF q
  <2>2. live' = live \cup {q}
    BY <1>1 DEF q
  <2> QED
    BY <2>1, <2>2 DEF Blocks
<1>5. b \in [ptr : Nat \ {0}, len : Nat]
  BY <1>2, <1>3
<1>6. ASSUME NEW a \in Blocks
      PROVE  a.ptr # b.ptr /\ (a.ptr + a.len <= b.ptr \/ b.ptr + b.len <= a.ptr)
  <2>1. PICK p \in live : a = [ptr |-> p, len |-> size[p - HDR]]
    BY DEF Blocks
  <2> DEFINE x == p - HDR
             A1 == size'[x]
             R1 == chain'.real_size[x]
             A2 == size'[t]
             R2 == chain'.real_size[t]
  <2>2. /\ a.ptr = p /\ a.len = A1 /\ b.ptr = q /\ b.len = A2
    BY <1>3, <2>1 DEF BlockAdded
  <2>3. p \in live' /\ q \in live' /\ p # q
    BY <1>1
  <2>4. /\ x \in Tags' /\ HDR + A1 <= R1
        /\ HDR + A2 <= R2
        /\ A1 \in Nat /\ R1 \in Nat /\ A2 \in Nat /\ R2 \in Nat
    BY <1>2, <1>3, <2>3
  <2>5. x < t => x + R1 <= t
    BY <1>2, <2>4
  <2>6. t < x => t + R2 <= x
    BY <1>2, <2>4
  <2>7. p \in Nat /\ x \in Nat /\ p = x + HDR /\ q = t + HDR /\ HDR \in Nat
    <3>1. p \in Nat /\ x \in Nat /\ HDR \in Nat
      BY <1>2, <2>3, <2>4
    <3> QED
      BY <3>1
  <2> HIDE DEF x, A1, R1, A2, R2, q
  <2>8. x < t \/ t < x
    BY <1>3, <2>3, <2>7
  <2>9. p + A1 <= q \/ q + A2 <= p
    BY <1>2, <1>3, <2>4, <2>5, <2>6, <2>7, <2>8
  <2> QED
    BY <2>2, <2>3, <2>9
<1>7. b \notin Blocks
  BY <1>6
<1> HIDE DEF b
<1> QED
  BY <1>4, <1>5, <1>6, <1>7 DEF A!Allocate, A!Block, A!Apart

(* Every step of the heap is a step of the allocator, or none.             *)
LEMMA HeapStepRefines ==
    ASSUME HeapIInv, WellSpaced, HeapIInv', WellSpaced', [HeapNext]_vars
    PROVE  [A!Next]_Blocks
<1>1. HeapSound /\ HeapSound'
  BY DEF HeapIInv
<1>2. CASE UNCHANGED vars
  BY <1>2 DEF Blocks, vars, heapVars, tagVars
<1>3. CASE BlocksKept
  BY <1>3 DEF Blocks, BlocksKept
<1>4. CASE BlockAdded
  BY <1>1, <1>4, AddedAllocates DEF A!Next
<1>5. ASSUME NEW p \in live, live' = live \ {p}, size' = size
      PROVE  A!Free
  <2> DEFINE b == [ptr |-> p, len |-> size[p - HDR]]
  <2>1. b \in Blocks
    BY DEF Blocks
  <2>2. Blocks' = Blocks \ {b}
    BY <1>5 DEF Blocks
  <2> QED
    BY <2>1, <2>2 DEF A!Free
<1> QED
  BY <1>2, <1>3, <1>4, <1>5, HeapStepBlocks DEF A!Next

(* The heap implements the abstract allocator where the memory map's       *)
(* regions are spaced, for every number of processors, every set of sizes  *)
(* and every choice of bins (malloc, realloc, free).                       *)
THEOREM HeapRefines == HeapSpec /\ []WellSpaced => AllocatorSpec
<1>1. HeapInit => A!Init
  BY DEF HeapInit, Blocks, A!Init
<1>2. HeapIInv /\ WellSpaced /\ HeapIInv' /\ WellSpaced' /\ [HeapNext]_vars =>
          [A!Next]_Blocks
  BY HeapStepRefines
<1> QED
  BY <1>1, <1>2, HeapInvariant, PTL DEF HeapSpec, AllocatorSpec, A!Spec
=============================================================================

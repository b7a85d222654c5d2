--------------------------- MODULE StartupProofs ---------------------------
(***************************************************************************)
(* Proofs about the start of the system.  First InitOrder alone, for any   *)
(* number of files, any ids that put each file in a stage and after what   *)
(* it needs, and any link order: the arrays are sorted, the init functions *)
(* are called once each, after all they need, and the deinit functions in  *)
(* the opposite order.  Then the adapter's bring-up alone (IxgbeLink), for *)
(* any number of queues and descriptors and any time-outs.  Then that      *)
(* Startup, in which init calls the functions, goes through no states but  *)
(* InitOrder's and IxgbeLink's, so that what holds of those holds of it;   *)
(* last that the driver meets its adapters and finds their addresses.      *)
(***************************************************************************)
EXTENDS Startup, FiniteSetTheorems, SequenceTheorems, WellFoundedInduction, TLAPS

(* The orders of the two arrays: f comes after g, or before it.            *)
Later == {e \in Files \X Files : init_cmp(e[1], e[2])}
Earlier == {e \in Files \X Files : init_cmp(e[2], e[1])}

(* Nothing after x, up to upto, should be where x is.                      *)
SortedAt(R, list, x, upto) == \A y \in x + 1 .. upto : <<list[x], list[y]>> \notin R

AllSorted(R, list) == \A x \in 1 .. N : SortedAt(R, list, x, N)

(* init_init's loops at x and y: below x the array is sorted for good, and *)
(* what is at x is the least of what y has passed.                         *)
LoopSorted(R, list, x, y) ==
    /\ x < y /\ (x = N + 1 \/ y <= N + 1)
    /\ \A z \in 1 .. x - 1 : SortedAt(R, list, z, N)
    /\ x <= N => SortedAt(R, list, x, y - 1)

SortLoop ==
    /\ stage = "sort" => LoopSorted(Later, init_func, p, q)
    /\ stage = "resort" => LoopSorted(Earlier, deinit_func, p, q)

Sorted ==
    /\ stage # "sort" => AllSorted(Later, init_func)
    /\ stage \notin {"sort", "resort"} => AllSorted(Earlier, deinit_func)

(* The init function of f is called before that of g.                      *)
Before(f, g) ==
    \E j, k \in Stages :
        /\ Matches(f, init_list[j]) /\ Matches(g, init_list[k])
        /\ j < k \/ (j = k /\ init_cmp(g, f))

(* The files init_scan has called: all of the stages before, and of this   *)
(* stage those below p.                                                    *)
Passed(f) ==
    \E k \in Stages :
        /\ Matches(f, init_list[k])
        /\ k < i \/ (k = i /\ \E x \in 1 .. p - 1 : init_func[x] = f)

IsCalled(f) == \E k \in 1 .. Len(called) : called[k] = f

ScanLoop ==
    /\ stage \in {"sort", "resort"} => called = <<>> /\ i = 1
    /\ stage = "init" => i >= 1 /\ \A f \in Files : IsCalled(f) <=> Passed(f)
    /\ stage \in {"main", "deinit", "stopped"} => \A f \in Files : IsCalled(f)

CalledOnce ==
    \A j, k \in 1 .. Len(called) : called[j] = called[k] => j = k

CalledInOrder ==
    \A j, k \in 1 .. Len(called) : j < k => Before(called[j], called[k])

NeedsCalled ==
    \A k \in 1 .. Len(called) : \A g \in Needs[called[k]] :
        \E j \in 1 .. k - 1 : called[j] = g

(* How many deinit functions the way back calls for the NULL at the end of *)
(* init_list, before it goes through the stages.                           *)
Base == IF empty_string THEN N ELSE 0

(* The files whose deinit functions the way back has called since: all of  *)
(* the stages after, and of this stage those below p.                      *)
PassedBack(f) ==
    \E k \in Stages :
        /\ Matches(f, init_list[k])
        /\ k > i \/ (k = i /\ \E x \in 1 .. p - 1 : deinit_func[x] = f)

IsUndone(f) == \E k \in Base + 1 .. Len(undone) : undone[k] = f

BackLoop ==
    /\ stage \notin {"deinit", "stopped"} => undone = <<>>
    /\ stage = "main" => i = Len(init_list) + 1
    /\ stage = "stopped" => i = 0
    /\ stage = "deinit" /\ i > Len(init_list) =>
           Len(undone) = IF empty_string THEN p - 1 ELSE 0
    /\ stage \in {"deinit", "stopped"} /\ i <= Len(init_list) =>
           /\ Base <= Len(undone)
           /\ \A f \in Files : IsUndone(f) <=> PassedBack(f)

(* Each before those called earlier.                                       *)
UndoneInOrder ==
    \A j, k \in Base + 1 .. Len(undone) : j < k => Before(undone[k], undone[j])

(* The inductive invariant.                                                *)
InitIInv ==
    /\ InitTypeOK /\ SortLoop /\ Sorted
    /\ ScanLoop /\ CalledOnce /\ NeedsCalled /\ CalledInOrder
    /\ BackLoop /\ UndoneInOrder
-----------------------------------------------------------------------------
(* The number of files is a number.                                        *)
LEMMA NumberOfFiles == N \in Nat
BY RecordsAssumption, FS_CardinalityType DEF N

(* What a bijection is, position by position.                              *)
LEMMA BijectionFacts ==
    ASSUME NEW list
    PROVE  list \in Bijection(1 .. N, Files) <=>
               /\ list \in [1 .. N -> Files]
               /\ \A x, y \in 1 .. N : list[x] = list[y] => x = y
               /\ \A f \in Files : \E x \in 1 .. N : list[x] = f
BY DEF Bijection, Injection, Surjection, IsInjective

(* An exchange keeps every record (init_swap).                             *)
LEMMA SwapKeepsAll ==
    ASSUME NEW list \in Bijection(1 .. N, Files), NEW x \in 1 .. N, NEW y \in 1 .. N
    PROVE  [list EXCEPT ![x] = list[y], ![y] = list[x]] \in Bijection(1 .. N, Files)
<1> DEFINE new == [list EXCEPT ![x] = list[y], ![y] = list[x]]
<1>1. /\ list \in [1 .. N -> Files]
      /\ \A a, b \in 1 .. N : list[a] = list[b] => a = b
      /\ \A f \in Files : \E a \in 1 .. N : list[a] = f
  BY BijectionFacts
<1>2. new \in [1 .. N -> Files]
  BY <1>1
<1>3. \A a \in 1 .. N : new[a] = IF a = y THEN list[x] ELSE IF a = x THEN list[y] ELSE list[a]
  BY <1>1
<1>4. \A a, b \in 1 .. N : new[a] = new[b] => a = b
  BY <1>1, <1>3
<1>5. ASSUME NEW f \in Files PROVE \E a \in 1 .. N : new[a] = f
  <2>1. PICK a \in 1 .. N : list[a] = f
    BY <1>1
  <2> QED
    BY <1>3, <2>1
<1> HIDE DEF new
<1>6. new \in Bijection(1 .. N, Files)
  BY <1>2, <1>4, <1>5, BijectionFacts
<1> QED
  BY <1>6 DEF new

(* The ids' order.                                                         *)
LEMMA CmpOrders ==
    ASSUME NEW f \in Files, NEW g \in Files, NEW h \in Files
    PROVE  /\ f # g => init_cmp(f, g) \/ init_cmp(g, f)
           /\ ~(init_cmp(f, g) /\ init_cmp(g, f))
           /\ init_cmp(f, g) /\ init_cmp(g, h) => init_cmp(f, h)
BY RecordsAssumption

-----------------------------------------------------------------------------
(* Every step keeps the types.                                             *)
LEMMA TypesKept == InitTypeOK /\ [InitNext]_initVars => InitTypeOK'
<1> SUFFICES ASSUME InitTypeOK, [InitNext]_initVars PROVE InitTypeOK'
  OBVIOUS
<1>1. N \in Nat /\ Len(init_list) \in Nat /\ Stages = 1 .. Len(init_list)
  BY NumberOfFiles, StagesAssumption DEF Stages
<1> USE DEF InitTypeOK, arrays, history
<1>2. CASE init_init_pair
  <2>1. init_func' \in Bijection(1 .. N, Files)
    <3>1. p \in 1 .. N /\ q \in 1 .. N
      BY <1>1, <1>2 DEF init_init_pair
    <3>2. init_swap(init_func) \in Bijection(1 .. N, Files)
      BY <3>1, SwapKeepsAll DEF init_swap
    <3> QED
      BY <1>2, <3>2 DEF init_init_pair
  <2>2. q' \in 1 .. N + 2
    BY <1>1, <1>2 DEF init_init_pair
  <2> QED
    BY <1>2, <2>1, <2>2 DEF init_init_pair
<1>3. CASE init_deinit_pair
  <2>1. deinit_func' \in Bijection(1 .. N, Files)
    <3>1. p \in 1 .. N /\ q \in 1 .. N
      BY <1>1, <1>3 DEF init_deinit_pair
    <3>2. init_swap(deinit_func) \in Bijection(1 .. N, Files)
      BY <3>1, SwapKeepsAll DEF init_swap
    <3> QED
      BY <1>3, <3>2 DEF init_deinit_pair
  <2>2. q' \in 1 .. N + 2
    BY <1>1, <1>3 DEF init_deinit_pair
  <2> QED
    BY <1>3, <2>1, <2>2 DEF init_deinit_pair
<1>4. CASE init_init_next
  <2>1. p' \in 1 .. N + 1 /\ q' \in 1 .. N + 2
    BY <1>1, <1>4 DEF init_init_next
  <2> QED
    BY <1>4, <2>1 DEF init_init_next
<1>5. CASE init_init_end
  <2>1. p' \in 1 .. N + 1 /\ q' \in 1 .. N + 2
    BY <1>1, <1>5 DEF init_init_end
  <2> QED
    BY <1>5, <2>1 DEF init_init_end
<1>6. CASE init_call
  <2>1. p \in 1 .. N /\ p' = p + 1
    BY <1>1, <1>6 DEF init_call
  <2>2. init_func \in [1 .. N -> Files]
    BY BijectionFacts
  <2>3. p' \in 1 .. N + 1 /\ init_func[p] \in Files
    BY <1>1, <2>1, <2>2
  <2>4. \/ running' = init_func[p] /\ called' = Append(called, init_func[p])
        \/ running' = running /\ called' = called
    BY <1>6 DEF init_call
  <2>5. Append(called, init_func[p]) \in Seq(Files)
    BY <2>3, AppendProperties
  <2> QED
    BY <1>6, <2>3, <2>4, <2>5 DEF init_call
<1>7. CASE init_next_stage
  <2>1. p' \in 1 .. N + 1 /\ i' \in 0 .. Len(init_list) + 1
    BY <1>1, <1>7 DEF init_next_stage
  <2> QED
    BY <1>7, <2>1 DEF init_next_stage
<1>8. CASE init_main \/ init_returns \/ func_returns
  BY <1>8 DEF init_main, init_returns, func_returns
<1>9. CASE main_returns
  <2>1. p' \in 1 .. N + 1
    BY <1>1, <1>9 DEF main_returns
  <2> QED
    BY <1>9, <2>1 DEF main_returns
<1>10. CASE deinit_call
  <2>1. p \in 1 .. N /\ p' = p + 1
    BY <1>1, <1>10 DEF deinit_call
  <2>2. deinit_func \in [1 .. N -> Files]
    BY BijectionFacts
  <2>3. p' \in 1 .. N + 1 /\ deinit_func[p] \in Files
    BY <1>1, <2>1, <2>2
  <2>4. \/ running' = deinit_func[p] /\ undone' = Append(undone, deinit_func[p])
        \/ running' = running /\ undone' = undone
    BY <1>10 DEF deinit_call
  <2>5. Append(undone, deinit_func[p]) \in Seq(Files)
    BY <2>3, AppendProperties
  <2> QED
    BY <1>10, <2>3, <2>4, <2>5 DEF deinit_call
<1>11. CASE deinit_next_stage
  <2>1. p' \in 1 .. N + 1 /\ i' \in 0 .. Len(init_list) + 1
    BY <1>1, <1>11 DEF deinit_next_stage
  <2> QED
    BY <1>11, <2>1 DEF deinit_next_stage
<1>12. CASE UNCHANGED initVars
  BY <1>12 DEF initVars
<1> QED
  BY <1>2, <1>3, <1>4, <1>5, <1>6, <1>7, <1>8, <1>9, <1>10, <1>11, <1>12
     DEF InitNext, InitStep

(* Both orders are transitive.                                             *)
LEMMA OrdersFacts ==
    ASSUME NEW R \in {Later, Earlier}, NEW f \in Files, NEW g \in Files, NEW h \in Files
    PROVE  /\ ~(<<f, g>> \in R /\ <<g, f>> \in R)
           /\ <<f, g>> \in R /\ <<g, h>> \in R => <<f, h>> \in R
BY CmpOrders DEF Later, Earlier

(* An exchange that the order of x and y asks for keeps what was sorted    *)
(* and makes x the least of what y has passed now.                         *)
LEMMA PairSorts ==
    ASSUME NEW R \in {Later, Earlier}, NEW list \in Bijection(1 .. N, Files),
           NEW x \in 1 .. N, NEW y \in 1 .. N, LoopSorted(R, list, x, y),
           NEW new, new = IF <<list[x], list[y]>> \in R
                          THEN [list EXCEPT ![x] = list[y], ![y] = list[x]] ELSE list
    PROVE  LoopSorted(R, new, x, y + 1)
<1>1. N \in Nat /\ x < y
  BY NumberOfFiles DEF LoopSorted
<1>2. list \in [1 .. N -> Files]
  BY BijectionFacts
<1>3. \A z \in 1 .. x - 1 : \A w \in z + 1 .. N : <<list[z], list[w]>> \notin R
  BY DEF LoopSorted, SortedAt
<1>4. \A w \in x + 1 .. y - 1 : <<list[x], list[w]>> \notin R
  BY <1>1 DEF LoopSorted, SortedAt
<1>5. x < y + 1 /\ y + 1 <= N + 1 /\ (y + 1) - 1 = y
  BY <1>1
<1>6. CASE <<list[x], list[y]>> \notin R
  <2>1. new = list
    BY <1>6
  <2>2. \A w \in x + 1 .. y : <<new[x], new[w]>> \notin R
    BY <1>1, <1>4, <1>6, <2>1
  <2> QED
    BY <1>5, <2>1, <2>2 DEF LoopSorted, SortedAt
<1>7. CASE <<list[x], list[y]>> \in R
  <2>1. /\ new[x] = list[y] /\ new[y] = list[x]
        /\ \A z \in 1 .. N : z # x /\ z # y => new[z] = list[z]
    BY <1>1, <1>2, <1>7
  <2>2. ASSUME NEW z \in 1 .. x - 1, NEW w \in z + 1 .. N
        PROVE  <<new[z], new[w]>> \notin R
    <3>1. z \in 1 .. N /\ w \in 1 .. N /\ z # x /\ z # y /\ z < x /\ z < y
      BY <1>1
    <3>2. new[z] = list[z]
      BY <2>1, <3>1
    <3>3. new[w] \in {list[w], list[x], list[y]}
      BY <2>1, <3>1
    <3>4. x \in z + 1 .. N /\ y \in z + 1 .. N
      BY <1>1, <3>1
    <3> QED
      BY <1>3, <3>2, <3>3, <3>4
  <2>3. ASSUME NEW w \in x + 1 .. y PROVE <<new[x], new[w]>> \notin R
    <3>1. w \in 1 .. N /\ list[x] \in Files /\ list[y] \in Files /\ list[w] \in Files
      BY <1>1, <1>2
    <3>2. CASE w = y
      BY <1>7, <2>1, <3>1, <3>2, OrdersFacts
    <3>3. CASE w # y
      <4>1. w \in x + 1 .. y - 1 /\ w # x
        BY <1>1, <3>3
      <4>2. new[w] = list[w] /\ <<list[x], list[w]>> \notin R
        BY <1>4, <2>1, <3>1, <3>3, <4>1
      <4>3. <<list[x], list[y]>> \in R /\ <<list[y], list[w]>> \in R =>
                <<list[x], list[w]>> \in R
        BY <3>1, OrdersFacts
      <4> QED
        BY <1>7, <2>1, <4>2, <4>3
    <3> QED
      BY <3>2, <3>3
  <2> QED
    BY <1>5, <2>2, <2>3 DEF LoopSorted, SortedAt
<1> QED
  BY <1>6, <1>7

(* The loops begin with nothing sorted, go on to the next record when the  *)
(* inner one is through, and end with all of the array sorted.             *)
LEMMA LoopBegins ==
    ASSUME NEW R, NEW list
    PROVE  LoopSorted(R, list, 1, 2)
BY NumberOfFiles DEF LoopSorted, SortedAt

(* See LoopBegins.                                                         *)
LEMMA LoopNext ==
    ASSUME NEW R, NEW list, NEW x \in 1 .. N, NEW y \in 1 .. N + 2, y > N,
           LoopSorted(R, list, x, y)
    PROVE  LoopSorted(R, list, x + 1, x + 2)
<1>1. N \in Nat /\ y = N + 1 /\ y - 1 = N
  BY NumberOfFiles DEF LoopSorted
<1>2. \A z \in 1 .. x : z = x \/ z \in 1 .. x - 1
  BY <1>1
<1>3. SortedAt(R, list, x, N)
  BY <1>1 DEF LoopSorted
<1>4. \A z \in 1 .. (x + 1) - 1 : SortedAt(R, list, z, N)
  BY <1>1, <1>2, <1>3 DEF LoopSorted
<1>5. SortedAt(R, list, x + 1, (x + 2) - 1)
  BY <1>1 DEF SortedAt
<1> QED
  BY <1>1, <1>4, <1>5 DEF LoopSorted

(* See LoopBegins.                                                         *)
LEMMA LoopEnds ==
    ASSUME NEW R, NEW list, NEW x \in 1 .. N + 1, NEW y, x > N,
           LoopSorted(R, list, x, y)
    PROVE  AllSorted(R, list)
BY NumberOfFiles DEF LoopSorted, AllSorted

(* Every step keeps the loops' invariants of the sort.                     *)
LEMMA SortKept ==
    InitTypeOK /\ SortLoop /\ Sorted /\ [InitNext]_initVars => SortLoop' /\ Sorted'
<1> SUFFICES ASSUME InitTypeOK, SortLoop, Sorted, [InitNext]_initVars
             PROVE  SortLoop' /\ Sorted'
  OBVIOUS
<1>1. /\ N \in Nat /\ p \in 1 .. N + 1 /\ q \in 1 .. N + 2
      /\ init_func \in Bijection(1 .. N, Files)
      /\ deinit_func \in Bijection(1 .. N, Files)
  BY NumberOfFiles DEF InitTypeOK
<1>2. Later' = Later /\ Earlier' = Earlier /\ N' = N
  BY DEF Later, Earlier, N
<1>3. ASSUME init_init_pair \/ init_deinit_pair
      PROVE  SortLoop' /\ Sorted'
  <2>1. /\ stage \in {"sort", "resort"} /\ stage' = stage
        /\ p \in 1 .. N /\ q \in 1 .. N /\ p' = p /\ q' = q + 1
    BY <1>1, <1>3 DEF init_init_pair, init_deinit_pair
  <2>2. CASE stage = "sort"
    <3>1. /\ deinit_func' = deinit_func
          /\ init_func' = IF init_cmp(init_func[p], init_func[q])
                          THEN [init_func EXCEPT ![p] = init_func[q],
                                                 ![q] = init_func[p]]
                          ELSE init_func
      BY <1>3, <2>2 DEF init_init_pair, init_deinit_pair, init_swap
    <3>2. init_func[p] \in Files /\ init_func[q] \in Files
      BY <1>1, <2>1, BijectionFacts
    <3>3. <<init_func[p], init_func[q]>> \in Later <=>
              init_cmp(init_func[p], init_func[q])
      BY <3>2 DEF Later
    <3>4. LoopSorted(Later, init_func, p, q)
      BY <2>2 DEF SortLoop
    <3>5. LoopSorted(Later, init_func', p, q + 1)
      BY <1>1, <2>1, <3>1, <3>3, <3>4, PairSorts
    <3> QED
      BY <1>2, <2>1, <2>2, <3>5 DEF SortLoop, Sorted, LoopSorted, SortedAt
  <2>3. CASE stage = "resort"
    <3>1. /\ init_func' = init_func
          /\ deinit_func' = IF init_cmp(deinit_func[q], deinit_func[p])
                            THEN [deinit_func EXCEPT ![p] = deinit_func[q],
                                                     ![q] = deinit_func[p]]
                            ELSE deinit_func
      <4>1. init_deinit_pair
        BY <1>3, <2>3 DEF init_init_pair
      <4>2. init_swap(deinit_func) = [deinit_func EXCEPT ![p] = deinit_func[q],
                                                         ![q] = deinit_func[p]]
        BY DEF init_swap
      <4> QED
        BY <4>1, <4>2 DEF init_deinit_pair
    <3>2. deinit_func[p] \in Files /\ deinit_func[q] \in Files
      BY <1>1, <2>1, BijectionFacts
    <3>3. <<deinit_func[p], deinit_func[q]>> \in Earlier <=>
              init_cmp(deinit_func[q], deinit_func[p])
      BY <3>2 DEF Earlier
    <3>4. LoopSorted(Earlier, deinit_func, p, q)
      BY <2>3 DEF SortLoop
    <3>5. LoopSorted(Earlier, deinit_func', p, q + 1)
      BY <1>1, <2>1, <3>1, <3>3, <3>4, PairSorts
    <3>6. AllSorted(Later, init_func)'
      BY <1>2, <2>3, <3>1 DEF Sorted, AllSorted, SortedAt
    <3> QED
      BY <1>2, <2>1, <2>3, <3>5, <3>6 DEF SortLoop, Sorted, LoopSorted, SortedAt
  <2> QED
    BY <2>1, <2>2, <2>3
<1>4. CASE init_init_next
  <2>1. /\ stage \in {"sort", "resort"} /\ stage' = stage
        /\ p \in 1 .. N /\ q > N /\ p' = p + 1 /\ q' = p + 2
        /\ init_func' = init_func /\ deinit_func' = deinit_func
    BY <1>1, <1>4 DEF init_init_next, arrays
  <2>2. stage = "sort" => LoopSorted(Later, init_func, p + 1, p + 2)
    BY <1>1, <2>1, LoopNext DEF SortLoop
  <2>3. stage = "resort" => LoopSorted(Earlier, deinit_func, p + 1, p + 2)
    BY <1>1, <2>1, LoopNext DEF SortLoop
  <2>4. stage = "resort" => AllSorted(Later, init_func)
    BY DEF Sorted
  <2> QED
    BY <1>2, <2>1, <2>2, <2>3, <2>4
    DEF SortLoop, Sorted, LoopSorted, SortedAt, AllSorted
<1>5. CASE init_init_end
  <2>1. /\ stage \in {"sort", "resort"}
        /\ stage' = IF stage = "sort" THEN "resort" ELSE "init"
        /\ p > N /\ p' = 1 /\ q' = 2
        /\ init_func' = init_func /\ deinit_func' = deinit_func
    BY <1>5 DEF init_init_end, arrays
  <2>2. stage = "sort" => AllSorted(Later, init_func)
    BY <1>1, <2>1, LoopEnds DEF SortLoop
  <2>3. stage = "resort" => AllSorted(Earlier, deinit_func)
    BY <1>1, <2>1, LoopEnds DEF SortLoop
  <2>4. stage = "resort" => AllSorted(Later, init_func)
    BY DEF Sorted
  <2>5. LoopSorted(Earlier, deinit_func, 1, 2)
    BY LoopBegins
  <2> QED
    BY <1>2, <2>1, <2>2, <2>3, <2>4, <2>5
    DEF SortLoop, Sorted, LoopSorted, SortedAt, AllSorted
<1>6. CASE \/ init_call \/ init_next_stage \/ init_main
           \/ main_returns \/ deinit_call \/ deinit_next_stage \/ init_returns
  <2>1. /\ stage \notin {"sort", "resort"} /\ stage' \notin {"sort", "resort"}
        /\ init_func' = init_func /\ deinit_func' = deinit_func
    BY <1>6 DEF init_call, init_next_stage, init_main, main_returns, deinit_call,
                deinit_next_stage, init_returns, arrays
  <2> QED
    BY <1>2, <2>1 DEF SortLoop, Sorted, AllSorted, SortedAt
<1>7. CASE func_returns \/ UNCHANGED initVars
  <2>1. /\ stage' = stage /\ p' = p /\ q' = q
        /\ init_func' = init_func /\ deinit_func' = deinit_func
    BY <1>7 DEF func_returns, initVars, arrays
  <2> QED
    BY <1>2, <2>1 DEF SortLoop, Sorted, LoopSorted, SortedAt, AllSorted
<1> QED
  BY <1>3, <1>4, <1>5, <1>6, <1>7 DEF InitNext, InitStep

(* A file's id is of one stage, and what it needs comes before it, in an   *)
(* earlier stage or in the same.                                           *)
LEMMA StageFacts ==
    /\ Len(init_list) \in Nat /\ Stages = 1 .. Len(init_list)
    /\ \A f \in Files : \E k \in Stages : Matches(f, init_list[k])
    /\ \A f \in Files : \A j, k \in Stages :
           Matches(f, init_list[j]) /\ Matches(f, init_list[k]) => j = k
    /\ \A f \in Files : \A g \in Needs[f] :
           /\ g \in Files
           /\ \E j, k \in Stages :
                  /\ Matches(g, init_list[j]) /\ Matches(f, init_list[k])
                  /\ j < k \/ (j = k /\ init_cmp(f, g))
<1>1. Len(init_list) \in Nat /\ Stages = 1 .. Len(init_list)
  BY StagesAssumption DEF Stages
<1> QED
  BY <1>1, StagesAssumption

(* A sequence of calls: whose they are, none twice, all after their needs. *)
Occurs(f, calls) == \E k \in 1 .. Len(calls) : calls[k] = f
EachOnce(calls) == \A j, k \in 1 .. Len(calls) : calls[j] = calls[k] => j = k
NeedsFirst(calls) ==
    \A k \in 1 .. Len(calls) : \A h \in Needs[calls[k]] :
        \E j \in 1 .. k - 1 : calls[j] = h

(* What one more call adds to the calls so far.                            *)
LEMMA CallAdds ==
    ASSUME NEW calls \in Seq(Files), NEW g \in Files, EachOnce(calls), NeedsFirst(calls),
           ~Occurs(g, calls), \A h \in Needs[g] : Occurs(h, calls)
    PROVE  /\ \A f : Occurs(f, Append(calls, g)) <=> Occurs(f, calls) \/ f = g
           /\ EachOnce(Append(calls, g)) /\ NeedsFirst(Append(calls, g))
<1> DEFINE n == Len(calls)
           more == Append(calls, g)
<1>1. /\ n \in Nat /\ Len(more) = n + 1
      /\ \A k \in 1 .. n : more[k] = calls[k]
      /\ more[n + 1] = g
  BY AppendProperties, LenProperties
<1> HIDE DEF more
<1>2. \A k \in 1 .. n + 1 : k = n + 1 \/ k \in 1 .. n
  BY <1>1
<1>3. \A f : Occurs(f, more) <=> Occurs(f, calls) \/ f = g
  BY <1>1, <1>2 DEF Occurs
<1>4. EachOnce(more)
  BY <1>1, <1>2 DEF Occurs, EachOnce
<1>5. ASSUME NEW k \in 1 .. Len(more), NEW h \in Needs[more[k]]
      PROVE  \E j \in 1 .. k - 1 : more[j] = h
  <2>1. CASE k = n + 1
    <3>1. PICK j \in 1 .. n : calls[j] = h
      BY <1>1, <2>1 DEF Occurs
    <3> QED
      BY <1>1, <2>1, <3>1
  <2>2. CASE k \in 1 .. n
    <3>1. PICK j \in 1 .. k - 1 : calls[j] = h
      BY <1>1, <2>2 DEF NeedsFirst
    <3>2. j \in 1 .. n
      BY <1>1, <2>2
    <3> QED
      BY <1>1, <3>1, <3>2
  <2> QED
    BY <1>1, <1>2, <2>1, <2>2
<1>6. NeedsFirst(more)
  BY <1>5 DEF NeedsFirst
<1> QED
  BY <1>3, <1>4, <1>6 DEF more

(* init_scan's loop calls the function of the record at p: not for the     *)
(* second time, and after all it needs, which is in an earlier stage, or   *)
(* earlier in the array.                                                   *)
LEMMA CallKept ==
    /\ InitTypeOK /\ Sorted /\ ScanLoop /\ CalledOnce /\ NeedsCalled /\ CalledInOrder
    /\ init_call
    => ScanLoop' /\ CalledOnce' /\ NeedsCalled' /\ CalledInOrder'
<1> SUFFICES ASSUME InitTypeOK, Sorted, ScanLoop, CalledOnce, NeedsCalled,
                    CalledInOrder, init_call
             PROVE  ScanLoop' /\ CalledOnce' /\ NeedsCalled' /\ CalledInOrder'
  OBVIOUS
<1> DEFINE g == init_func[p]
<1>1. /\ N \in Nat /\ p \in 1 .. N /\ p' = p + 1 /\ i \in Stages /\ i' = i
      /\ stage = "init" /\ stage' = "init" /\ init_func' = init_func
      /\ called \in Seq(Files)
  BY NumberOfFiles DEF InitTypeOK, init_call, arrays
<1>2. /\ init_func \in [1 .. N -> Files]
      /\ \A x, y \in 1 .. N : init_func[x] = init_func[y] => x = y
      /\ \A f \in Files : \E x \in 1 .. N : init_func[x] = f
  <2>1. init_func \in Bijection(1 .. N, Files)
    BY DEF InitTypeOK
  <2> QED
    BY <2>1, BijectionFacts
<1>3. g \in Files /\ i >= 1 /\ i \in Nat
  BY <1>1, <1>2, StageFacts
<1>4. \A f \in Files : IsCalled(f) <=> Passed(f)
  BY <1>1 DEF ScanLoop
<1>5. \A x \in 1 .. p' - 1 : x = p \/ x \in 1 .. p - 1
  BY <1>1
<1>6. CASE ~Matches(g, init_list[i])
  <2>1. called' = called
    BY <1>6 DEF init_call
  <2>2. ASSUME NEW f \in Files PROVE Passed(f)' <=> Passed(f)
    BY <1>1, <1>5, <1>6 DEF Passed
  <2>3. ASSUME NEW f \in Files PROVE IsCalled(f)' <=> IsCalled(f)
    BY <2>1 DEF IsCalled
  <2> QED
    BY <1>1, <1>3, <1>4, <2>1, <2>2, <2>3
    DEF ScanLoop, CalledOnce, NeedsCalled, CalledInOrder
<1>7. CASE Matches(g, init_list[i])
  <2>1. called' = Append(called, g)
    BY <1>7 DEF init_call
  <2>2. ~Passed(g)
    <3>1. ASSUME NEW k \in Stages, Matches(g, init_list[k]) PROVE k = i
      BY <1>1, <1>3, <1>7, <3>1, StageFacts
    <3>2. ASSUME NEW x \in 1 .. p - 1 PROVE init_func[x] # g
      BY <1>1, <1>2
    <3> QED
      BY <1>3, <3>1, <3>2 DEF Passed
  <2>3. \A k \in 1 .. Len(called) : called[k] # g
    BY <1>3, <1>4, <2>2 DEF IsCalled
  <2>4. ASSUME NEW h \in Needs[g] PROVE \E j \in 1 .. Len(called) : called[j] = h
    <3>1. PICK j \in Stages, k \in Stages :
              /\ Matches(h, init_list[j]) /\ Matches(g, init_list[k])
              /\ j < k \/ (j = k /\ init_cmp(g, h))
      BY <1>3, StageFacts
    <3>2. h \in Files /\ k = i
      BY <1>1, <1>3, <1>7, <3>1, StageFacts
    <3>3. CASE j < k
      BY <1>4, <3>1, <3>2, <3>3 DEF Passed, IsCalled
    <3>4. CASE j = k /\ init_cmp(g, h)
      <4>1. PICK x \in 1 .. N : init_func[x] = h
        BY <1>2, <3>2
      <4>2. x # p
        BY <1>3, <3>4, <4>1, CmpOrders
      <4>3. ~(x \in p + 1 .. N)
        BY <1>1, <1>3, <3>2, <3>4, <4>1 DEF Sorted, AllSorted, SortedAt, Later
      <4>4. x \in 1 .. p - 1
        BY <1>1, <4>2, <4>3
      <4> QED
        BY <1>4, <3>1, <3>2, <3>4, <4>1, <4>4 DEF Passed, IsCalled
    <3> QED
      BY <3>1, <3>3, <3>4
  <2> HIDE DEF g
  <2>5. /\ \A f : Occurs(f, called') <=> Occurs(f, called) \/ f = g
        /\ EachOnce(called') /\ NeedsFirst(called')
    <3>1. EachOnce(called) /\ NeedsFirst(called)
      BY DEF CalledOnce, NeedsCalled, EachOnce, NeedsFirst
    <3>2. ~Occurs(g, called) /\ \A h \in Needs[g] : Occurs(h, called)
      BY <2>3, <2>4 DEF Occurs
    <3> QED
      BY <1>1, <1>3, <2>1, <3>1, <3>2, CallAdds
  <2>6. ASSUME NEW f \in Files PROVE Passed(f)' <=> Passed(f) \/ f = g
    <3>1. Passed(f) => Passed(f)'
      BY <1>1 DEF Passed
    <3>2. p \in 1 .. p' - 1 /\ init_func'[p] = g /\ i \in Stages /\ i' = i
      BY <1>1 DEF g
    <3>3. f = g => Passed(f)'
      BY <1>7, <3>2 DEF Passed
    <3>4. Passed(f)' => Passed(f) \/ f = g
      BY <1>1, <1>5 DEF Passed, g
    <3> QED
      BY <3>1, <3>3, <3>4
  <2>7. ASSUME NEW f \in Files PROVE IsCalled(f)' <=> IsCalled(f) \/ f = g
    BY <2>5 DEF IsCalled, Occurs
  <2>8. ScanLoop'
    BY <1>1, <1>3, <1>4, <2>6, <2>7 DEF ScanLoop
  <2>9. ASSUME NEW f \in Files, Passed(f) PROVE Before(f, g)
    <3>1. PICK k \in Stages :
              /\ Matches(f, init_list[k])
              /\ k < i \/ (k = i /\ \E x \in 1 .. p - 1 : init_func[x] = f)
      BY <2>9 DEF Passed
    <3>2. CASE k < i
      BY <1>1, <1>7, <3>1, <3>2 DEF Before, g
    <3>3. CASE k = i /\ \E x \in 1 .. p - 1 : init_func[x] = f
      <4>1. PICK x \in 1 .. p - 1 : init_func[x] = f
        BY <3>3
      <4>2. /\ x \in 1 .. N /\ p \in x + 1 .. N /\ f # g
            /\ AllSorted(Later, init_func)
        BY <1>1, <1>2, <4>1 DEF g, Sorted
      <4>3. <<f, g>> \notin Later
        BY <4>1, <4>2 DEF AllSorted, SortedAt, g
      <4>4. init_cmp(g, f)
        BY <1>3, <4>2, <4>3, CmpOrders DEF Later, g
      <4> QED
        BY <1>1, <1>7, <3>1, <3>3, <4>4 DEF Before, g
    <3> QED
      BY <3>1, <3>2, <3>3
  <2>10. CalledInOrder'
    <3>1. /\ Len(called') = Len(called) + 1 /\ Len(called) \in Nat
          /\ called'[Len(called) + 1] = g
          /\ \A k \in 1 .. Len(called) : called'[k] = called[k]
                                        /\ called[k] \in Files
      BY <1>1, <1>3, <2>1, AppendProperties, LenProperties, ElementOfSeq
    <3>2. \A k \in 1 .. Len(called) : Before(called[k], g)
      BY <1>4, <2>9, <3>1 DEF IsCalled
    <3>3. ASSUME NEW j \in 1 .. Len(called'), NEW k \in 1 .. Len(called'), j < k
          PROVE  Before(called'[j], called'[k])
      <4>1. j \in 1 .. Len(called) /\ (k = Len(called) + 1 \/ k \in 1 .. Len(called))
        BY <3>1, <3>3
      <4> QED
        BY <3>1, <3>2, <3>3, <4>1 DEF CalledInOrder
    <3> QED
      BY <3>3 DEF CalledInOrder, Before, Stages
  <2> QED
    BY <2>5, <2>8, <2>10 DEF CalledOnce, NeedsCalled, EachOnce, NeedsFirst
<1> QED
  BY <1>6, <1>7

(* Every step keeps what is known of the calls.                            *)
LEMMA ScanKept ==
    /\ InitTypeOK /\ Sorted /\ ScanLoop /\ CalledOnce /\ NeedsCalled /\ CalledInOrder
    /\ [InitNext]_initVars
    => ScanLoop' /\ CalledOnce' /\ NeedsCalled' /\ CalledInOrder'
<1> SUFFICES ASSUME InitTypeOK, Sorted, ScanLoop, CalledOnce, NeedsCalled,
                    CalledInOrder, [InitNext]_initVars
             PROVE  ScanLoop' /\ CalledOnce' /\ NeedsCalled' /\ CalledInOrder'
  OBVIOUS
<1>1. /\ N \in Nat /\ p \in 1 .. N + 1 /\ i \in 0 .. Len(init_list) + 1
      /\ init_func \in Bijection(1 .. N, Files)
  BY NumberOfFiles DEF InitTypeOK
<1>2. called' = called => CalledOnce' /\ NeedsCalled' /\ CalledInOrder'
  BY DEF CalledOnce, NeedsCalled, CalledInOrder, Before
<1>3. CASE init_call
  BY <1>3, CallKept
<1>4. CASE init_init_pair \/ init_deinit_pair \/ init_init_next
           \/ (init_init_end /\ stage = "sort")
  <2>1. /\ stage \in {"sort", "resort"} /\ stage' \in {"sort", "resort"}
        /\ called' = called /\ i' = i
    BY <1>4 DEF init_init_pair, init_deinit_pair, init_init_next, init_init_end, history
  <2> QED
    BY <1>2, <2>1 DEF ScanLoop
<1>5. CASE init_init_end /\ stage # "sort"
  <2>1. stage = "resort" /\ stage' = "init" /\ p' = 1 /\ called' = called /\ i' = i
    BY <1>5 DEF init_init_end, history
  <2>2. called = <<>> /\ i = 1
    BY <2>1 DEF ScanLoop
  <2>3. ASSUME NEW f \in Files PROVE ~IsCalled(f)' /\ ~Passed(f)'
    BY <2>1, <2>2, StageFacts DEF IsCalled, Passed
  <2> QED
    BY <1>2, <2>1, <2>2, <2>3 DEF ScanLoop
<1>6. CASE init_next_stage
  <2>1. /\ stage = "init" /\ stage' = "init" /\ i \in Stages /\ p = N + 1
        /\ i' = i + 1 /\ p' = 1 /\ called' = called /\ init_func' = init_func
    BY <1>1, <1>6 DEF init_next_stage, history, arrays
  <2>2. ASSUME NEW f \in Files PROVE Passed(f)' <=> Passed(f)
    <3>1. \E x \in 1 .. p - 1 : init_func[x] = f
      <4>1. PICK x \in 1 .. N : init_func[x] = f
        BY <1>1, BijectionFacts
      <4> QED
        BY <1>1, <2>1, <4>1
    <3>2. ASSUME NEW k \in Stages
          PROVE  (k < i' \/ (k = i' /\ \E x \in 1 .. p' - 1 : init_func'[x] = f))
                 <=> (k < i \/ k = i)
      BY <1>1, <2>1, StageFacts
    <3> QED
      BY <3>1, <3>2 DEF Passed
  <2>3. ASSUME NEW f \in Files PROVE IsCalled(f)' <=> IsCalled(f)
    BY <2>1 DEF IsCalled
  <2>4. i' >= 1
    BY <1>1, <2>1
  <2> QED
    BY <1>2, <2>1, <2>2, <2>3, <2>4 DEF ScanLoop
<1>7. CASE init_main
  <2>1. stage = "init" /\ stage' = "main" /\ i \notin Stages /\ called' = called
    BY <1>7 DEF init_main, history
  <2>2. \A k \in Stages : k < i
    BY <1>1, <2>1, StageFacts DEF ScanLoop
  <2>3. ASSUME NEW f \in Files PROVE IsCalled(f)
    BY <2>1, <2>2, StageFacts DEF ScanLoop, Passed
  <2>4. ASSUME NEW f \in Files PROVE IsCalled(f)'
    BY <2>1, <2>3 DEF IsCalled
  <2> QED
    BY <1>2, <2>1, <2>4 DEF ScanLoop
<1>8. CASE main_returns \/ deinit_call \/ deinit_next_stage \/ init_returns
  <2>1. /\ stage \in {"main", "deinit"} /\ stage' \in {"deinit", "stopped"}
        /\ called' = called
    BY <1>8 DEF main_returns, deinit_call, deinit_next_stage, init_returns, history
  <2>2. ASSUME NEW f \in Files PROVE IsCalled(f)'
    BY <2>1 DEF ScanLoop, IsCalled
  <2> QED
    BY <1>2, <2>1, <2>2 DEF ScanLoop
<1>9. CASE func_returns \/ UNCHANGED initVars
  <2>1. /\ stage' = stage /\ i' = i /\ p' = p /\ called' = called
        /\ init_func' = init_func
    BY <1>9 DEF func_returns, initVars, history, arrays
  <2> QED
    BY <1>2, <2>1 DEF ScanLoop, IsCalled, Passed
<1> QED
  BY <1>3, <1>4, <1>5, <1>6, <1>7, <1>8, <1>9 DEF InitNext, InitStep
(* The order of the calls is one.                                          *)
LEMMA BeforeOrders ==
    ASSUME NEW f \in Files, NEW g \in Files, NEW h \in Files
    PROVE  /\ ~Before(f, f)
           /\ Before(f, g) /\ Before(g, h) => Before(f, h)
<1>1. \A j, k \in Stages :
          /\ Matches(f, init_list[j]) /\ Matches(f, init_list[k]) => j = k
          /\ Matches(g, init_list[j]) /\ Matches(g, init_list[k]) => j = k
  BY StageFacts
<1>2. \A k \in Stages : k \in Nat
  BY StageFacts
<1>3. ~Before(f, f)
  BY <1>1, <1>2, CmpOrders DEF Before
<1>4. ASSUME Before(f, g), Before(g, h) PROVE Before(f, h)
  <2>1. PICK j \in Stages, k \in Stages :
            /\ Matches(f, init_list[j]) /\ Matches(g, init_list[k])
            /\ j < k \/ (j = k /\ init_cmp(g, f))
    BY <1>4 DEF Before
  <2>2. PICK l \in Stages, m \in Stages :
            /\ Matches(g, init_list[l]) /\ Matches(h, init_list[m])
            /\ l < m \/ (l = m /\ init_cmp(h, g))
    BY <1>4 DEF Before
  <2>3. k = l
    BY <1>1, <2>1, <2>2
  <2>4. init_cmp(h, g) /\ init_cmp(g, f) => init_cmp(h, f)
    BY CmpOrders
  <2>5. j < m \/ (j = m /\ init_cmp(h, f))
    BY <1>2, <2>1, <2>2, <2>3, <2>4
  <2> QED
    BY <2>1, <2>2, <2>5 DEF Before
<1> QED
  BY <1>3, <1>4

(* init_scan's loop on the way back calls the function of the record at p, *)
(* whose init function was called before those of all undone so far.       *)
LEMMA CallBackKept ==
    ASSUME InitTypeOK, Sorted, BackLoop, UndoneInOrder, deinit_call, i \in Stages
    PROVE  BackLoop' /\ UndoneInOrder'
<1> DEFINE g == deinit_func[p]
           n == Len(undone)
<1>1. /\ N \in Nat /\ p \in 1 .. N /\ p' = p + 1 /\ i' = i
      /\ stage = "deinit" /\ stage' = "deinit" /\ deinit_func' = deinit_func
      /\ undone \in Seq(Files) /\ n \in Nat /\ Base' = Base /\ Base \in Nat
      /\ i \in Nat /\ i <= Len(init_list) /\ i > 0
  BY NumberOfFiles, StageFacts, LenProperties
  DEF InitTypeOK, deinit_call, arrays, Base, N
<1>2. /\ deinit_func \in [1 .. N -> Files]
      /\ \A x, y \in 1 .. N : deinit_func[x] = deinit_func[y] => x = y
  BY BijectionFacts DEF InitTypeOK
<1>3. g \in Files /\ \A k \in 1 .. n : undone[k] \in Files
  BY <1>1, <1>2, ElementOfSeq
<1>4. Base <= n /\ \A f \in Files : IsUndone(f) <=> PassedBack(f)
  BY <1>1 DEF BackLoop
<1>5. \A x \in 1 .. p' - 1 : x = p \/ x \in 1 .. p - 1
  BY <1>1
<1>6. CASE ~Matches(g, init_list[i])
  <2>1. undone' = undone
    BY <1>6 DEF deinit_call, MatchesBack
  <2>2. ASSUME NEW f \in Files PROVE PassedBack(f)' <=> PassedBack(f)
    BY <1>1, <1>5, <1>6 DEF PassedBack, Stages
  <2>3. ASSUME NEW f \in Files PROVE IsUndone(f)' <=> IsUndone(f)
    BY <1>1, <2>1 DEF IsUndone
  <2>4. BackLoop'
    BY <1>1, <1>4, <2>1, <2>2, <2>3 DEF BackLoop
  <2> QED
    BY <1>1, <2>1, <2>4 DEF UndoneInOrder, Before, Stages
<1>7. CASE Matches(g, init_list[i])
  <2>1. undone' = Append(undone, g)
    BY <1>7 DEF deinit_call, MatchesBack
  <2> HIDE DEF n, g
  <2>2. /\ Len(undone') = n + 1 /\ undone'[n + 1] = g
        /\ \A k \in 1 .. n : undone'[k] = undone[k]
    BY <1>1, <1>3, <2>1, AppendProperties DEF n
  <2>3. \A k \in Base + 1 .. n + 1 : k = n + 1 \/ k \in Base + 1 .. n
    BY <1>1
  <2>4. n + 1 \in Base + 1 .. n + 1 /\ \A k \in Base + 1 .. n : k \in 1 .. n
    BY <1>1, <1>4
  <2>5. ASSUME NEW f \in Files PROVE IsUndone(f)' <=> IsUndone(f) \/ f = g
    BY <1>1, <2>2, <2>3, <2>4 DEF IsUndone, n
  <2>6. ASSUME NEW f \in Files PROVE PassedBack(f)' <=> PassedBack(f) \/ f = g
    <3>1. PassedBack(f) => PassedBack(f)'
      BY <1>1 DEF PassedBack, Stages
    <3>2. p \in 1 .. p' - 1 /\ deinit_func'[p] = g
      BY <1>1 DEF g
    <3>3. f = g => PassedBack(f)'
      BY <1>1, <1>7, <3>2 DEF PassedBack, Stages
    <3>4. PassedBack(f)' => PassedBack(f) \/ f = g
      BY <1>1, <1>5 DEF PassedBack, Stages, g
    <3> QED
      BY <3>1, <3>3, <3>4
  <2>7. BackLoop'
    BY <1>1, <1>4, <2>2, <2>5, <2>6 DEF BackLoop
  <2>8. ASSUME NEW f \in Files, PassedBack(f) PROVE Before(g, f)
    <3>1. PICK k \in Stages :
              /\ Matches(f, init_list[k])
              /\ k > i \/ (k = i /\ \E x \in 1 .. p - 1 : deinit_func[x] = f)
      BY <2>8 DEF PassedBack
    <3>2. CASE k > i
      BY <1>1, <1>7, <3>1, <3>2, StageFacts DEF Before
    <3>3. CASE k = i /\ \E x \in 1 .. p - 1 : deinit_func[x] = f
      <4>1. PICK x \in 1 .. p - 1 : deinit_func[x] = f
        BY <3>3
      <4>2. /\ x \in 1 .. N /\ p \in x + 1 .. N /\ f # g
            /\ AllSorted(Earlier, deinit_func)
        BY <1>1, <1>2, <4>1 DEF g, Sorted
      <4>3. <<f, g>> \notin Earlier
        BY <4>1, <4>2 DEF AllSorted, SortedAt, g
      <4>4. init_cmp(f, g)
        BY <1>3, <4>2, <4>3, CmpOrders DEF Earlier
      <4> QED
        BY <1>1, <1>7, <3>1, <3>3, <4>4 DEF Before
    <3> QED
      BY <3>1, <3>2, <3>3
  <2>9. \A k \in Base + 1 .. n : Before(g, undone[k])
    BY <1>3, <1>4, <2>4, <2>8 DEF IsUndone, n
  <2>10. ASSUME NEW j \in Base + 1 .. n + 1, NEW k \in Base + 1 .. n + 1, j < k
         PROVE  Before(undone'[k], undone'[j])
    <3>1. j \in Base + 1 .. n
      BY <1>1, <2>10
    <3>2. CASE k = n + 1
      BY <2>2, <2>4, <2>9, <3>1, <3>2
    <3>3. CASE k \in Base + 1 .. n
      <4>1. Before(undone[k], undone[j])
        BY <2>10, <3>1, <3>3 DEF UndoneInOrder, n
      <4> QED
        BY <2>2, <2>4, <3>1, <3>3, <4>1
    <3> QED
      BY <2>3, <3>2, <3>3
  <2>11. UndoneInOrder'
    BY <1>1, <2>2, <2>10 DEF UndoneInOrder, Before, Stages
  <2> QED
    BY <2>7, <2>11
<1> QED
  BY <1>6, <1>7

(* Every step keeps what is known of the calls on the way back.            *)
LEMMA BackKept ==
    /\ InitTypeOK /\ Sorted /\ ScanLoop /\ BackLoop /\ UndoneInOrder
    /\ [InitNext]_initVars
    => BackLoop' /\ UndoneInOrder'
<1> SUFFICES ASSUME InitTypeOK, Sorted, ScanLoop, BackLoop, UndoneInOrder,
                    [InitNext]_initVars
             PROVE  BackLoop' /\ UndoneInOrder'
  OBVIOUS
<1>1. /\ N \in Nat /\ p \in 1 .. N + 1 /\ i \in 0 .. Len(init_list) + 1
      /\ Len(init_list) \in Nat /\ Stages = 1 .. Len(init_list)
      /\ undone \in Seq(Files) /\ Len(undone) \in Nat
  BY NumberOfFiles, StageFacts, LenProperties DEF InitTypeOK
<1>2. N' = N /\ Base' \in Nat
  BY <1>1 DEF N, Base
<1>3. ASSUME Len(undone') \in Nat, Len(undone') <= Base' PROVE UndoneInOrder'
  <2>1. PICK b \in Nat : b = Base'
    BY <1>2
  <2>2. Len(undone') <= b
    BY <1>3, <2>1
  <2>3. \A k \in b + 1 .. Len(undone') : FALSE
    BY <1>3, <2>2
  <2> QED
    BY <2>1, <2>3 DEF UndoneInOrder
<1>4. Len(<<>>) = 0
  BY EmptySeq
<1>5. CASE \/ init_init_pair \/ init_deinit_pair \/ init_init_next \/ init_init_end
           \/ init_call \/ init_next_stage
  <2>1. /\ stage' \notin {"main", "deinit", "stopped"}
        /\ stage \notin {"deinit", "stopped"} /\ undone' = undone
    BY <1>5 DEF init_init_pair, init_deinit_pair, init_init_next, init_init_end,
                init_call, init_next_stage, history
  <2>2. undone' = <<>>
    BY <2>1 DEF BackLoop
  <2> QED
    BY <1>4, <1>2, <1>3, <2>1, <2>2 DEF BackLoop
<1>6. CASE init_main
  <2>1. /\ stage = "init" /\ stage' = "main" /\ i \notin Stages /\ i' = i
        /\ undone' = undone
    BY <1>6 DEF init_main, history
  <2>2. undone' = <<>> /\ i = Len(init_list) + 1
    BY <1>1, <2>1 DEF BackLoop, ScanLoop
  <2> QED
    BY <1>4, <1>2, <1>3, <2>1, <2>2 DEF BackLoop
<1>7. CASE main_returns
  <2>1. /\ stage = "main" /\ stage' = "deinit" /\ p' = 1 /\ i' = i /\ undone' = undone
    BY <1>7 DEF main_returns, history
  <2>2. undone' = <<>> /\ i' = Len(init_list) + 1
    BY <2>1 DEF BackLoop
  <2>3. Len(undone') = 0
    BY <1>4, <2>2
  <2> QED
    BY <1>1, <1>2, <1>3, <2>1, <2>2, <2>3 DEF BackLoop
<1>8. CASE deinit_call /\ i \in Stages
  BY <1>8, CallBackKept
<1>9. CASE deinit_call /\ i \notin Stages
  <2>1. /\ stage = "deinit" /\ stage' = "deinit" /\ i' = i /\ p' = p + 1
        /\ i > Len(init_list) /\ p \in 1 .. N /\ empty_string' = empty_string
    BY <1>1, <1>9 DEF deinit_call
  <2>2. Len(undone) = IF empty_string THEN p - 1 ELSE 0
    BY <2>1 DEF BackLoop
  <2>3. Len(undone') = IF empty_string THEN p ELSE 0
    <3>1. CASE empty_string
      <4>1. undone' = Append(undone, deinit_func[p])
        BY <1>9, <3>1 DEF deinit_call, MatchesBack
      <4>2. deinit_func[p] \in Files
        BY <2>1, BijectionFacts DEF InitTypeOK
      <4> QED
        BY <1>1, <2>1, <2>2, <3>1, <4>1, <4>2, AppendProperties
    <3>2. CASE ~empty_string
      BY <1>9, <2>2, <3>2 DEF deinit_call, MatchesBack
    <3> QED
      BY <3>1, <3>2
  <2>4. Len(undone') <= Base' /\ Len(undone') \in Nat
    BY <1>1, <2>1, <2>3 DEF Base, N
  <2>5. UndoneInOrder'
    BY <1>3, <2>4
  <2>6. Len(undone') = IF empty_string' THEN p' - 1 ELSE 0
    BY <1>1, <2>1, <2>3
  <2>7. i' > Len(init_list) /\ ~(i' <= Len(init_list))
    BY <1>1, <2>1
  <2> QED
    BY <2>1, <2>5, <2>6, <2>7 DEF BackLoop
<1>10. CASE deinit_next_stage
  <2>1. /\ stage = "deinit" /\ stage' = "deinit" /\ i > 0 /\ i' = i - 1 /\ p' = 1
        /\ p = N + 1 /\ undone' = undone /\ empty_string' = empty_string
        /\ deinit_func' = deinit_func
    BY <1>1, <1>10 DEF deinit_next_stage, history, arrays
  <2>2. Base' = Base /\ i' <= Len(init_list)
    BY <1>1, <2>1 DEF Base, N
  <2>3. ASSUME NEW f \in Files PROVE IsUndone(f)' <=> IsUndone(f)
    BY <2>1, <2>2 DEF IsUndone
  <2>4. CASE i > Len(init_list)
    <3>1. Len(undone) = Base
      BY <1>1, <2>1, <2>4 DEF BackLoop, Base
    <3>2. ASSUME NEW f \in Files PROVE ~IsUndone(f)' /\ ~PassedBack(f)'
      BY <1>1, <1>2, <2>1, <2>2, <2>4, <3>1 DEF IsUndone, PassedBack, Stages
    <3>3. UndoneInOrder'
      BY <1>2, <2>1, <2>2, <3>1 DEF UndoneInOrder
    <3> QED
      BY <1>1, <2>1, <2>2, <3>1, <3>2, <3>3 DEF BackLoop
  <2>5. CASE i <= Len(init_list)
    <3>1. Base <= Len(undone) /\ \A f \in Files : IsUndone(f) <=> PassedBack(f)
      BY <2>1, <2>5 DEF BackLoop
    <3>2. ASSUME NEW f \in Files PROVE PassedBack(f)' <=> PassedBack(f)
      <4>1. \E x \in 1 .. p - 1 : deinit_func[x] = f
        <5>1. PICK x \in 1 .. N : deinit_func[x] = f
          BY BijectionFacts DEF InitTypeOK
        <5> QED
          BY <1>1, <2>1, <5>1
      <4>2. ASSUME NEW k \in Stages
            PROVE  (k > i' \/ (k = i' /\ \E x \in 1 .. p' - 1 : deinit_func'[x] = f))
                   <=> (k > i \/ k = i)
        BY <1>1, <2>1
      <4> QED
        BY <4>1, <4>2 DEF PassedBack, Stages
    <3>3. UndoneInOrder'
      BY <2>1, <2>2 DEF UndoneInOrder, Before, Stages
    <3>4. ~(i' > Len(init_list))
      BY <1>1, <2>2, <2>1
    <3> QED
      BY <2>1, <2>2, <2>3, <3>1, <3>2, <3>3, <3>4 DEF BackLoop
  <2> QED
    BY <1>1, <2>4, <2>5
<1>11. CASE init_returns \/ func_returns \/ UNCHANGED initVars
  <2>1. /\ i' = i /\ p' = p /\ undone' = undone /\ empty_string' = empty_string
        /\ deinit_func' = deinit_func
        /\ stage' = stage \/ (stage = "deinit" /\ stage' = "stopped" /\ i = 0)
    BY <1>11 DEF init_returns, func_returns, initVars, arrays, history
  <2>2. Base' = Base
    BY <2>1 DEF Base, N
  <2>3. ASSUME NEW f \in Files
        PROVE  (IsUndone(f)' <=> IsUndone(f)) /\ (PassedBack(f)' <=> PassedBack(f))
    BY <2>1, <2>2 DEF IsUndone, PassedBack, Stages
  <2>4. UndoneInOrder'
    BY <2>1, <2>2 DEF UndoneInOrder, Before, Stages
  <2> QED
    BY <1>1, <2>1, <2>2, <2>3, <2>4 DEF BackLoop
<1> QED
  BY <1>5, <1>6, <1>7, <1>8, <1>9, <1>10, <1>11 DEF InitNext, InitStep
(* The initial states satisfy the invariant.                               *)
LEMMA InitInitInv == InitInit => InitIInv
<1> SUFFICES ASSUME InitInit PROVE InitIInv
  OBVIOUS
<1>1. N \in Nat /\ Len(init_list) \in Nat
  BY NumberOfFiles, StagesAssumption
<1>2. InitTypeOK
  <2>1. p \in 1 .. N + 1 /\ q \in 1 .. N + 2 /\ i \in 0 .. Len(init_list) + 1
    BY <1>1 DEF InitInit
  <2>2. /\ stage \in {"sort", "resort", "init", "main", "deinit", "stopped"}
        /\ init_func \in Bijection(1 .. N, Files)
        /\ deinit_func \in Bijection(1 .. N, Files)
    BY DEF InitInit
  <2>3. called \in Seq(Files) /\ undone \in Seq(Files)
    BY EmptySeq DEF InitInit
  <2>4. empty_string \in BOOLEAN /\ running \in Files \cup {None}
    BY DEF InitInit
  <2> QED
    BY <2>1, <2>2, <2>3, <2>4 DEF InitTypeOK
<1>3. SortLoop /\ Sorted
  BY <1>1, LoopBegins DEF InitInit, SortLoop, Sorted, InitTypeOK
<1>4. ScanLoop /\ CalledOnce /\ NeedsCalled /\ CalledInOrder
  BY DEF InitInit, ScanLoop, CalledOnce, NeedsCalled, CalledInOrder
<1>5. BackLoop /\ UndoneInOrder
  BY DEF InitInit, BackLoop, UndoneInOrder, Base
<1> QED
  BY <1>2, <1>3, <1>4, <1>5 DEF InitIInv

-----------------------------------------------------------------------------
(* The inductive invariant holds in every state: in the sort what is below *)
(* p is in its place, in the scans what was called is what p has passed.   *)
THEOREM InitInvariant == InitSpec => []InitIInv
<1>1. InitIInv /\ [InitNext]_initVars => InitIInv'
  BY TypesKept, SortKept, ScanKept, BackKept DEF InitIInv
<1> QED
  BY <1>1, InitInitInv, PTL DEF InitSpec

(* init's arrays stay permutations of the records, its pointers inside     *)
(* them, whatever the ids and the link order (init.c).                     *)
THEOREM InitTypes == InitSpec => []InitTypeOK
<1>1. InitIInv => InitTypeOK
  BY DEF InitIInv
<1> QED
  BY <1>1, InitInvariant, PTL

(* The invariant says what the calls must be.                              *)
LEMMA InvOrdersInits == InitIInv => InitsAfterWhatTheyNeed
<1> SUFFICES ASSUME InitIInv PROVE InitsAfterWhatTheyNeed
  OBVIOUS
<1>1. called \in Seq(Files)
  BY DEF InitIInv, InitTypeOK
<1>2. ASSUME stage \in {"main", "deinit", "stopped"} PROVE Range(called) = Files
  <2>1. DOMAIN called = 1 .. Len(called) /\ \A k \in 1 .. Len(called) : called[k] \in Files
    BY <1>1, LenProperties
  <2>2. \A f \in Files : \E k \in 1 .. Len(called) : called[k] = f
    BY <1>2 DEF InitIInv, ScanLoop, IsCalled
  <2> QED
    BY <2>1, <2>2 DEF Range
<1> QED
  BY <1>2 DEF InitsAfterWhatTheyNeed, InitIInv, CalledOnce, NeedsCalled

(* For any files, ids and link order: an init function is called once at   *)
(* most, after all it needs, and before main all have been (init_init,     *)
(* init_scan).                                                             *)
THEOREM InitsInOrder == InitSpec => []InitsAfterWhatTheyNeed
BY InitInvariant, InvOrdersInits, PTL

(* A set of numbers that is not empty has a least one.                     *)
LEMMA LeastOf ==
    ASSUME NEW S, S \subseteq Nat, S # {}
    PROVE  \E x \in S : \A y \in S : x <= y
<1>1. \E x \in S : \A y \in S : ~(<<y, x>> \in OpToRel(<, Nat))
  BY NatLessThanWellFounded, WFMin, Zenon
<1>2. PICK x \in S : \A y \in S : ~(<<y, x>> \in OpToRel(<, Nat))
  BY <1>1
<1>3. \A y \in S : <<y, x>> \in OpToRel(<, Nat) <=> y < x
  BY DEF OpToRel
<1>4. \A y \in S : ~(y < x)
  BY <1>2, <1>3
<1> QED
  BY <1>4

(* The list of length n names every file, and each before all after it.    *)
Lists(s, n) ==
    /\ n \in Nat
    /\ s \in [1 .. n -> Files]
    /\ \A f \in Files : \E k \in 1 .. n : s[k] = f
    /\ \A j, k \in 1 .. n : j < k => Before(s[j], s[k])

(* It names each once, so it is as long as there are files.                *)
LEMMA ListsLength ==
    ASSUME NEW s, NEW n, Lists(s, n)
    PROVE  /\ n = N
           /\ \A j, k \in 1 .. n : s[j] = s[k] => j = k
<1>1. \A j, k \in 1 .. n : s[j] = s[k] => j = k
  <2> SUFFICES ASSUME NEW j \in 1 .. n, NEW k \in 1 .. n, s[j] = s[k], j < k
               PROVE  FALSE
    BY DEF Lists
  <2>1. Before(s[j], s[k]) /\ s[j] \in Files
    BY DEF Lists
  <2> QED
    BY <2>1, BeforeOrders
<1>2. s \in Bijection(1 .. n, Files)
  BY <1>1 DEF Lists, Bijection, Injection, Surjection, IsInjective
<1>3. Cardinality(Files) = n
  BY <1>2, FS_CountingElements DEF Lists, ExistsBijection
<1> QED
  BY <1>1, <1>3 DEF N

(* There is only one such list.                                            *)
LEMMA SortedListsAgree ==
    ASSUME NEW s, NEW t, NEW n, Lists(s, n), Lists(t, n)
    PROVE  \A k \in 1 .. n : s[k] = t[k]
<1> DEFINE S == {k \in 1 .. n : s[k] # t[k]}
<1> SUFFICES ASSUME S # {} PROVE FALSE
  OBVIOUS
<1>1. PICK x \in S : \A y \in S : x <= y
  <2>1. S \subseteq Nat
    OBVIOUS
  <2> HIDE DEF S
  <2> QED
    BY <2>1, LeastOf
<1>2. n \in Nat /\ x \in 1 .. n /\ s[x] # t[x] /\ s[x] \in Files /\ t[x] \in Files
  BY DEF Lists
<1>3. \A y \in 1 .. n : y < x => s[y] = t[y]
  BY <1>1
<1>4. PICK y \in 1 .. n : t[y] = s[x]
  BY <1>2 DEF Lists
<1>5. PICK z \in 1 .. n : s[z] = t[x]
  BY <1>2 DEF Lists
<1>6. x < y
  <2>1. y # x
    BY <1>2, <1>4
  <2>2. ~(y < x)
    BY <1>2, <1>3, <1>4, ListsLength
  <2> QED
    BY <1>2, <2>1, <2>2
<1>7. x < z
  <2>1. z # x
    BY <1>2, <1>5
  <2>2. ~(z < x)
    BY <1>2, <1>3, <1>5, ListsLength
  <2> QED
    BY <1>2, <2>1, <2>2
<1>8. Before(t[x], s[x]) /\ Before(s[x], t[x])
  BY <1>2, <1>4, <1>5, <1>6, <1>7 DEF Lists
<1> QED
  BY <1>2, <1>8, BeforeOrders

(* The calls and, read backwards, those of the way back are such lists.    *)
LEMMA InvMirrors == InitIInv => DeinitsMirrorInits
<1> SUFFICES ASSUME InitIInv, stage = "stopped"
             PROVE  /\ Len(undone) \in {N, 2 * N}
                    /\ \A k \in 1 .. N : undone[Len(undone) + 1 - k] = called[k]
  BY DEF DeinitsMirrorInits
<1> DEFINE c == Len(called)
           u == Len(undone)
           n == u - Base
           back == [k \in 1 .. n |-> undone[u + 1 - k]]
<1>1. /\ InitTypeOK /\ ScanLoop /\ CalledInOrder /\ BackLoop /\ UndoneInOrder
      /\ N \in Nat /\ Base \in {0, N}
      /\ called \in Seq(Files) /\ undone \in Seq(Files)
      /\ c \in Nat /\ u \in Nat
      /\ \A k \in 1 .. c : called[k] \in Files
      /\ \A k \in 1 .. u : undone[k] \in Files
  BY NumberOfFiles, LenProperties, ElementOfSeq DEF InitIInv, InitTypeOK, Base
<1>2. Base <= u /\ \A f \in Files : IsUndone(f)
  <2>1. i = 0 /\ i <= Len(init_list)
    BY <1>1, StageFacts DEF BackLoop
  <2>2. Base <= u /\ \A f \in Files : IsUndone(f) <=> PassedBack(f)
    BY <1>1, <2>1 DEF BackLoop
  <2>3. \A f \in Files : PassedBack(f)
    BY <2>1, StageFacts DEF PassedBack
  <2> QED
    BY <2>2, <2>3
<1>3. Lists(called, c)
  <2>1. called \in [1 .. c -> Files]
    BY <1>1, LenProperties
  <2>2. \A f \in Files : \E k \in 1 .. c : called[k] = f
    BY <1>1 DEF ScanLoop, IsCalled
  <2> QED
    BY <1>1, <2>1, <2>2 DEF Lists, CalledInOrder
<1>4. Lists(back, n)
  <2>1. n \in Nat /\ \A k \in 1 .. n : u + 1 - k \in Base + 1 .. u /\ u + 1 - k \in 1 .. u
    BY <1>1, <1>2
  <2>2. \A k \in Base + 1 .. u : u + 1 - k \in 1 .. n /\ u + 1 - (u + 1 - k) = k
    BY <1>1, <1>2
  <2> HIDE DEF n, u
  <2>3. back \in [1 .. n -> Files]
    BY <1>1, <2>1
  <2>4. ASSUME NEW f \in Files PROVE \E k \in 1 .. n : back[k] = f
    <3>1. PICK k \in Base + 1 .. u : undone[k] = f
      BY <1>2 DEF IsUndone, u
    <3>2. back[u + 1 - k] = undone[k]
      BY <2>2, <3>1
    <3> QED
      BY <2>2, <3>1, <3>2
  <2>5. ASSUME NEW j \in 1 .. n, NEW k \in 1 .. n, j < k
        PROVE  Before(back[j], back[k])
    <3>1. u + 1 - k < u + 1 - j
      BY <1>1, <2>1, <2>5
    <3> QED
      BY <1>1, <2>1, <3>1 DEF UndoneInOrder, u
  <2> QED
    BY <2>1, <2>3, <2>4, <2>5 DEF Lists
<1>5. c = N /\ n = N
  BY <1>3, <1>4, ListsLength
<1>6. \A k \in 1 .. N : called[k] = back[k]
  <2> HIDE DEF back, n, c
  <2> QED
    BY <1>3, <1>4, <1>5, SortedListsAgree
<1>7. u \in {N, 2 * N}
  BY <1>1, <1>5
<1> QED
  BY <1>5, <1>6, <1>7

(* The way back calls the deinit functions in the opposite order, though   *)
(* the NULL at the end of init_list may have called all of them before,    *)
(* for any files, ids and link order (init_init, init).                    *)
THEOREM DeinitsInOrder == InitSpec => []DeinitsMirrorInits
BY InitInvariant, InvMirrors, PTL
-----------------------------------------------------------------------------
(* What the wait at hand began to count from.                              *)
Rounds == IF at = "link" THEN LinkTimeout ELSE Timeout

(* The count and the looks in vain add up to it, and a wait that took more *)
(* of them is remembered.                                                  *)
CountsLooks ==
    /\ at \in Waits => waited + timeout = Rounds /\ (waited > Rounds => faltered)
    /\ at = "failed" => faltered

(* Where the two set-up functions are.                                     *)
Sending == {"tdesc", "dmatxctl", "txdctl", "xmit"}
Receiving == {"rdesc", "rxdctl", "recv"}

(* The flags and the place agree.                                          *)
FlagsFollow ==
    /\ xmit_enabled => at \in Receiving \cup {"up", "failed"}
    /\ recv_enabled => at = "up"
    /\ at \in Receiving \cup {"up"} => xmit_enabled
    /\ at = "up" => recv_enabled

(* After the reset is seen to be over none is begun.                       *)
ResetOver ==
    Live /\ (xmit_enabled \/ at \in {"link", "up"} \cup Sending \cup Receiving) =>
        ~rst /\ masked

Rung(regs) == \A k \in Queues : regs[k].ring

(* How far the set-up functions have got.                                  *)
XmitSoFar ==
    /\ Live /\ at \in {"dmatxctl", "txdctl", "xmit"} =>
           Rung(tx) /\ \A k \in Queues : tx[k].tail = 0
    /\ Live /\ at \in {"txdctl", "xmit"} =>
           dmatxctl /\ \A k \in Queues : k < queue => tx[k].enable = "on"

RecvSoFar ==
    Live /\ at \in {"rxdctl", "recv"} =>
        /\ Rung(rx)
        /\ \A k \in Queues : k < queue =>
               rx[k].enable = "on" /\ rx[k].tail = num_rdesc - 1

(* The inductive invariant.                                                *)
LinkIInv ==
    /\ LinkTypeOK /\ FlagsTellTheTruth
    /\ CountsLooks /\ FlagsFollow /\ ResetOver /\ XmitSoFar /\ RecvSoFar
-----------------------------------------------------------------------------
(* The registers' writes keep their form and change what they should.      *)
LEMMA QueuesOffFacts ==
    /\ QueuesOff \in [Queues -> QueueRegs]
    /\ RingsBeforeQueues(QueuesOff)
BY LinkAssumption DEF QueuesOff, QueueRegs, RingsBeforeQueues

(* write_rings tells the adapter every ring, and enables none.             *)
LEMMA WriteRingsFacts ==
    ASSUME NEW regs \in [Queues -> QueueRegs]
    PROVE  /\ WriteRings(regs) \in [Queues -> QueueRegs]
           /\ \A k \in Queues :
                  /\ WriteRings(regs)[k].ring
                  /\ WriteRings(regs)[k].tail = 0
                  /\ WriteRings(regs)[k].enable = regs[k].enable
<1>1. ASSUME NEW k \in Queues
      PROVE  /\ WriteRings(regs)[k] = [ring |-> TRUE, enable |-> regs[k].enable, tail |-> 0]
             /\ WriteRings(regs)[k] \in QueueRegs
  <2>1. regs[k] \in QueueRegs
    OBVIOUS
  <2>2. WriteRings(regs)[k] = [regs[k] EXCEPT !.ring = TRUE, !.tail = 0]
    BY DEF WriteRings
  <2>3. 0 \in 0 .. num_rdesc - 1
    BY LinkAssumption
  <2>4. WriteRings(regs)[k] = [ring |-> TRUE, enable |-> regs[k].enable, tail |-> 0]
    BY <2>1, <2>2 DEF QueueRegs
  <2> QED
    BY <2>1, <2>3, <2>4 DEF QueueRegs
<1>2. WriteRings(regs) \in [Queues -> QueueRegs]
  BY <1>1 DEF WriteRings
<1> QED
  BY <1>1, <1>2

(* Enabling asks for one queue, and leaves its ring what it was.           *)
LEMMA EnableFacts ==
    ASSUME NEW regs \in [Queues -> QueueRegs], NEW j \in Queues
    PROVE  /\ Enable(regs, j) \in [Queues -> QueueRegs]
           /\ \A k \in Queues :
                  /\ Enable(regs, j)[k].ring = regs[k].ring
                  /\ Enable(regs, j)[k].tail = regs[k].tail
                  /\ k # j => Enable(regs, j)[k] = regs[k]
                  /\ regs[k].enable = "on" => Enable(regs, j)[k] = regs[k]
BY DEF Enable, QueueRegs

(* The tail moves for one queue.                                           *)
LEMMA BumpFacts ==
    ASSUME NEW regs \in [Queues -> QueueRegs], queue \in Queues
    PROVE  /\ Bump(regs) \in [Queues -> QueueRegs]
           /\ \A k \in Queues :
                  /\ Bump(regs)[k].ring = regs[k].ring
                  /\ Bump(regs)[k].enable = regs[k].enable
                  /\ Bump(regs)[k].tail =
                         IF k = queue THEN num_rdesc - 1 ELSE regs[k].tail
BY LinkAssumption DEF Bump, QueueRegs

(* The bounds of the loops.                                                *)
LEMMA Bounds ==
    /\ -1 \in -1 .. Timeout /\ Timeout \in -1 .. Timeout
    /\ LinkTimeout \in -1 .. LinkTimeout /\ 0 \in Queues
    /\ \A k \in Queues : k \in Nat /\ (k + 1 \notin Queues => k + 1 = IXGBE_NUM_QUEUE_PAIRS)
BY LinkAssumption DEF Queues

(* Every step keeps the types.                                             *)
LEMMA LinkTypesKept == LinkTypeOK /\ [LinkNext]_linkVars => LinkTypeOK'
<1> SUFFICES ASSUME LinkTypeOK, [LinkNext]_linkVars PROVE LinkTypeOK'
  OBVIOUS
<1> USE DEF LinkTypeOK
<1>1. ASSUME NEW mapped \in BOOLEAN, ixgbe_new(mapped) PROVE LinkTypeOK'
  BY <1>1, Bounds, QueuesOffFacts DEF ixgbe_new, Wait, Waits
<1>2. CASE look_in_vain
  <2>1. timeout \in Int /\ timeout >= 0 /\ Timeout \in Nat /\ LinkTimeout \in Nat
    BY <1>2, LinkAssumption DEF look_in_vain, TimedOut
  <2>2. timeout' \in -1 .. Timeout \cup -1 .. LinkTimeout /\ waited' \in Nat
    BY <1>2, <2>1 DEF look_in_vain
  <2>3. faltered' \in BOOLEAN
    BY <1>2 DEF look_in_vain
  <2> QED
    BY <1>2, <2>2, <2>3 DEF look_in_vain, adapterVars
<1>3. CASE give_up
  BY <1>3 DEF give_up, adapterVars
<1>4. CASE master_disabled
  BY <1>4, Bounds DEF master_disabled, Wait, Waits, Live
<1>5. CASE reset_completed
  BY <1>5, Bounds DEF reset_completed, Wait, Waits, Live
<1>6. CASE linked_up \/ xmit_queue_enabled \/ xmit_up
  BY <1>6 DEF linked_up, xmit_queue_enabled, xmit_up, Go, Writes, adapterVars
<1>7. CASE ixgbe_write_tdesc \/ transmit_enable
  BY <1>7, WriteRingsFacts, Bounds
  DEF ixgbe_write_tdesc, transmit_enable, Go, Writes, IfLive, Live
<1>8. CASE xmit_queue_asked \/ recv_queue_asked
  BY <1>8, EnableFacts, Bounds
  DEF xmit_queue_asked, recv_queue_asked, Wait, Waits, IfLive
<1>9. CASE ixgbe_write_rdesc
  BY <1>9, WriteRingsFacts, Bounds DEF ixgbe_write_rdesc, Go, Writes, IfLive
<1>10. CASE recv_queue_enabled \/ recv_up
  BY <1>10, BumpFacts DEF recv_queue_enabled, recv_up, Go, Writes, IfLive, Live
<1>11. CASE nic_leaves_bus \/ nic_links \/ nic_pulled
  BY <1>11 DEF nic_leaves_bus, nic_links, nic_pulled, driverVars
<1>12. CASE nic_resets
  BY <1>12, QueuesOffFacts DEF nic_resets, driverVars
<1>13. ASSUME NEW k \in Queues, nic_enables(k) PROVE LinkTypeOK'
  <2>1. /\ [tx EXCEPT ![k].enable = "on"] \in [Queues -> QueueRegs]
        /\ [rx EXCEPT ![k].enable = "on"] \in [Queues -> QueueRegs]
    BY DEF QueueRegs
  <2> QED
    BY <1>13, <2>1 DEF nic_enables, driverVars
<1>14. CASE UNCHANGED linkVars
  BY <1>14 DEF linkVars, driverVars, adapterVars
<1> QED
  BY <1>1, <1>2, <1>3, <1>4, <1>5, <1>6, <1>7, <1>8, <1>9, <1>10, <1>11, <1>12,
     <1>13, <1>14 DEF LinkNext, linkup, nic

(* The initial states satisfy the invariant.                               *)
LEMMA LinkInitInv == LinkInit => LinkIInv
<1> SUFFICES ASSUME LinkInit PROVE LinkIInv
  OBVIOUS
<1>1. LinkTypeOK
  <2>1. timeout \in -1 .. Timeout
    BY LinkAssumption DEF LinkInit
  <2>2. /\ queue \in Queues /\ waited \in Nat
        /\ tx \in [Queues -> QueueRegs] /\ rx \in [Queues -> QueueRegs]
    BY Bounds, QueuesOffFacts DEF LinkInit
  <2> QED
    BY <2>1, <2>2 DEF LinkInit, LinkTypeOK
<1>2. FlagsTellTheTruth
  BY QueuesOffFacts DEF LinkInit, FlagsTellTheTruth
<1> QED
  BY <1>1, <1>2 DEF LinkInit, LinkIInv, CountsLooks, FlagsFollow, ResetOver,
                    XmitSoFar, RecvSoFar, Waits, Sending, Receiving

(* Every step keeps the counts.                                            *)
LEMMA CountsKept == LinkTypeOK /\ CountsLooks /\ [LinkNext]_linkVars => CountsLooks'
<1> SUFFICES ASSUME LinkTypeOK, CountsLooks, [LinkNext]_linkVars PROVE CountsLooks'
  OBVIOUS
<1>1. /\ timeout \in Int /\ waited \in Nat /\ Timeout \in Nat /\ LinkTimeout \in Nat
      /\ faltered \in BOOLEAN
  BY LinkAssumption DEF LinkTypeOK
<1>2. CASE look_in_vain
  <2>1. /\ at \in Waits /\ at' = at /\ timeout' = timeout - 1 /\ waited' = waited + 1
        /\ waited + timeout = Rounds
        /\ faltered' = (faltered \/ waited' > Rounds)
    BY <1>2 DEF look_in_vain, CountsLooks, Rounds
  <2>2. Rounds' = Rounds /\ Rounds \in Nat
    BY <1>1, <2>1 DEF Rounds
  <2>3. waited' + timeout' = Rounds'
    BY <1>1, <2>1, <2>2
  <2>4. waited' > Rounds' => faltered'
    BY <2>1, <2>2
  <2> QED
    BY <2>1, <2>3, <2>4 DEF CountsLooks, Waits
<1>3. CASE give_up
  <2>1. at \in Waits /\ timeout < 0 /\ at' = "failed" /\ faltered' = faltered
    BY <1>3 DEF give_up, TimedOut
  <2>2. waited + timeout = Rounds /\ (waited > Rounds => faltered) /\ Rounds \in Nat
    BY <1>1, <2>1 DEF CountsLooks, Rounds
  <2>3. faltered
    BY <1>1, <2>1, <2>2
  <2> QED
    BY <2>1, <2>3 DEF CountsLooks, Waits
<1>4. CASE \/ (\E mapped \in BOOLEAN : ixgbe_new(mapped))
           \/ master_disabled \/ reset_completed
           \/ xmit_queue_asked \/ recv_queue_asked
  <2>1. /\ at' \in Waits /\ waited' = 0
        /\ timeout' = IF at' = "link" THEN LinkTimeout ELSE Timeout
    BY <1>4 DEF ixgbe_new, master_disabled, reset_completed,
                xmit_queue_asked, recv_queue_asked, Wait, Waits
  <2> QED
    BY <1>1, <2>1 DEF CountsLooks, Rounds, Waits
<1>5. CASE \/ linked_up \/ ixgbe_write_tdesc \/ transmit_enable \/ xmit_queue_enabled
           \/ xmit_up \/ ixgbe_write_rdesc \/ recv_queue_enabled \/ recv_up
  <2>1. at' \in Writes \cup {"up"}
    BY <1>5 DEF linked_up, ixgbe_write_tdesc, transmit_enable, xmit_queue_enabled,
                xmit_up, ixgbe_write_rdesc, recv_queue_enabled, recv_up, Go, Writes
  <2> QED
    BY <2>1 DEF CountsLooks, Waits, Writes
<1>6. CASE nic \/ UNCHANGED linkVars
  <2>1. at' = at /\ timeout' = timeout /\ waited' = waited
    BY <1>6 DEF nic, nic_leaves_bus, nic_resets, nic_links, nic_pulled, nic_enables,
                linkVars, driverVars
  <2>2. faltered => faltered'
    BY <1>6, Zenon DEF nic, nic_leaves_bus, nic_resets, nic_links, nic_pulled, nic_enables,
                       linkVars
  <2> QED
    BY <2>1, <2>2 DEF CountsLooks, Rounds
<1> QED
  BY <1>2, <1>3, <1>4, <1>5, <1>6 DEF LinkNext, linkup

(* Every step keeps the flags in accord with the place.                    *)
LEMMA FlagsFollowKept == LinkTypeOK /\ FlagsFollow /\ [LinkNext]_linkVars => FlagsFollow'
<1> SUFFICES ASSUME LinkTypeOK, FlagsFollow, [LinkNext]_linkVars PROVE FlagsFollow'
  OBVIOUS
<1> USE DEF Receiving
<1>1. CASE \E mapped \in BOOLEAN : ixgbe_new(mapped)
  BY <1>1 DEF ixgbe_new, Wait, FlagsFollow
<1>2. CASE look_in_vain \/ nic \/ UNCHANGED linkVars
  <2>1. at' = at /\ xmit_enabled' = xmit_enabled /\ recv_enabled' = recv_enabled
    BY <1>2 DEF look_in_vain, nic, nic_leaves_bus, nic_resets, nic_links, nic_pulled,
                nic_enables, linkVars, driverVars
  <2> QED
    BY <2>1 DEF FlagsFollow
<1>3. CASE give_up
  BY <1>3 DEF give_up, FlagsFollow, Waits
<1>4. CASE \/ master_disabled \/ reset_completed \/ linked_up
           \/ ixgbe_write_tdesc \/ transmit_enable \/ xmit_queue_asked
           \/ xmit_queue_enabled
  BY <1>4 DEF master_disabled, reset_completed, linked_up, ixgbe_write_tdesc,
              transmit_enable, xmit_queue_asked, xmit_queue_enabled,
              Go, Wait, Seen, FlagsFollow
<1>5. CASE xmit_up \/ recv_up
  BY <1>5 DEF xmit_up, recv_up, Go, Seen, FlagsFollow
<1>6. CASE ixgbe_write_rdesc \/ recv_queue_asked \/ recv_queue_enabled
  BY <1>6 DEF ixgbe_write_rdesc, recv_queue_asked, recv_queue_enabled,
              Go, Wait, Seen, FlagsFollow
<1> QED
  BY <1>1, <1>2, <1>3, <1>4, <1>5, <1>6 DEF LinkNext, linkup

(* What is true of the adapter's registers.                                *)
Truth == FlagsTellTheTruth /\ ResetOver /\ XmitSoFar /\ RecvSoFar

(* A step that leaves flags and registers alone, and goes on at most to a  *)
(* place that promises nothing.                                            *)
LEMMA TruthStays ==
    ASSUME Truth,
           xmit_enabled' = xmit_enabled, recv_enabled' = recv_enabled,
           answers' = answers, rst' = rst, masked' = masked,
           dmatxctl' = dmatxctl, rxctrl' = rxctrl, tx' = tx, rx' = rx,
           (at' = at /\ queue' = queue) \/ at' = "failed"
    PROVE  Truth'
<1>1. FlagsTellTheTruth'
  BY DEF Truth, FlagsTellTheTruth, Live, RingsBeforeQueues, AllOn
<1>2. ResetOver'
  BY DEF Truth, ResetOver, Live, Sending, Receiving
<1>3. XmitSoFar' /\ RecvSoFar'
  BY DEF Truth, XmitSoFar, RecvSoFar, Live, Rung
<1> QED
  BY <1>1, <1>2, <1>3 DEF Truth

(* The driver's steps up to the reset, and the adapter's reset.            *)
LEMMA TruthBefore ==
    /\ LinkTypeOK /\ FlagsFollow /\ Truth
    /\ \/ \E mapped \in BOOLEAN : ixgbe_new(mapped)
       \/ master_disabled \/ reset_completed \/ nic_resets \/ nic_pulled
    => Truth'
<1> SUFFICES ASSUME LinkTypeOK, FlagsFollow, Truth,
                    \/ \E mapped \in BOOLEAN : ixgbe_new(mapped)
                    \/ master_disabled \/ reset_completed \/ nic_resets \/ nic_pulled
             PROVE  Truth'
  OBVIOUS
<1> USE DEF Sending, Receiving
<1>1. CASE \E mapped \in BOOLEAN : ixgbe_new(mapped)
  <2>1. at' = "master" /\ ~xmit_enabled' /\ ~recv_enabled' /\ tx' = QueuesOff /\ rx' = QueuesOff
    BY <1>1 DEF ixgbe_new, Wait
  <2> QED
    BY <2>1, QueuesOffFacts DEF Truth, FlagsTellTheTruth, ResetOver, XmitSoFar, RecvSoFar
<1>2. CASE master_disabled \/ reset_completed
  <2>1. /\ at \in {"master", "reset"} /\ at' \in {"reset", "link"}
        /\ ~xmit_enabled' /\ ~recv_enabled'
        /\ tx' = tx /\ rx' = rx /\ answers' = answers
    BY <1>2 DEF master_disabled, reset_completed, Seen, Wait, FlagsFollow
  <2>2. Live' /\ at' = "link" => ~rst' /\ masked'
    BY <1>2, Zenon DEF master_disabled, reset_completed, Seen, Wait, Answered, Check, Live
  <2>3. FlagsTellTheTruth'
    BY <2>1 DEF Truth, FlagsTellTheTruth, Live, RingsBeforeQueues
  <2> QED
    BY <2>1, <2>2, <2>3 DEF Truth, ResetOver, XmitSoFar, RecvSoFar
<1>3. CASE nic_resets
  <2>1. /\ Live /\ rst /\ at' = at /\ tx' = QueuesOff /\ rx' = QueuesOff
        /\ xmit_enabled' = xmit_enabled /\ recv_enabled' = recv_enabled
    BY <1>3 DEF nic_resets, driverVars
  <2>2. ~xmit_enabled' /\ at' \notin {"link", "up"} \cup Sending \cup Receiving
    BY <2>1 DEF Truth, ResetOver
  <2>3. ~recv_enabled'
    BY <2>1, <2>2 DEF Truth, FlagsTellTheTruth
  <2> QED
    BY <2>1, <2>2, <2>3, QueuesOffFacts
       DEF Truth, FlagsTellTheTruth, ResetOver, XmitSoFar, RecvSoFar
<1>4. CASE nic_pulled
  <2>1. ~Live' /\ xmit_enabled' = xmit_enabled /\ recv_enabled' = recv_enabled
    BY <1>4 DEF nic_pulled, Live, driverVars
  <2> QED
    BY <2>1 DEF Truth, FlagsTellTheTruth, ResetOver, XmitSoFar, RecvSoFar
<1> QED
  BY <1>1, <1>2, <1>3, <1>4

(* The set-up of transmission.                                             *)
LEMMA TruthXmit ==
    /\ LinkTypeOK /\ FlagsFollow /\ Truth
    /\ \/ linked_up \/ ixgbe_write_tdesc \/ transmit_enable
       \/ xmit_queue_asked \/ xmit_queue_enabled
    => Truth'
<1> SUFFICES ASSUME LinkTypeOK, FlagsFollow, Truth,
                    \/ linked_up \/ ixgbe_write_tdesc \/ transmit_enable
                    \/ xmit_queue_asked \/ xmit_queue_enabled
             PROVE  Truth'
  OBVIOUS
<1>1. tx \in [Queues -> QueueRegs] /\ queue \in Queues
  BY DEF LinkTypeOK
<1>2. /\ at \in {"link"} \cup Sending /\ at' \in Sending
      /\ ~xmit_enabled' /\ ~recv_enabled'
      /\ rx' = rx /\ answers' = answers /\ rst' = rst /\ masked' = masked
  BY DEF linked_up, ixgbe_write_tdesc, transmit_enable, xmit_queue_asked,
         xmit_queue_enabled, Go, Seen, Wait, FlagsFollow, Sending, Receiving, adapterVars
<1>3. ResetOver' /\ RecvSoFar'
  BY <1>2 DEF Truth, ResetOver, RecvSoFar, Live, Sending
<1>4. Live' => RingsBeforeQueues(rx')
  BY <1>2 DEF Truth, FlagsTellTheTruth, RingsBeforeQueues, Live
<1>5. ASSUME Live' PROVE RingsBeforeQueues(tx') /\ XmitSoFar'
  <2>1. Live /\ RingsBeforeQueues(tx)
    BY <1>2, <1>5 DEF Live, Truth, FlagsTellTheTruth
  <2>2. CASE linked_up
    BY <2>1, <2>2 DEF linked_up, Go, XmitSoFar, adapterVars
  <2>3. CASE ixgbe_write_tdesc
    <3>1. at' = "dmatxctl" /\ tx' = WriteRings(tx)
      BY <2>1, <2>3 DEF ixgbe_write_tdesc, Go, IfLive
    <3>2. \A k \in Queues : tx'[k].ring /\ tx'[k].tail = 0
      BY <1>1, <3>1, WriteRingsFacts
    <3> QED
      BY <3>1, <3>2 DEF XmitSoFar, Rung, RingsBeforeQueues
  <2>4. CASE transmit_enable
    <3>1. at = "dmatxctl" /\ at' = "txdctl" /\ tx' = tx /\ dmatxctl' /\ queue' = 0
      BY <2>1, <2>4 DEF transmit_enable, Go
    <3>2. Rung(tx) /\ \A k \in Queues : tx[k].tail = 0
      BY <2>1, <3>1 DEF Truth, XmitSoFar
    <3>3. \A k \in Queues : ~(k < queue')
      BY <3>1, Bounds
    <3> QED
      BY <2>1, <3>1, <3>2, <3>3 DEF XmitSoFar, Rung
  <2>5. CASE xmit_queue_asked
    <3>1. /\ at = "txdctl" /\ at' = "xmit" /\ queue' = queue /\ dmatxctl' = dmatxctl
          /\ tx' = Enable(tx, queue)
      BY <2>1, <2>5 DEF xmit_queue_asked, Wait, IfLive
    <3>2. /\ Rung(tx) /\ dmatxctl
          /\ \A k \in Queues : tx[k].tail = 0
          /\ \A k \in Queues : k < queue => tx[k].enable = "on"
      BY <2>1, <3>1 DEF Truth, XmitSoFar
    <3>3. \A k \in Queues :
              /\ tx'[k].ring = tx[k].ring /\ tx'[k].tail = tx[k].tail
              /\ tx[k].enable = "on" => tx'[k] = tx[k]
      BY <1>1, <3>1, EnableFacts
    <3>4. \A k \in Queues : tx'[k].ring /\ tx'[k].tail = 0
      BY <3>2, <3>3 DEF Rung
    <3>5. \A k \in Queues : k < queue' => tx'[k].enable = "on"
      BY <3>1, <3>2, <3>3
    <3> QED
      BY <3>1, <3>2, <3>4, <3>5 DEF XmitSoFar, Rung, RingsBeforeQueues
  <2>6. CASE xmit_queue_enabled
    <3>1. /\ at = "xmit" /\ at' = "txdctl" /\ tx[queue].enable = "on"
          /\ tx' = tx /\ queue' = queue + 1 /\ queue + 1 \in Queues
          /\ dmatxctl' = dmatxctl
      BY <2>1, <2>6
      DEF xmit_queue_enabled, Go, Seen, Answered, Check, Live, adapterVars
    <3>2. /\ Rung(tx) /\ dmatxctl
          /\ \A k \in Queues : tx[k].tail = 0
          /\ \A k \in Queues : k < queue => tx[k].enable = "on"
      BY <2>1, <3>1 DEF Truth, XmitSoFar
    <3>3. ASSUME NEW k \in Queues, k < queue' PROVE tx[k].enable = "on"
      <4>1. k < queue \/ k = queue
        BY <1>1, <3>1, <3>3, Bounds
      <4> QED
        BY <3>1, <3>2, <4>1
    <3> QED
      BY <2>1, <3>1, <3>2, <3>3 DEF XmitSoFar, Rung
  <2> QED
    BY <2>2, <2>3, <2>4, <2>5, <2>6
<1>6. XmitSoFar'
  BY <1>5 DEF XmitSoFar
<1> QED
  BY <1>2, <1>3, <1>4, <1>5, <1>6 DEF Truth, FlagsTellTheTruth, RingsBeforeQueues

(* The end of the set-up of transmission: all queues are on.               *)
LEMMA TruthXmitUp == LinkTypeOK /\ FlagsFollow /\ Truth /\ xmit_up => Truth'
<1> SUFFICES ASSUME LinkTypeOK, FlagsFollow, Truth, xmit_up PROVE Truth'
  OBVIOUS
<1>1. tx \in [Queues -> QueueRegs] /\ queue \in Queues
  BY DEF LinkTypeOK
<1>2. /\ at = "xmit" /\ at' = "rdesc" /\ xmit_enabled' /\ ~recv_enabled'
      /\ queue + 1 \notin Queues
      /\ tx' = tx /\ rx' = rx /\ answers' = answers /\ rst' = rst /\ masked' = masked
      /\ dmatxctl' = dmatxctl
  BY DEF xmit_up, Go, Seen, FlagsFollow, Receiving, adapterVars
<1>3. ResetOver' /\ XmitSoFar' /\ RecvSoFar'
  BY <1>2 DEF Truth, ResetOver, XmitSoFar, RecvSoFar, Live, Sending
<1>4. ASSUME Live' PROVE dmatxctl' /\ AllOn(tx', 0) /\ ~rst' /\ masked'
  <2>1. Live
    BY <1>2, <1>4 DEF Live
  <2>2. tx[queue].enable = "on"
    BY <1>2, <2>1 DEF xmit_up, Seen, Answered, Check, Live
  <2>3. /\ Rung(tx) /\ dmatxctl
        /\ \A k \in Queues : tx[k].tail = 0
        /\ \A k \in Queues : k < queue => tx[k].enable = "on"
    BY <1>2, <2>1 DEF Truth, XmitSoFar
  <2>4. ASSUME NEW k \in Queues
        PROVE  tx[k] = [ring |-> TRUE, enable |-> "on", tail |-> 0]
    <3>1. k < queue \/ k = queue
      BY <1>1, <1>2, LinkAssumption DEF Queues
    <3>2. tx[k].ring /\ tx[k].tail = 0 /\ tx[k].enable = "on"
      BY <2>2, <2>3, <3>1 DEF Rung
    <3>3. tx[k] \in QueueRegs
      BY <1>1
    <3> QED
      BY <3>2, <3>3 DEF QueueRegs
  <2> QED
    BY <1>2, <1>3, <1>4, <2>3, <2>4 DEF AllOn, ResetOver
<1>5. Live' => RingsBeforeQueues(rx') /\ RingsBeforeQueues(tx')
  BY <1>2 DEF Truth, FlagsTellTheTruth, RingsBeforeQueues, Live
<1> QED
  BY <1>2, <1>3, <1>4, <1>5 DEF Truth, FlagsTellTheTruth, AllOn, RingsBeforeQueues

(* The set-up of reception.                                                *)
LEMMA TruthRecv ==
    /\ LinkTypeOK /\ FlagsFollow /\ Truth
    /\ ixgbe_write_rdesc \/ recv_queue_asked \/ recv_queue_enabled
    => Truth'
<1> SUFFICES ASSUME LinkTypeOK, FlagsFollow, Truth,
                    ixgbe_write_rdesc \/ recv_queue_asked \/ recv_queue_enabled
             PROVE  Truth'
  OBVIOUS
<1>1. rx \in [Queues -> QueueRegs] /\ queue \in Queues
  BY DEF LinkTypeOK
<1>2. /\ at \in Receiving /\ at' \in {"rxdctl", "recv"}
      /\ xmit_enabled /\ xmit_enabled' /\ ~recv_enabled'
      /\ tx' = tx /\ answers' = answers /\ rst' = rst /\ masked' = masked
      /\ dmatxctl' = dmatxctl
  BY DEF ixgbe_write_rdesc, recv_queue_asked, recv_queue_enabled, Go, Seen, Wait,
         FlagsFollow, Receiving
<1>3. ResetOver' /\ XmitSoFar'
  BY <1>2 DEF Truth, ResetOver, XmitSoFar, Live, Receiving
<1>4. Live' => dmatxctl' /\ AllOn(tx', 0) /\ ~rst' /\ masked' /\ RingsBeforeQueues(tx')
  BY <1>2 DEF Truth, FlagsTellTheTruth, AllOn, RingsBeforeQueues, Live
<1>5. ASSUME Live'
      PROVE  /\ Rung(rx')
             /\ \A k \in Queues : k < queue' =>
                    rx'[k].enable = "on" /\ rx'[k].tail = num_rdesc - 1
  <2>1. Live
    BY <1>2, <1>5 DEF Live
  <2>2. CASE ixgbe_write_rdesc
    <3>1. rx' = WriteRings(rx) /\ queue' = 0
      BY <2>1, <2>2 DEF ixgbe_write_rdesc, IfLive
    <3>2. \A k \in Queues : rx'[k].ring
      BY <1>1, <3>1, WriteRingsFacts
    <3>3. \A k \in Queues : ~(k < queue')
      BY <3>1, Bounds
    <3> QED
      BY <3>2, <3>3 DEF Rung
  <2>3. CASE recv_queue_asked
    <3>1. at = "rxdctl" /\ queue' = queue /\ rx' = Enable(rx, queue)
      BY <2>1, <2>3 DEF recv_queue_asked, IfLive
    <3>2. /\ Rung(rx)
          /\ \A k \in Queues : k < queue =>
                 rx[k].enable = "on" /\ rx[k].tail = num_rdesc - 1
      BY <2>1, <3>1 DEF Truth, RecvSoFar
    <3>3. \A k \in Queues :
              /\ rx'[k].ring = rx[k].ring
              /\ rx[k].enable = "on" => rx'[k] = rx[k]
      BY <1>1, <3>1, EnableFacts
    <3> QED
      BY <3>1, <3>2, <3>3 DEF Rung
  <2>4. CASE recv_queue_enabled
    <3>1. /\ at = "recv" /\ rx[queue].enable = "on"
          /\ rx' = Bump(rx) /\ queue' = queue + 1 /\ queue + 1 \in Queues
      BY <2>1, <2>4 DEF recv_queue_enabled, Seen, Answered, Check, IfLive, Live
    <3>2. /\ Rung(rx)
          /\ \A k \in Queues : k < queue =>
                 rx[k].enable = "on" /\ rx[k].tail = num_rdesc - 1
      BY <2>1, <3>1 DEF Truth, RecvSoFar
    <3>3. \A k \in Queues :
              /\ rx'[k].ring = rx[k].ring /\ rx'[k].enable = rx[k].enable
              /\ rx'[k].tail = IF k = queue THEN num_rdesc - 1 ELSE rx[k].tail
      BY <1>1, <3>1, BumpFacts
    <3>4. ASSUME NEW k \in Queues, k < queue'
          PROVE  rx'[k].enable = "on" /\ rx'[k].tail = num_rdesc - 1
      <4>1. k < queue \/ k = queue
        BY <1>1, <3>1, <3>4, Bounds
      <4> QED
        BY <1>1, <3>1, <3>2, <3>3, <4>1
    <3>5. \A k \in Queues : rx'[k].ring
      BY <3>2, <3>3 DEF Rung
    <3> QED
      BY <3>4, <3>5 DEF Rung
  <2> QED
    BY <2>2, <2>3, <2>4
<1>6. RecvSoFar'
  BY <1>5 DEF RecvSoFar, Rung
<1>7. Live' => RingsBeforeQueues(rx')
  BY <1>5 DEF Rung, RingsBeforeQueues
<1> QED
  BY <1>2, <1>3, <1>4, <1>6, <1>7 DEF Truth, FlagsTellTheTruth, AllOn, RingsBeforeQueues

(* The last queue is on.                                                   *)
LEMMA TruthUp == LinkTypeOK /\ FlagsFollow /\ Truth /\ recv_up => Truth'
<1> SUFFICES ASSUME LinkTypeOK, FlagsFollow, Truth, recv_up PROVE Truth'
  OBVIOUS
<1>1. rx \in [Queues -> QueueRegs] /\ queue \in Queues
  BY DEF LinkTypeOK
<1>2. /\ at = "recv" /\ at' = "up" /\ xmit_enabled /\ xmit_enabled' /\ recv_enabled'
      /\ tx' = tx /\ answers' = answers /\ rst' = rst /\ masked' = masked
      /\ dmatxctl' = dmatxctl /\ queue + 1 \notin Queues
  BY DEF recv_up, Go, Seen, FlagsFollow, Receiving
<1>3. ResetOver' /\ XmitSoFar' /\ RecvSoFar'
  BY <1>2 DEF Truth, ResetOver, XmitSoFar, RecvSoFar, Live, Receiving
<1>4. ASSUME Live' PROVE rxctrl' /\ AllOn(rx', num_rdesc - 1)
  <2>1. Live
    BY <1>2, <1>4 DEF Live
  <2>2. rx[queue].enable = "on" /\ rx' = Bump(rx) /\ rxctrl'
    BY <2>1 DEF recv_up, Seen, Answered, Check, IfLive, Live
  <2>3. /\ Rung(rx)
        /\ \A k \in Queues : k < queue =>
               rx[k].enable = "on" /\ rx[k].tail = num_rdesc - 1
    BY <1>2, <2>1 DEF Truth, RecvSoFar
  <2>4. /\ rx' \in [Queues -> QueueRegs]
        /\ \A k \in Queues :
               /\ rx'[k].ring = rx[k].ring /\ rx'[k].enable = rx[k].enable
               /\ rx'[k].tail = IF k = queue THEN num_rdesc - 1 ELSE rx[k].tail
    BY <1>1, <2>2, BumpFacts
  <2>5. ASSUME NEW k \in Queues
        PROVE  rx'[k] = [ring |-> TRUE, enable |-> "on", tail |-> num_rdesc - 1]
    <3>1. k < queue \/ k = queue
      BY <1>1, <1>2, LinkAssumption DEF Queues
    <3>2. rx'[k].ring /\ rx'[k].tail = num_rdesc - 1 /\ rx'[k].enable = "on"
      BY <2>2, <2>3, <2>4, <3>1 DEF Rung
    <3>3. rx'[k] \in QueueRegs
      BY <2>4
    <3> QED
      BY <3>2, <3>3 DEF QueueRegs
  <2> QED
    BY <2>2, <2>5 DEF AllOn
<1>5. Live' => ~rst' /\ masked' /\ dmatxctl' /\ AllOn(tx', 0)
  BY <1>2 DEF Truth, FlagsTellTheTruth, Live
<1>6. Live' => RingsBeforeQueues(rx)' /\ RingsBeforeQueues(tx)'
  BY <1>4, <1>5 DEF RingsBeforeQueues, AllOn
<1>7. FlagsTellTheTruth'
  BY <1>2, <1>4, <1>5, <1>6 DEF FlagsTellTheTruth, AllOn
<1> QED
  BY <1>3, <1>7 DEF Truth

(* The adapter turns on a queue it was asked to.                           *)
LEMMA TruthEnables ==
    ASSUME LinkTypeOK, Truth, NEW j \in Queues, nic_enables(j)
    PROVE  Truth'
<1>1. tx \in [Queues -> QueueRegs] /\ rx \in [Queues -> QueueRegs]
  BY DEF LinkTypeOK
<1>2. /\ at' = at /\ queue' = queue /\ answers' = answers
      /\ rst' = rst /\ masked' = masked /\ dmatxctl' = dmatxctl /\ rxctrl' = rxctrl
      /\ xmit_enabled' = xmit_enabled /\ recv_enabled' = recv_enabled /\ Live
  BY DEF nic_enables, driverVars
<1>3. ResetOver'
  BY <1>2 DEF Truth, ResetOver, Live
<1>4. CASE /\ tx[j].enable = "asked"
           /\ tx' = [tx EXCEPT ![j].enable = "on"] /\ rx' = rx
  <2>1. \A k \in Queues :
            /\ tx'[k].ring = tx[k].ring /\ tx'[k].tail = tx[k].tail
            /\ tx'[k].enable = IF k = j THEN "on" ELSE tx[k].enable
    BY <1>1, <1>4 DEF QueueRegs
  <2>2. ~xmit_enabled
    BY <1>2, <1>4 DEF Truth, FlagsTellTheTruth, AllOn
  <2>3. XmitSoFar' /\ RecvSoFar'
    BY <1>2, <1>4, <2>1 DEF Truth, XmitSoFar, RecvSoFar, Live, Rung
  <2>4. RingsBeforeQueues(tx')
    BY <1>2, <1>4, <2>1 DEF Truth, FlagsTellTheTruth, RingsBeforeQueues
  <2>5. RingsBeforeQueues(rx')
    BY <1>2, <1>4 DEF Truth, FlagsTellTheTruth, RingsBeforeQueues
  <2>6. FlagsTellTheTruth'
    BY <1>2, <2>2, <2>4, <2>5 DEF Truth, FlagsTellTheTruth, RingsBeforeQueues
  <2> QED
    BY <1>3, <2>3, <2>6 DEF Truth
<1>5. CASE /\ rx[j].enable = "asked"
           /\ rx' = [rx EXCEPT ![j].enable = "on"] /\ tx' = tx
  <2>1. \A k \in Queues :
            /\ rx'[k].ring = rx[k].ring /\ rx'[k].tail = rx[k].tail
            /\ rx'[k].enable = IF k = j THEN "on" ELSE rx[k].enable
    BY <1>1, <1>5 DEF QueueRegs
  <2>2. ~recv_enabled
    BY <1>2, <1>5 DEF Truth, FlagsTellTheTruth, AllOn
  <2>3. XmitSoFar' /\ RecvSoFar'
    BY <1>2, <1>5, <2>1 DEF Truth, XmitSoFar, RecvSoFar, Live, Rung
  <2>4. RingsBeforeQueues(rx')
    BY <1>2, <1>5, <2>1 DEF Truth, FlagsTellTheTruth, RingsBeforeQueues
  <2>5. RingsBeforeQueues(tx') /\ (xmit_enabled => AllOn(tx', 0))
    BY <1>2, <1>5 DEF Truth, FlagsTellTheTruth, RingsBeforeQueues, AllOn
  <2>6. FlagsTellTheTruth'
    BY <1>2, <2>2, <2>4, <2>5 DEF Truth, FlagsTellTheTruth, RingsBeforeQueues, AllOn
  <2> QED
    BY <1>3, <2>3, <2>6 DEF Truth
<1> QED
  BY <1>4, <1>5 DEF nic_enables

(* Every step keeps what is true of the registers.                         *)
LEMMA TruthKept ==
    LinkTypeOK /\ FlagsFollow /\ Truth /\ [LinkNext]_linkVars => Truth'
<1> SUFFICES ASSUME LinkTypeOK, FlagsFollow, Truth, [LinkNext]_linkVars PROVE Truth'
  OBVIOUS
<1>1. CASE look_in_vain \/ give_up \/ UNCHANGED linkVars
  <2>1. /\ xmit_enabled' = xmit_enabled /\ recv_enabled' = recv_enabled
        /\ answers' = answers /\ rst' = rst /\ masked' = masked
        /\ dmatxctl' = dmatxctl /\ rxctrl' = rxctrl /\ tx' = tx /\ rx' = rx
        /\ (at' = at /\ queue' = queue) \/ at' = "failed"
    BY <1>1 DEF look_in_vain, give_up, linkVars, driverVars, adapterVars
  <2> QED
    BY <2>1, TruthStays
<1>2. CASE nic_leaves_bus \/ nic_links
  <2>1. /\ xmit_enabled' = xmit_enabled /\ recv_enabled' = recv_enabled
        /\ answers' = answers /\ rst' = rst /\ masked' = masked
        /\ dmatxctl' = dmatxctl /\ rxctrl' = rxctrl /\ tx' = tx /\ rx' = rx
        /\ at' = at /\ queue' = queue
    BY <1>2 DEF nic_leaves_bus, nic_links, driverVars
  <2> QED
    BY <2>1, TruthStays
<1>3. CASE \/ \E mapped \in BOOLEAN : ixgbe_new(mapped)
           \/ master_disabled \/ reset_completed \/ nic_resets \/ nic_pulled
  BY <1>3, TruthBefore
<1>4. CASE \/ linked_up \/ ixgbe_write_tdesc \/ transmit_enable
           \/ xmit_queue_asked \/ xmit_queue_enabled
  BY <1>4, TruthXmit
<1>5. CASE xmit_up \/ ixgbe_write_rdesc \/ recv_queue_asked \/ recv_queue_enabled
  BY <1>5, TruthXmitUp, TruthRecv
<1>6. CASE recv_up
  BY <1>6, TruthUp
<1>7. CASE \E k \in Queues : nic_enables(k)
  BY <1>7, TruthEnables
<1> QED
  BY <1>1, <1>2, <1>3, <1>4, <1>5, <1>6, <1>7 DEF LinkNext, linkup, nic
-----------------------------------------------------------------------------
(* The inductive invariant of the bring-up: the flags agree with the place *)
(* the driver is at, and the registers with both.                          *)
THEOREM LinkInvariant == LinkSpec => []LinkIInv
<1>1. LinkIInv /\ [LinkNext]_linkVars => LinkIInv'
  BY LinkTypesKept, CountsKept, FlagsFollowKept, TruthKept DEF LinkIInv, Truth
<1> QED
  BY <1>1, LinkInitInv, PTL DEF LinkSpec

(* For any number of queues and descriptors and any time-outs, and         *)
(* whatever the adapter does, the driver's flags are true of the adapter   *)
(* (ixgbe_linkup).                                                         *)
THEOREM FlagsAreTrue == LinkSpec => []FlagsTellTheTruth
<1>1. LinkIInv => FlagsTellTheTruth
  BY DEF LinkIInv
<1> QED
  BY <1>1, LinkInvariant, PTL

(* And an adapter that is given up had been late, or its link had gone     *)
(* down again (the waiting loops).                                         *)
THEOREM PromptComesUp == LinkSpec => []PromptAdapterComesUp
<1>1. LinkIInv => PromptAdapterComesUp
  <2>1. CASE at = "up"
    BY <2>1 DEF LinkIInv, FlagsFollow, PromptAdapterComesUp
  <2>2. CASE at # "up"
    BY <2>2 DEF LinkIInv, CountsLooks, PromptAdapterComesUp
  <2> QED
    BY <2>1, <2>2
<1> QED
  BY <1>1, LinkInvariant, PTL
-----------------------------------------------------------------------------
(* Each step of the system is one of init's or leaves init where it is,    *)
(* and one of the bring-up or none.                                        *)
LEMMA StepsOfInit == [StartupNext]_vars => [InitNext]_initVars
<1> SUFFICES ASSUME [StartupNext]_vars PROVE [InitNext]_initVars
  OBVIOUS
<1>1. CASE init \/ main
  BY <1>1, Zenon DEF init, main, InitNext, InitStep
<1>2. CASE \/ page_init \/ deinit_returns \/ acpi_init \/ hpet_init \/ ixgbe_init
           \/ pci_init_returns \/ apic_init
  BY <1>2, Zenon DEF page_init, deinit_returns, acpi_init, hpet_init, ixgbe_init,
              pci_init_returns, apic_init, InitNext
<1>3. CASE pci_probe \/ pci_calls_new \/ ixgbe_linkup \/ adapter_step
  BY <1>3, Zenon DEF pci_probe, pci_calls_new, ixgbe_linkup, adapter_step
<1>4. CASE halted \/ UNCHANGED vars
  BY <1>4, Zenon DEF halted, vars
<1> QED
  BY <1>1, <1>2, <1>3, <1>4, Zenon DEF StartupNext, boot_step

(* So does the bring-up's part, whatever pci_calls_new hands over.         *)
LEMMA StepsOfLink == [StartupNext]_vars => [LinkNext]_linkVars
<1> SUFFICES ASSUME [StartupNext]_vars PROVE [LinkNext]_linkVars
  OBVIOUS
<1>1. CASE pci_calls_new
  <2> DEFINE mapped == pci_list[1].bar[1].addr # 0
  <2>1. mapped \in BOOLEAN
    OBVIOUS
  <2>2. ixgbe_new(mapped)
    BY <1>1 DEF pci_calls_new
  <2> HIDE DEF mapped
  <2> QED
    BY <2>1, <2>2 DEF LinkNext
<1>2. CASE ixgbe_linkup \/ adapter_step
  BY <1>2, Zenon DEF ixgbe_linkup, adapter_step, LinkNext
<1>3. CASE \/ init \/ main \/ deinit_returns \/ page_init \/ acpi_init \/ hpet_init
           \/ ixgbe_init \/ pci_probe \/ pci_init_returns \/ apic_init
  BY <1>3, Zenon DEF init, main, deinit_returns, page_init, acpi_init, hpet_init,
              ixgbe_init, pci_probe, pci_init_returns, apic_init
<1>4. CASE halted \/ UNCHANGED vars
  BY <1>4, Zenon DEF halted, vars
<1> QED
  BY <1>1, <1>2, <1>3, <1>4, Zenon DEF StartupNext, boot_step

(* The system goes through init's states.                                  *)
THEOREM StartupRunsInit == StartupSpec => InitSpec
<1>1. StartupInit => InitInit
  BY DEF StartupInit
<1> QED
  BY <1>1, StepsOfInit, PTL DEF StartupSpec, InitSpec

(* And its driver through the bring-up's.                                  *)
THEOREM StartupRunsLink == StartupSpec => LinkSpec
<1>1. StartupInit => LinkInit
  BY DEF StartupInit
<1> QED
  BY <1>1, StepsOfLink, PTL DEF StartupSpec, LinkSpec

(* So what was proved of the two holds of the system: init functions are   *)
(* called after what they need and deinit functions in the opposite order, *)
(* whatever the link order, and the driver's flags are true of whatever    *)
(* adapter the probe has found.                                            *)
THEOREM StartupSafe ==
    StartupSpec => [](/\ InitsAfterWhatTheyNeed /\ DeinitsMirrorInits
                      /\ FlagsTellTheTruth /\ PromptAdapterComesUp)
BY StartupRunsInit, StartupRunsLink, InitsInOrder, DeinitsInOrder, FlagsAreTrue,
   PromptComesUp, PTL
-----------------------------------------------------------------------------
(* The driver is registered when its init function has returned, and once: *)
(* while pci_init runs, which needs it, the list is the driver's.          *)
Registered ==
    /\ stage \in {"sort", "resort"} => running = None
    /\ stage = "init" /\ running # None => IsCalled(running)
    /\ ~IsCalled("ixgbe") => pci_driver_list = <<>>
    /\ stage = "init" /\ running = "ixgbe" => pci_driver_list = <<>>
    /\ IsCalled("ixgbe") /\ ~(stage = "init" /\ running = "ixgbe") =>
           pci_driver_list = <<ixgbe_idlist>>

(* The functions the probe is through with.                                *)
Looked == (1 .. func - 1) \cup {f \in {func} : driver = 2}

(* The probe's inductive invariant: the driver's new was called for those  *)
(* of them that it handles, once each.                                     *)
ProbeInv ==
    /\ func \in 1 .. PCI_FUNCS + 1 /\ driver \in 0 .. 2
    /\ space \in Seq(Configs) /\ bound \in Seq(Nat)
    /\ Len(space) = IF driver = 0 THEN func - 1 ELSE func
    /\ driver # 0 => func <= PCI_FUNCS /\ pci_list[1].id = space[func].id
    /\ \A k \in 1 .. Len(bound) : bound[k] \in Looked /\ space[bound[k]].id \in ixgbe_idlist
    /\ \A j, k \in 1 .. Len(bound) : bound[j] = bound[k] => j = k
    /\ \A f \in Nat : f \in Looked /\ space[f].id \in ixgbe_idlist =>
           \E k \in 1 .. Len(bound) : bound[k] = f

(* None of the files is "no function", and the PCI layer needs the driver. *)
LEMMA KernelFacts ==
    /\ Files = {"page", "acpi", "hpet", "ixgbe", "pci", "apic"}
    /\ "ixgbe" \in Needs["pci"] /\ None \notin Files
BY StartupAssumption, RecordsAssumption DEF KernelIds, KernelNeeds

(* The invariant means that pci_init finds the driver in the list.         *)
LEMMA DriverIsThere ==
    ASSUME InitIInv, Registered, stage = "init", running = "pci"
    PROVE  pci_driver_list = <<ixgbe_idlist>>
<1>1. IsCalled("pci")
  BY KernelFacts DEF Registered
<1>2. PICK k \in 1 .. Len(called) : called[k] = "pci"
  BY <1>1 DEF IsCalled
<1>3. called \in Seq(Files) /\ Len(called) \in Nat
  BY LenProperties DEF InitIInv, InitTypeOK
<1>4. PICK j \in 1 .. k - 1 : called[j] = "ixgbe"
  BY <1>2, KernelFacts DEF InitIInv, NeedsCalled
<1>5. IsCalled("ixgbe")
  BY <1>3, <1>4 DEF IsCalled
<1> QED
  BY <1>5 DEF Registered

(* Every step keeps the list of drivers what it should be.                 *)
LEMMA RegisteredKept ==
    InitIInv /\ InitIInv' /\ Registered /\ [StartupNext]_vars => Registered'
<1> SUFFICES ASSUME InitIInv, InitIInv', Registered, [StartupNext]_vars
             PROVE  Registered'
  OBVIOUS
<1>1. called \in Seq(Files) /\ Len(called) \in Nat
  BY LenProperties DEF InitIInv, InitTypeOK
<1>2. CASE ixgbe_init
  <2>1. /\ stage = "init" /\ running = "ixgbe" /\ stage' = stage /\ running' = None
        /\ called' = called /\ pci_driver_list' = <<ixgbe_idlist>> \o pci_driver_list
    BY <1>2 DEF ixgbe_init, Runs, func_returns, pci_driver_register, history
  <2>2. IsCalled("ixgbe") /\ pci_driver_list = <<>>
    BY <2>1, KernelFacts DEF Registered
  <2>3. pci_driver_list' = <<ixgbe_idlist>>
    BY <2>1, <2>2
  <2>4. IsCalled("ixgbe")'
    BY <2>1, <2>2 DEF IsCalled
  <2> QED
    BY <2>1, <2>3, <2>4, KernelFacts DEF Registered
<1>3. CASE \/ page_init \/ deinit_returns \/ acpi_init \/ hpet_init
           \/ pci_init_returns \/ apic_init
  <2>1. /\ stage' = stage /\ running' = None /\ called' = called
        /\ pci_driver_list' = pci_driver_list
        /\ stage = "init" => running # "ixgbe"
    BY <1>3 DEF page_init, deinit_returns, acpi_init, hpet_init, pci_init_returns,
                apic_init, Runs, func_returns, history, pciVars
  <2>2. IsCalled("ixgbe")' <=> IsCalled("ixgbe")
    BY <2>1 DEF IsCalled
  <2> QED
    BY <2>1, <2>2, KernelFacts DEF Registered
<1>4. CASE pci_probe \/ pci_calls_new \/ ixgbe_linkup \/ adapter_step \/ halted
           \/ UNCHANGED vars
  <2>1. /\ stage' = stage /\ running' = running /\ called' = called
        /\ pci_driver_list' = pci_driver_list
    BY <1>4 DEF pci_probe, pci_absent, pci_found, pci_no_match, pci_loaded,
                pci_calls_new, pci_new_call, ixgbe_linkup, adapter_step, halted,
                vars, initVars, pciVars, history
  <2> QED
    BY <2>1 DEF Registered, IsCalled
<1>5. CASE init /\ init_call
  <2>1. /\ stage = "init" /\ stage' = "init" /\ running = None
        /\ pci_driver_list' = pci_driver_list
    BY <1>5 DEF init, init_call, pciVars
  <2>2. CASE running' = running /\ called' = called
    BY <2>1, <2>2 DEF Registered, IsCalled
  <2>3. CASE running' = init_func[p] /\ called' = Append(called, init_func[p])
    <3> DEFINE g == init_func[p]
    <3>1. g \in Files
      <4>1. init_func \in [1 .. N -> Files] /\ p \in 1 .. N
        BY <1>5, NumberOfFiles, BijectionFacts DEF InitIInv, InitTypeOK, init_call
      <4> QED
        BY <4>1
    <3> HIDE DEF g
    <3>2. /\ Len(called') = Len(called) + 1 /\ called'[Len(called) + 1] = g
          /\ \A k \in 1 .. Len(called) : called'[k] = called[k]
      BY <1>1, <2>3, <3>1, AppendProperties DEF g
    <3>3. \A f : IsCalled(f)' <=> IsCalled(f) \/ f = g
      BY <1>1, <3>2 DEF IsCalled
    <3>4. ~IsCalled(g)
      BY <1>1, <3>2 DEF IsCalled, InitIInv, CalledOnce
    <3>5. running' = g
      BY <2>3 DEF g
    <3>6. CASE g = "ixgbe"
      BY <2>1, <3>3, <3>4, <3>5, <3>6 DEF Registered
    <3>7. CASE g # "ixgbe"
      BY <2>1, <3>1, <3>3, <3>5, <3>7, KernelFacts DEF Registered
    <3> QED
      BY <3>6, <3>7
  <2> QED
    BY <1>5, <2>2, <2>3 DEF init_call
<1>6. CASE (init /\ ~init_call) \/ main
  <2>1. /\ pci_driver_list' = pci_driver_list /\ called' = called
        /\ \/ /\ running = None /\ running' = None
           \/ /\ stage \notin {"sort", "resort", "init"}
              /\ stage' \notin {"sort", "resort", "init"}
    BY <1>6 DEF init, main, InitStep, init_init_pair, init_deinit_pair, init_init_next,
                init_init_end, init_next_stage, init_main, main_returns, deinit_call,
                deinit_next_stage, init_returns, history, pciVars, Registered
  <2>2. \A f : IsCalled(f)' <=> IsCalled(f)
    BY <2>1 DEF IsCalled
  <2>3. CASE running = None /\ running' = None
    BY <2>1, <2>2, <2>3, KernelFacts DEF Registered
  <2>4. CASE /\ stage \notin {"sort", "resort", "init"}
             /\ stage' \notin {"sort", "resort", "init"}
    BY <2>1, <2>2, <2>4 DEF Registered
  <2> QED
    BY <2>1, <2>3, <2>4
<1> QED
  BY <1>2, <1>3, <1>4, <1>5, <1>6, Zenon DEF StartupNext, boot_step

(* A round of the probe's loop, with the driver in the list.               *)
LEMMA ProbeKept ==
    ASSUME ProbeInv, pci_driver_list = <<ixgbe_idlist>>,
           (\E c \in Configs : pci_absent(c) \/ pci_found(c))
           \/ pci_no_match \/ pci_loaded \/ pci_new_call
    PROVE  ProbeInv'
<1>1. /\ func \in Nat /\ func >= 1 /\ PCI_FUNCS \in Nat
      /\ driver \in 0 .. 2 /\ Len(space) \in Nat /\ space \in Seq(Configs)
      /\ Len(pci_driver_list) = 1 /\ pci_driver_list[1] = ixgbe_idlist
      /\ bound \in Seq(Nat) /\ Len(bound) \in Nat
  BY PciAssumption, LenProperties DEF ProbeInv
<1>2. /\ \A k \in 1 .. Len(bound) : bound[k] \in Looked /\ space[bound[k]].id \in ixgbe_idlist
      /\ \A j, k \in 1 .. Len(bound) : bound[j] = bound[k] => j = k
      /\ \A f \in Nat : f \in Looked /\ space[f].id \in ixgbe_idlist =>
             \E k \in 1 .. Len(bound) : bound[k] = f
  BY DEF ProbeInv
<1>3. \A k \in 1 .. Len(bound) : bound[k] \in Nat
  BY <1>1
<1>4. ASSUME NEW c \in Configs, pci_absent(c) \/ pci_found(c) PROVE ProbeInv'
  <2>1. /\ driver = 0 /\ func <= PCI_FUNCS /\ Len(space) = func - 1
        /\ space' = Append(space, c) /\ bound' = bound
    BY <1>4 DEF pci_absent, pci_found, ProbeInv
  <2>2. /\ space' \in Seq(Configs) /\ Len(space') = func /\ space'[func] = c
        /\ \A f \in 1 .. func - 1 : space'[f] = space[f]
    BY <1>1, <2>1, AppendProperties
  <2>3. \A f : f \in Looked <=> f \in 1 .. func - 1
    BY <2>1 DEF Looked
  <2>4. CASE pci_absent(c)
    <3>1. func' = func + 1 /\ driver' = 0 /\ c.id \notin ixgbe_idlist
      BY <2>1, <2>4, StartupAssumption DEF pci_absent
    <3>2. \A f \in Nat : f \in Looked' <=> f \in Looked \/ f = func
      BY <1>1, <2>3, <3>1 DEF Looked
    <3>3. \A k \in 1 .. Len(bound) :
              bound[k] \in Looked' /\ space'[bound[k]].id \in ixgbe_idlist
      BY <1>2, <1>3, <2>2, <2>3, <3>2
    <3>4. \A f \in Nat : f \in Looked' /\ space'[f].id \in ixgbe_idlist =>
              \E k \in 1 .. Len(bound) : bound[k] = f
      BY <1>2, <2>2, <2>3, <3>1, <3>2
    <3>5. func' \in 1 .. PCI_FUNCS + 1 /\ Len(space') = func' - 1
      BY <1>1, <2>1, <2>2, <3>1
    <3> QED
      BY <1>1, <1>2, <2>1, <2>2, <3>1, <3>3, <3>4, <3>5 DEF ProbeInv
  <2>5. CASE pci_found(c)
    <3>1. func' = func /\ driver' = 1 /\ pci_list'[1].id = c.id
      <4>1. /\ func' = func /\ driver' = 1
            /\ pci_list' = <<[func |-> func, id |-> c.id, bar |-> Decode(c.reg)]>> \o pci_list
        BY <2>5 DEF pci_found
      <4>2. \/ pci_list' = <<[func |-> func, id |-> c.id, bar |-> Decode(c.reg)]>>
            \/ pci_list'[1] = [func |-> func, id |-> c.id, bar |-> Decode(c.reg)]
        BY <4>1
      <4> QED
        BY <4>1, <4>2
    <3>2. \A f : f \in Looked' <=> f \in Looked
      BY <2>3, <3>1 DEF Looked
    <3>3. \A k \in 1 .. Len(bound) :
              bound[k] \in Looked' /\ space'[bound[k]].id \in ixgbe_idlist
      BY <1>2, <2>2, <2>3, <3>2
    <3>4. \A f \in Nat : f \in Looked' /\ space'[f].id \in ixgbe_idlist =>
              \E k \in 1 .. Len(bound) : bound[k] = f
      BY <1>2, <2>2, <2>3, <3>2
    <3>5. func' \in 1 .. PCI_FUNCS + 1
      BY <1>1, <2>1, <3>1
    <3>6. /\ func' <= PCI_FUNCS /\ pci_list'[1].id = space'[func'].id
          /\ Len(space') = func' /\ driver' \in 0 .. 2 /\ driver' # 0
          /\ space' \in Seq(Configs) /\ bound' = bound
      BY <1>1, <2>1, <2>2, <3>1
    <3> QED
      BY <1>1, <1>2, <3>3, <3>4, <3>5, <3>6 DEF ProbeInv
  <2> QED
    BY <1>4, <2>4, <2>5
<1>5. CASE pci_no_match \/ pci_new_call
  <2>1. /\ driver = 1 /\ driver' = 2 /\ func' = func /\ func <= PCI_FUNCS
        /\ space' = space /\ Len(space) = func
        /\ pci_list' = pci_list /\ pci_list[1].id = space[func].id
    BY <1>1, <1>5 DEF pci_no_match, pci_new_call, ProbeInv
  <2>2. \A f : f \in Looked <=> f \in 1 .. func - 1
    BY <2>1 DEF Looked
  <2>3. \A f : f \in Looked' <=> f \in Looked \/ f = func
    BY <2>1, <2>2 DEF Looked
  <2>4. CASE pci_no_match
    <3>1. bound' = bound /\ space[func].id \notin ixgbe_idlist
      BY <1>1, <2>1, <2>4 DEF pci_no_match, pci_match
    <3>2. \A k \in 1 .. Len(bound) : bound[k] \in Looked'
      BY <1>2, <2>3
    <3>3. \A f \in Nat : f \in Looked' /\ space[f].id \in ixgbe_idlist =>
              \E k \in 1 .. Len(bound) : bound[k] = f
      BY <1>2, <2>3, <3>1
    <3> QED
      BY <1>1, <1>2, <2>1, <3>1, <3>2, <3>3 DEF ProbeInv
  <2>5. CASE pci_new_call
    <3>1. bound' = Append(bound, func) /\ space[func].id \in ixgbe_idlist
      BY <1>1, <2>1, <2>5 DEF pci_new_call, pci_match
    <3>2. /\ bound' \in Seq(Nat) /\ Len(bound') = Len(bound) + 1
          /\ bound'[Len(bound) + 1] = func
          /\ \A k \in 1 .. Len(bound) : bound'[k] = bound[k]
      BY <1>1, <3>1, AppendProperties
    <3>3. \A k \in 1 .. Len(bound') : k = Len(bound) + 1 \/ k \in 1 .. Len(bound)
      BY <1>1, <3>2
    <3>4. \A k \in 1 .. Len(bound) : bound[k] # func
      BY <1>1, <1>2, <2>2
    <3>5. \A k \in 1 .. Len(bound') :
              bound'[k] \in Looked' /\ space[bound'[k]].id \in ixgbe_idlist
      BY <1>2, <2>3, <3>1, <3>2, <3>3
    <3>6. \A j, k \in 1 .. Len(bound') : bound'[j] = bound'[k] => j = k
      BY <1>2, <3>2, <3>3, <3>4
    <3>7. ASSUME NEW f \in Nat, f \in Looked', space[f].id \in ixgbe_idlist
          PROVE  \E k \in 1 .. Len(bound') : bound'[k] = f
      <4>1. f \in Looked \/ f = func
        BY <2>3, <3>7
      <4>2. CASE f = func
        BY <1>1, <3>2, <4>2
      <4>3. CASE f \in Looked
        <5>1. PICK k \in 1 .. Len(bound) : bound[k] = f
          BY <1>2, <3>7, <4>3
        <5> QED
          BY <1>1, <3>2, <5>1
      <4> QED
        BY <4>1, <4>2, <4>3
    <3> QED
      BY <1>1, <2>1, <3>2, <3>5, <3>6, <3>7 DEF ProbeInv
  <2> QED
    BY <1>5, <2>4, <2>5
<1>6. CASE pci_loaded
  <2>1. /\ driver = 2 /\ driver' = 0 /\ func' = func + 1 /\ func <= PCI_FUNCS
        /\ space' = space /\ Len(space) = func /\ bound' = bound
    BY <1>1, <1>6 DEF pci_loaded, ProbeInv
  <2>2. \A f \in Nat : f \in Looked' <=> f \in Looked
    BY <1>1, <2>1 DEF Looked
  <2>3. func' \in 1 .. PCI_FUNCS + 1 /\ Len(space) = func' - 1
    BY <1>1, <2>1
  <2>4. \A k \in 1 .. Len(bound) : bound[k] \in Looked'
    BY <1>2, <1>3, <2>2
  <2>5. \A f \in Nat : f \in Looked' /\ space[f].id \in ixgbe_idlist =>
            \E k \in 1 .. Len(bound) : bound[k] = f
    BY <1>2, <2>2
  <2> QED
    BY <1>1, <1>2, <2>1, <2>3, <2>4, <2>5 DEF ProbeInv
<1> QED
  BY <1>4, <1>5, <1>6

(* Every step of the system keeps the probe's invariant.                   *)
LEMMA ProbeInvKept ==
    InitIInv /\ Registered /\ ProbeInv /\ [StartupNext]_vars => ProbeInv'
<1> SUFFICES ASSUME InitIInv, Registered, ProbeInv, [StartupNext]_vars PROVE ProbeInv'
  OBVIOUS
<1>1. CASE pci_probe \/ pci_calls_new
  <2>1. /\ stage = "init" /\ running = "pci"
        /\ (\E c \in Configs : pci_absent(c) \/ pci_found(c))
           \/ pci_no_match \/ pci_loaded \/ pci_new_call
    BY <1>1 DEF pci_probe, pci_calls_new, Runs
  <2> QED
    BY <2>1, DriverIsThere, ProbeKept
<1>2. CASE ~(pci_probe \/ pci_calls_new)
  <2>1. /\ pci_list' = pci_list /\ func' = func /\ driver' = driver
        /\ bound' = bound /\ space' = space
    BY <1>2 DEF StartupNext, boot_step, init, main, deinit_returns, page_init, acpi_init,
                hpet_init, ixgbe_init, pci_driver_register, pci_init_returns,
                ixgbe_linkup, apic_init, adapter_step, halted, vars, pciVars
  <2> QED
    BY <2>1 DEF ProbeInv, Looked
<1> QED
  BY <1>1, <1>2

(* It begins so.                                                           *)
LEMMA StartsProbe == StartupInit => Registered /\ ProbeInv
<1> SUFFICES ASSUME StartupInit PROVE Registered /\ ProbeInv
  OBVIOUS
<1>1. Registered
  BY DEF StartupInit, InitInit, PciInit, Registered, IsCalled
<1>2. func = 1 /\ driver = 0 /\ bound = <<>> /\ space = <<>>
  BY DEF StartupInit, PciInit
<1>3. bound \in Seq(Nat) /\ space \in Seq(Configs) /\ Len(bound) = 0 /\ Len(space) = 0
  BY <1>2, EmptySeq
<1>4. func \in 1 .. PCI_FUNCS + 1
  BY <1>2, PciAssumption
<1>5. \A f : f \notin Looked
  BY <1>2 DEF Looked
<1> QED
  BY <1>1, <1>2, <1>3, <1>4, <1>5 DEF ProbeInv

(* For every number of functions, whatever is on the bus and in whichever  *)
(* order the files are linked: the driver's new is called once for every   *)
(* function it handles and for no other (pci_probe, pci_load_driver).      *)
THEOREM AdaptersMet == StartupSpec => []DriverMeetsEveryAdapter
<1>1. ProbeInv => DriverMeetsEveryAdapter
  <2> SUFFICES ASSUME ProbeInv PROVE DriverMeetsEveryAdapter
    OBVIOUS
  <2>1. /\ \A j, k \in 1 .. Len(bound) : bound[j] = bound[k] => j = k
        /\ \A k \in 1 .. Len(bound) : space[bound[k]].id \in ixgbe_idlist
    BY DEF ProbeInv
  <2>2. ASSUME pci_probed, NEW f \in 1 .. PCI_FUNCS, space[f].id \in ixgbe_idlist
        PROVE  \E k \in 1 .. Len(bound) : bound[k] = f
    <3>1. f \in Nat /\ f \in 1 .. func - 1
      BY <2>2, PciAssumption DEF ProbeInv, pci_probed
    <3> QED
      BY <2>2, <3>1 DEF ProbeInv, Looked
  <2> QED
    BY <2>1, <2>2 DEF DriverMeetsEveryAdapter, DriverMeetsEveryFunction
<1>2. StartupSpec => []InitIInv
  BY StartupRunsInit, InitInvariant, PTL
<1> QED
  BY <1>1, <1>2, StartsProbe, RegisteredKept, ProbeInvKept, PTL DEF StartupSpec
-----------------------------------------------------------------------------
Words == Listed \cup {"hole"}

(* A signature is found when no word before it faults.                     *)
LEMMA ScanFinds ==
    ASSUME NEW words \in Seq(Words), NEW sig, NEW k \in 1 .. Len(words),
           words[k] = sig, \A j \in 1 .. k - 1 : words[j] # "hole"
    PROVE  Scan(words, sig) = sig
<1> DEFINE S == {j \in 1 .. Len(words) : words[j] \in {sig, "hole"}}
           First(j) == /\ words[j] \in {sig, "hole"}
                       /\ \A h \in 1 .. j - 1 : words[h] \notin {sig, "hole"}
           least == CHOOSE j \in 1 .. Len(words) : First(j)
<1>1. Len(words) \in Nat
  BY LenProperties
<1>2. S \subseteq Nat /\ k \in S
  BY <1>1
<1>3. PICK x \in S : \A y \in S : x <= y
  BY <1>2, LeastOf
<1>4. x \in 1 .. Len(words) /\ First(x)
  BY <1>1, <1>3
<1>5. least \in 1 .. Len(words) /\ First(least)
  BY <1>4, Zenon
<1> HIDE DEF least
<1>6. ~(k < least)
  BY <1>1, <1>5
<1>7. least = k \/ least \in 1 .. k - 1
  BY <1>1, <1>5, <1>6
<1>8. words[least] = sig
  BY <1>5, <1>7
<1> QED
  BY <1>2, <1>8 DEF Scan, least

(* Where no word faults a signature is found or not.                       *)
LEMMA ScanLooks ==
    ASSUME NEW words \in Seq(Words), NEW sig,
           \A j \in 1 .. Len(words) : words[j] # "hole"
    PROVE  Scan(words, sig) \in {sig, "none"}
<1>1. CASE \E k \in 1 .. Len(words) : words[k] = sig
  <2>1. PICK k \in 1 .. Len(words) : words[k] = sig
    BY <1>1
  <2>2. \A j \in 1 .. k - 1 : words[j] # "hole"
    BY LenProperties
  <2> QED
    BY <2>1, <2>2, ScanFinds
<1>2. CASE ~\E k \in 1 .. Len(words) : words[k] = sig
  BY <1>2 DEF Scan
<1> QED
  BY <1>1, <1>2

(* In a complete firmware the search for each table ends at it: in the     *)
(* XSDT before what lies behind its entries, or in the RSDT, after a       *)
(* search of the XSDT that does not fault.                                 *)
LEMMA TableFound ==
    ASSUME NEW f \in Firmwares, Complete(f), NEW k \in 1 .. 3
    PROVE  acpi_get_entry(f, Signatures[k]) = Signatures[k]
<1> DEFINE sig == Signatures[k]
           r == f.rsdt.entry
           x == f.xsdt.entry
           b == f.xsdt.behind
<1>1. sig \in {"FACP", "APIC", "HPET"}
  BY DEF Signatures
<1>2. r \in Seq(Listed) /\ x \in Seq(Listed) /\ b \in Seq({"other", "hole"})
  BY StartupAssumption
<1>3. \/ f.xsdt.there /\ sig \in Range(x)
      \/ f.rsdt.there /\ sig \in Range(r) /\ (f.xsdt.there => "hole" \notin Range(b))
  BY DEF Complete
<1> HIDE DEF sig, r, x, b
<1>4. r \in Seq(Words) /\ x \o b \in Seq(Words)
  <2>1. r \in Seq(Words) /\ x \in Seq(Words) /\ b \in Seq(Words)
    BY <1>2 DEF Words, Listed
  <2> QED
    BY <2>1, ConcatProperties
<1>5. /\ Len(r) \in Nat /\ Len(x) \in Nat /\ Len(b) \in Nat
      /\ Len(x \o b) = Len(x) + Len(b)
      /\ \A j \in 1 .. Len(x) : (x \o b)[j] = x[j]
      /\ \A j \in Len(x) + 1 .. Len(x) + Len(b) : (x \o b)[j] = b[j - Len(x)]
  BY <1>2
<1>6. /\ \A j \in 1 .. Len(r) : r[j] # "hole"
      /\ \A j \in 1 .. Len(x) : x[j] # "hole"
  BY <1>2, ElementOfSeq DEF Listed
<1>7. CASE f.xsdt.there /\ sig \in Range(x)
  <2>1. PICK j \in 1 .. Len(x) : x[j] = sig
    BY <1>2, <1>7, LenProperties DEF Range
  <2>2. Scan(x \o b, sig) = sig
    <3>1. j \in 1 .. Len(x \o b) /\ (x \o b)[j] = sig
      BY <1>5, <2>1
    <3>2. \A h \in 1 .. j - 1 : (x \o b)[h] # "hole"
      BY <1>5, <1>6
    <3> QED
      BY <1>4, <3>1, <3>2, ScanFinds
  <2> QED
    BY <1>1, <1>7, <2>2 DEF acpi_get_entry, acpi_get_xsdt_entry, sig, x, b
<1>8. CASE f.rsdt.there /\ sig \in Range(r) /\ (f.xsdt.there => "hole" \notin Range(b))
  <2>1. PICK j \in 1 .. Len(r) : r[j] = sig
    BY <1>2, <1>8, LenProperties DEF Range
  <2>2. Scan(r, sig) = sig
    <3>1. \A h \in 1 .. j - 1 : r[h] # "hole"
      BY <1>5, <1>6
    <3> QED
      BY <1>4, <2>1, <3>1, ScanFinds
  <2>3. f.xsdt.there => Scan(x \o b, sig) \in {sig, "none"}
    <3> SUFFICES ASSUME f.xsdt.there PROVE Scan(x \o b, sig) \in {sig, "none"}
      OBVIOUS
    <3>1. \A h \in 1 .. Len(b) : b[h] # "hole"
      BY <1>2, <1>8, LenProperties DEF Range
    <3>2. \A h \in 1 .. Len(x \o b) : (x \o b)[h] # "hole"
      <4> TAKE h \in 1 .. Len(x \o b)
      <4>1. CASE h \in 1 .. Len(x)
        BY <1>5, <1>6, <4>1
      <4>2. CASE h \in Len(x) + 1 .. Len(x) + Len(b)
        BY <1>5, <3>1, <4>2
      <4> QED
        BY <1>5, <4>1, <4>2
    <3> QED
      BY <1>4, <3>2, ScanLooks
  <2> QED
    BY <1>1, <1>8, <2>2, <2>3
    DEF acpi_get_entry, acpi_get_xsdt_entry, acpi_get_rsdt_entry, sig, r, x, b
<1> QED
  BY <1>3, <1>7, <1>8 DEF sig

(* So acpi_init gets to its end.                                           *)
LEMMA SearchEnds ==
    ASSUME NEW f \in Firmwares, Complete(f)
    PROVE  acpi_search(f) = "all" /\ f.hpet_address
<1>1. f.rsdp = "bios" /\ f.hpet_address
  BY DEF Complete
<1>2. f.rsdt.there \/ f.xsdt.there
  BY DEF Complete
<1>3. \A k \in 1 .. 3 : acpi_get_entry(f, Signatures[k]) = Signatures[k]
  BY TableFound
<1>4. {k \in 1 .. 3 : [j \in 1 .. 3 |-> acpi_get_entry(f, Signatures[j])][k]
                          # Signatures[k]} = {}
  BY <1>3
<1> QED
  BY <1>1, <1>2, <1>4 DEF acpi_search, acpi_get_rsdp

(* Where the firmware is complete no load faults, and the counter counts   *)
(* whenever somebody sleeps: main, or the driver while it waits for its    *)
(* adapter (acpi_init, hpet_init, usleep).                                 *)
CompleteFirmwareGoesOn ==
    complete => /\ ~lost
                /\ stage = "main" \/ ~LinkOver => hpet_counts

(* On a complete firmware hpet_init finds the base address that acpi_init  *)
(* left, and whoever sleeps comes after it: a function is the last called  *)
(* while it runs, and an adapter is waited for inside pci_init.            *)
CounterInv ==
    /\ complete => ~lost /\ cpulist /\ hpet_mmiobase
    /\ stage = "init" /\ running # None => Len(called) > 0 /\ called[Len(called)] = running
    /\ complete /\ IsCalled("hpet") /\ ~(stage = "init" /\ running = "hpet") => hpet_counts
    /\ ~LinkOver => stage = "init" /\ running = "pci"

(* Who calls sleeps after hpet_init, and hpet_init after acpi_init.        *)
LEMMA SleepersNeed ==
    /\ {"acpi", "hpet", "pci"} \subseteq Files /\ None \notin Files
    /\ "hpet" \in Needs["pci"] /\ "acpi" \in Needs["hpet"]
BY KernelFacts, StartupAssumption DEF KernelNeeds

(* A function that was called was called after what it needs.              *)
LEMMA NeededIsCalled ==
    ASSUME InitIInv, NEW f \in Files, NEW g \in Needs[f],
           NEW k \in 1 .. Len(called), called[k] = f
    PROVE  \E j \in 1 .. k - 1 : called[j] = g
BY DEF InitIInv, NeedsCalled

(* The invariant means what the property says.                             *)
LEMMA CounterServes ==
    InitIInv /\ Registered /\ CounterInv => CompleteFirmwareGoesOn
<1> SUFFICES ASSUME InitIInv, Registered, CounterInv, complete
             PROVE  ~lost /\ (stage = "main" \/ ~LinkOver => hpet_counts)
  BY DEF CompleteFirmwareGoesOn
<1>1. called \in Seq(Files) /\ Len(called) \in Nat
  BY LenProperties DEF InitIInv, InitTypeOK
<1>2. ASSUME stage = "main" PROVE hpet_counts
  <2>1. IsCalled("hpet")
    BY <1>2, SleepersNeed DEF InitIInv, ScanLoop
  <2> QED
    BY <1>2, <2>1 DEF CounterInv
<1>3. ASSUME ~LinkOver PROVE hpet_counts
  <2>1. stage = "init" /\ running = "pci"
    BY <1>3 DEF CounterInv
  <2>2. PICK k \in 1 .. Len(called) : called[k] = "pci"
    BY <2>1, SleepersNeed DEF Registered, IsCalled
  <2>3. PICK j \in 1 .. k - 1 : called[j] = "hpet"
    BY <2>2, SleepersNeed, NeededIsCalled
  <2>4. IsCalled("hpet")
    BY <1>1, <2>3 DEF IsCalled
  <2> QED
    BY <2>1, <2>4 DEF CounterInv
<1> QED
  BY <1>2, <1>3 DEF CounterInv

(* While acpi_init runs hpet_init has not been called.                     *)
LEMMA AcpiBeforeHpet ==
    ASSUME InitIInv, CounterInv, stage = "init", running = "acpi"
    PROVE  ~IsCalled("hpet")
<1>1. called \in Seq(Files) /\ Len(called) \in Nat
  BY LenProperties DEF InitIInv, InitTypeOK
<1>2. Len(called) > 0 /\ called[Len(called)] = "acpi"
  BY SleepersNeed DEF CounterInv
<1>3. ASSUME NEW k \in 1 .. Len(called), called[k] = "hpet" PROVE FALSE
  <2>1. PICK j \in 1 .. k - 1 : called[j] = "acpi"
    BY <1>3, SleepersNeed, NeededIsCalled
  <2>2. j \in 1 .. Len(called) /\ Len(called) \in 1 .. Len(called) /\ j # Len(called)
    BY <1>1, <1>2, <2>1
  <2> QED
    BY <1>2, <2>1, <2>2 DEF InitIInv, CalledOnce
<1> QED
  BY <1>3 DEF IsCalled

(* Every step keeps it.                                                    *)
LEMMA CounterKept ==
    InitIInv /\ Registered /\ CounterInv /\ [StartupNext]_vars => CounterInv'
<1> SUFFICES ASSUME InitIInv, Registered, CounterInv, [StartupNext]_vars
             PROVE  CounterInv'
  OBVIOUS
<1>1. called \in Seq(Files) /\ Len(called) \in Nat
  BY LenProperties DEF InitIInv, InitTypeOK
<1>2. CASE acpi_init
  <2>1. /\ stage = "init" /\ running = "acpi" /\ stage' = stage /\ running' = None
        /\ called' = called /\ at' = at
    BY <1>2 DEF acpi_init, Runs, func_returns, history, linkVars, driverVars
  <2>2. complete' => ~lost' /\ cpulist' /\ hpet_mmiobase'
    BY <1>2, SearchEnds DEF acpi_init
  <2>3. ~IsCalled("hpet")
    BY <2>1, AcpiBeforeHpet
  <2>4. LinkOver
    BY <2>1 DEF CounterInv
  <2> QED
    BY <2>1, <2>2, <2>3, <2>4 DEF CounterInv, IsCalled, LinkOver
<1>3. CASE hpet_init
  <2>1. /\ stage = "init" /\ running = "hpet" /\ stage' = stage /\ running' = None
        /\ called' = called /\ at' = at /\ hpet_counts' = hpet_mmiobase
        /\ UNCHANGED <<hpet_mmiobase, cpulist, lost, complete>>
    BY <1>3 DEF hpet_init, Runs, func_returns, history, linkVars, driverVars
  <2>2. LinkOver
    BY <2>1 DEF CounterInv
  <2> QED
    BY <2>1, <2>2 DEF CounterInv, LinkOver
<1>4. CASE apic_init
  <2>1. /\ stage = "init" /\ running = "apic" /\ stage' = stage /\ running' = None
        /\ called' = called /\ at' = at /\ (cpulist => ~lost')
        /\ UNCHANGED <<hpet_mmiobase, cpulist, hpet_counts, complete>>
    BY <1>4 DEF apic_init, Runs, func_returns, history, linkVars, driverVars
  <2>2. LinkOver
    BY <2>1 DEF CounterInv
  <2> QED
    BY <2>1, <2>2 DEF CounterInv, LinkOver, IsCalled
<1>5. CASE page_init \/ deinit_returns \/ ixgbe_init \/ pci_init_returns
  <2>1. /\ running' = None /\ stage' = stage /\ called' = called /\ at' = at
        /\ running # "hpet" \/ stage # "init"
        /\ UNCHANGED machineVars
    BY <1>5 DEF page_init, deinit_returns, ixgbe_init, pci_init_returns, Runs,
                func_returns, history, linkVars, driverVars
  <2>2. LinkOver
    BY <1>5 DEF page_init, deinit_returns, ixgbe_init, pci_init_returns, Runs, CounterInv
  <2> QED
    BY <2>1, <2>2 DEF CounterInv, LinkOver, IsCalled, machineVars
<1>6. CASE pci_probe \/ halted \/ UNCHANGED vars
  <2>1. stage' = stage /\ running' = running /\ called' = called /\ at' = at
        /\ UNCHANGED machineVars
    BY <1>6 DEF pci_probe, halted, vars, initVars, history, linkVars, driverVars
  <2> QED
    BY <2>1 DEF CounterInv, LinkOver, IsCalled, machineVars
<1>7. CASE pci_calls_new \/ ixgbe_linkup
  <2>1. /\ stage = "init" /\ running = "pci"
        /\ stage' = stage /\ running' = running /\ called' = called
        /\ UNCHANGED machineVars
    BY <1>7 DEF pci_calls_new, ixgbe_linkup, Runs, initVars, history
  <2> QED
    BY <2>1 DEF CounterInv, IsCalled, machineVars
<1>8. CASE adapter_step
  <2>1. /\ stage' = stage /\ running' = running /\ called' = called /\ ~LinkOver
        /\ UNCHANGED machineVars
    BY <1>8 DEF adapter_step, initVars, history
  <2> QED
    BY <2>1 DEF CounterInv, IsCalled, machineVars
<1>9. CASE init \/ main
  <2>1. at' = at /\ UNCHANGED machineVars
    BY <1>9 DEF init, main, linkVars, driverVars, machineVars
  <2>2. running = None /\ LinkOver
    BY <1>9, SleepersNeed
    DEF init, main, InitStep, init_init_pair, init_deinit_pair, init_init_next,
        init_init_end, init_call, init_next_stage, init_main, main_returns, deinit_call,
        deinit_next_stage, init_returns, Registered, CounterInv
  <2>3. CASE init_call
    <3>1. stage = "init" /\ stage' = "init"
      BY <2>3 DEF init_call
    <3>2. CASE running' = running /\ called' = called
      BY <2>1, <2>2, <3>1, <3>2, SleepersNeed DEF CounterInv, LinkOver, IsCalled, machineVars
    <3>3. CASE running' = init_func[p] /\ called' = Append(called, init_func[p])
      <4> DEFINE g == init_func[p]
      <4>1. g \in Files
        <5>1. init_func \in [1 .. N -> Files] /\ p \in 1 .. N
          BY <2>3, NumberOfFiles, BijectionFacts DEF InitIInv, InitTypeOK, init_call
        <5> QED
          BY <5>1
      <4> HIDE DEF g
      <4>2. /\ Len(called') = Len(called) + 1 /\ called'[Len(called) + 1] = g
            /\ \A k \in 1 .. Len(called) : called'[k] = called[k]
        BY <1>1, <3>3, <4>1, AppendProperties DEF g
      <4>3. running' = g
        BY <3>3 DEF g
      <4>4. IsCalled("hpet")' /\ g # "hpet" => IsCalled("hpet")
        BY <1>1, <4>2 DEF IsCalled
      <4>5. LinkOver'
        BY <2>1, <2>2 DEF LinkOver
      <4>6. complete' /\ IsCalled("hpet")' /\ g # "hpet" => hpet_counts'
        BY <2>1, <2>2, <4>4, SleepersNeed DEF CounterInv, machineVars
      <4> QED
        BY <1>1, <2>1, <3>1, <4>2, <4>3, <4>5, <4>6 DEF CounterInv, machineVars
    <3> QED
      BY <2>3, <3>2, <3>3 DEF init_call
  <2>4. CASE ~init_call
    <3>1. called' = called /\ (stage' = "init" => running' = None)
      BY <1>9, <2>2, <2>4
      DEF init, main, InitStep, init_init_pair, init_deinit_pair, init_init_next,
          init_init_end, init_next_stage, init_main, main_returns, deinit_call,
          deinit_next_stage, init_returns, history
    <3>2. LinkOver'
      BY <2>1, <2>2 DEF LinkOver
    <3>3. IsCalled("hpet")' <=> IsCalled("hpet")
      BY <3>1 DEF IsCalled
    <3> QED
      BY <2>1, <2>2, <3>1, <3>2, <3>3, SleepersNeed DEF CounterInv, machineVars
  <2> QED
    BY <2>3, <2>4
<1> QED
  BY <1>2, <1>3, <1>4, <1>5, <1>6, <1>7, <1>8, <1>9, Zenon DEF StartupNext, boot_step

(* Whatever the firmware's lists hold and whatever order the files are     *)
(* linked in: if the firmware is complete no load faults, and the counter  *)
(* counts whenever somebody sleeps (acpi_init, hpet_init, usleep).         *)
THEOREM CompleteGoesOn == StartupSpec => []CompleteFirmwareGoesOn
<1>1. StartupInit => CounterInv
  BY DEF StartupInit, InitInit, LinkInit, CounterInv, LinkOver
<1>2. StartupInit => Registered
  BY StartsProbe
<1>3. StartupSpec => []InitIInv
  BY StartupRunsInit, InitInvariant, PTL
<1> QED
  BY <1>1, <1>2, <1>3, RegisteredKept, CounterKept, CounterServes, PTL DEF StartupSpec
-----------------------------------------------------------------------------
(* How far pci_new's loop goes on from register k, and what it makes of    *)
(* the registers in S, which are the last.                                 *)
Stride(reg, k) == IF TakesTwo(reg[k]) THEN 2 ELSE 1

DecodesOn(f, reg, S) ==
    f = [k \in S |-> IF k > Registers THEN <<>>
                     ELSE <<BarAt(reg, k)>> \o f[k + Stride(reg, k)]]

(* The recursion is well founded, so such a function exists.               *)
LEMMA DecodesExists ==
    ASSUME NEW reg
    PROVE  \E f : DecodesOn(f, reg, 1 .. Registers + 2)
<1> DEFINE R == Registers
           Last(n) == R + 2 - n .. R + 2
           S == {n \in 0 .. R + 1 : ~\E f : DecodesOn(f, reg, Last(n))}
<1>1. R \in Nat /\ \A k : Stride(reg, k) \in {1, 2}
  BY PciAssumption DEF Stride
<1> HIDE DEF R
<1>2. ASSUME S # {} PROVE FALSE
  <2>1. PICK x \in S : \A y \in S : x <= y
    <3>1. S \subseteq Nat
      BY <1>1
    <3> HIDE DEF S
    <3> QED
      BY <1>2, <3>1, LeastOf
  <2>2. x \in 0 .. R + 1 /\ ~\E f : DecodesOn(f, reg, Last(x))
    OBVIOUS
  <2>3. CASE x = 0
    <3> DEFINE f == [k \in Last(0) |-> <<>>]
    <3>1. \A k \in Last(0) : k > R
      BY <1>1
    <3>2. DecodesOn(f, reg, Last(0))
      BY <3>1 DEF DecodesOn, R
    <3> QED
      BY <2>2, <2>3, <3>2
  <2>4. CASE x # 0
    <3>1. x - 1 \in 0 .. R + 1 /\ ~(x <= x - 1)
      BY <1>1, <2>2, <2>4
    <3>2. PICK f : DecodesOn(f, reg, Last(x - 1))
      BY <2>1, <3>1
    <3> DEFINE m == R + 2 - x
               g == [k \in Last(x) |->
                        IF k = m THEN IF m > R THEN <<>>
                                      ELSE <<BarAt(reg, m)>> \o f[m + Stride(reg, m)]
                        ELSE f[k]]
    <3>3. /\ m \in Last(x)
          /\ \A k \in Last(x) : k = m \/ (k \in Last(x - 1) /\ k # m)
          /\ \A k \in Last(x) : k <= R => /\ k + Stride(reg, k) \in Last(x - 1)
                                          /\ k + Stride(reg, k) \in Last(x)
                                          /\ k + Stride(reg, k) # m
      BY <1>1, <2>2, <2>4, <3>1
    <3>4. \A k \in Last(x - 1) :
              f[k] = IF k > R THEN <<>>
                     ELSE <<BarAt(reg, k)>> \o f[k + Stride(reg, k)]
      BY <3>2 DEF DecodesOn, R
    <3>5. ASSUME NEW k \in Last(x)
          PROVE  g[k] = IF k > R THEN <<>>
                        ELSE <<BarAt(reg, k)>> \o g[k + Stride(reg, k)]
      <4>1. k <= R => g[k + Stride(reg, k)] = f[k + Stride(reg, k)]
        BY <3>3
      <4>2. ~(k <= R) <=> k > R
        BY <1>1, <2>2
      <4>3. CASE k = m
        BY <4>1, <4>2, <4>3
      <4>4. CASE k # m
        BY <3>3, <3>4, <4>1, <4>2, <4>4
      <4> QED
        BY <4>3, <4>4
    <3>6. DecodesOn(g, reg, Last(x))
      <4> HIDE DEF m
      <4>1. g = [k \in Last(x) |-> g[k]]
        OBVIOUS
      <4> HIDE DEF g, Last
      <4> QED
        BY <3>5, <4>1 DEF DecodesOn, R
    <3> QED
      BY <2>2, <3>6
  <2> QED
    BY <2>3, <2>4
<1>3. R + 1 \in 0 .. R + 1 /\ Last(R + 1) = 1 .. R + 2
  BY <1>1
<1>4. R + 1 \notin S
  BY <1>2
<1> QED
  BY <1>3, <1>4 DEF R

(* What Decode computes is the value at 1 of such a function.              *)
LEMMA DecodeWorks ==
    ASSUME NEW reg
    PROVE  \E f : /\ Decode(reg) = f[1]
                  /\ \A k \in 1 .. Registers + 2 :
                         f[k] = IF k > Registers THEN <<>>
                                ELSE <<BarAt(reg, k)>> \o f[k + Stride(reg, k)]
<1> DEFINE F == CHOOSE f : DecodesOn(f, reg, 1 .. Registers + 2)
<1>1. DecodesOn(F, reg, 1 .. Registers + 2)
  BY DecodesExists
<1>2. Decode(reg) = F[1]
  BY Zenon DEF Decode, DecodesOn, Stride
<1> HIDE DEF F
<1>3. \A k \in 1 .. Registers + 2 :
          F[k] = IF k > Registers THEN <<>>
                 ELSE <<BarAt(reg, k)>> \o F[k + Stride(reg, k)]
  BY <1>1 DEF DecodesOn
<1> QED
  BY <1>2, <1>3

(* The same for the upper halves, from the first register on.              *)
UppersIn(f, reg, S) ==
    f = [k \in S |->
            k > 1 /\ ~f[k - 1] /\ ~IsIo(reg[k - 1]) /\ TakesTwo(reg[k - 1])]

(* Again the recursion is well founded.                                    *)
LEMMA UppersExist ==
    ASSUME NEW reg
    PROVE  \E f : UppersIn(f, reg, 1 .. Registers + 1)
<1> DEFINE R == Registers
           S == {n \in 0 .. R + 1 : ~\E f : UppersIn(f, reg, 1 .. n)}
<1>1. R \in Nat
  BY PciAssumption
<1> HIDE DEF R
<1>2. ASSUME S # {} PROVE FALSE
  <2>1. PICK x \in S : \A y \in S : x <= y
    <3>1. S \subseteq Nat
      BY <1>1
    <3> HIDE DEF S
    <3> QED
      BY <1>2, <3>1, LeastOf
  <2>2. x \in 0 .. R + 1 /\ ~\E f : UppersIn(f, reg, 1 .. x)
    OBVIOUS
  <2>3. CASE x = 0
    <3> DEFINE f == [k \in 1 .. 0 |-> FALSE]
    <3>1. \A k \in 1 .. 0 : FALSE
      OBVIOUS
    <3>2. UppersIn(f, reg, 1 .. 0)
      BY <3>1 DEF UppersIn
    <3> QED
      BY <2>2, <2>3, <3>2
  <2>4. CASE x # 0
    <3>1. x - 1 \in 0 .. R + 1 /\ ~(x <= x - 1) /\ x \in Nat
      BY <1>1, <2>2, <2>4
    <3>2. PICK f : UppersIn(f, reg, 1 .. x - 1)
      BY <2>1, <3>1
    <3> DEFINE U(h, k) == k > 1 /\ ~h[k - 1] /\ ~IsIo(reg[k - 1]) /\ TakesTwo(reg[k - 1])
               g == [k \in 1 .. x |-> IF k = x THEN U(f, x) ELSE f[k]]
    <3>3. \A k \in 1 .. x : /\ k = x \/ k \in 1 .. x - 1
                            /\ k > 1 => k - 1 \in 1 .. x /\ k - 1 # x
      BY <3>1
    <3>4. \A k \in 1 .. x - 1 : f[k] = U(f, k) /\ k \in 1 .. x /\ k # x
      <4>1. \A k \in 1 .. x - 1 : k \in 1 .. x /\ k # x
        BY <3>1
      <4> QED
        BY <3>2, <4>1 DEF UppersIn
    <3>5. ASSUME NEW k \in 1 .. x PROVE g[k] = U(g, k)
      <4>1. k > 1 => g[k - 1] = f[k - 1]
        BY <3>3
      <4>2. U(g, k) = U(f, k)
        BY <4>1
      <4>3. g[k] = U(f, k)
        <5>1. CASE k = x
          BY <5>1
        <5>2. CASE k # x
          <6>1. k \in 1 .. x - 1
            BY <3>3, <5>2
          <6>2. g[k] = f[k]
            BY <5>2
          <6> QED
            BY <3>4, <6>1, <6>2
        <5> QED
          BY <5>1, <5>2
      <4> QED
        BY <4>2, <4>3
    <3>6. UppersIn(g, reg, 1 .. x)
      <4>1. g = [k \in 1 .. x |-> g[k]]
        OBVIOUS
      <4>2. [k \in 1 .. x |-> g[k]] = [k \in 1 .. x |-> U(g, k)]
        <5> HIDE DEF g, U
        <5> QED
          BY <3>5
      <4> HIDE DEF g
      <4> QED
        BY <4>1, <4>2 DEF UppersIn
    <3> QED
      BY <2>2, <3>6
  <2> QED
    BY <2>3, <2>4
<1>3. R + 1 \in 0 .. R + 1
  BY <1>1
<1>4. R + 1 \notin S
  BY <1>2
<1> QED
  BY <1>3, <1>4 DEF R

(* Where the addresses start: at the first register, and behind one that   *)
(* takes one, or takes two.                                                *)
LEMMA LowerFacts ==
    ASSUME NEW reg
    PROVE  /\ 1 \in Lower(reg)
           /\ \A k \in Lower(reg) : ~FourPorts(reg, k) =>
                  /\ k + 1 <= Registers => (k + 1 \in Lower(reg) <=> ~TakesTwo(reg[k]))
                  /\ TakesTwo(reg[k]) /\ k + 2 <= Registers => k + 2 \in Lower(reg)
<1> DEFINE F == CHOOSE f : UppersIn(f, reg, 1 .. Registers + 1)
<1>1. UppersIn(F, reg, 1 .. Registers + 1)
  BY UppersExist
<1>2. UpperHalf(reg) = F
  BY Zenon DEF UpperHalf, UppersIn
<1> HIDE DEF F
<1>3. \A k \in 1 .. Registers + 1 :
          F[k] <=> k > 1 /\ ~F[k - 1] /\ ~IsIo(reg[k - 1]) /\ TakesTwo(reg[k - 1])
  BY <1>1 DEF UppersIn
<1>4. \A k \in 1 .. Registers : k \in Lower(reg) <=> ~F[k]
  BY <1>2 DEF Lower
<1>5. Registers \in Nat /\ Registers > 0
  BY PciAssumption
<1>6. 1 \in Lower(reg)
  BY <1>3, <1>4, <1>5
<1>7. ASSUME NEW k \in Lower(reg), ~FourPorts(reg, k), k + 1 <= Registers
      PROVE  /\ k + 1 \in Lower(reg) <=> ~TakesTwo(reg[k])
             /\ TakesTwo(reg[k]) /\ k + 2 <= Registers => k + 2 \in Lower(reg)
  <2>1. k \in 1 .. Registers
    BY DEF Lower
  <2>2. k + 1 \in 1 .. Registers /\ k + 1 > 1 /\ (k + 1) - 1 = k
        /\ k + 1 \in 1 .. Registers + 1
    BY <1>5, <1>7, <2>1
  <2>3. ~F[k]
    BY <1>4, <2>1
  <2>4. IsIo(reg[k]) => ~TakesTwo(reg[k])
    BY <1>7 DEF FourPorts
  <2>5. F[k + 1] <=> TakesTwo(reg[k])
    BY <1>3, <2>2, <2>3, <2>4
  <2>6. ASSUME TakesTwo(reg[k]), k + 2 <= Registers
        PROVE  k + 2 \in Lower(reg)
    <3>1. k + 2 \in 1 .. Registers /\ (k + 2) - 1 = k + 1
          /\ k + 2 \in 1 .. Registers + 1
      BY <1>5, <2>1, <2>6
    <3>2. ~F[k + 2]
      BY <1>3, <2>5, <2>6, <3>1
    <3> QED
      BY <1>4, <3>1, <3>2
  <2> QED
    BY <1>4, <2>2, <2>5, <2>6
<1>8. ASSUME NEW k \in Lower(reg), ~(k + 1 <= Registers) PROVE ~(k + 2 <= Registers)
  BY <1>5, <1>8 DEF Lower
<1> QED
  BY <1>6, <1>7, <1>8

(* The addresses from register k on, and those among them up to j's.       *)
From(reg, k) == {j \in Lower(reg) : k <= j}
Upto(reg, k, j) == {l \in Lower(reg) : k <= l /\ l <= j}

(* No range of four ports starts up to register j, or anywhere.            *)
CleanUpto(reg, j) == \A l \in 1 .. j : ~FourPorts(reg, l)
Clean(reg) == \A l \in Lower(reg) : ~FourPorts(reg, l)

(* Everything the loop stores.                                             *)
Bars(reg) == {BarAt(reg, j) : j \in 1 .. Registers}

(* bars holds what BarAt says of them, in their order, up to the first     *)
(* range of four ports.                                                    *)
DecodedFrom(bars, reg, k) ==
    /\ bars \in Seq(Bars(reg))
    /\ Clean(reg) => Len(bars) = Cardinality(From(reg, k))
    /\ \A j \in From(reg, k) : CleanUpto(reg, j) =>
           /\ Cardinality(Upto(reg, k, j)) \in 1 .. Len(bars)
           /\ bars[Cardinality(Upto(reg, k, j))] = BarAt(reg, j)

(* One more address in front of the others moves each by one.              *)
LEMMA OneBarMore ==
    ASSUME NEW reg, NEW k \in Lower(reg), NEW next \in Nat, NEW bars,
           k < next, \A j \in Lower(reg) : k < j => next <= j,
           DecodedFrom(bars, reg, next)
    PROVE  DecodedFrom(<<BarAt(reg, k)>> \o bars, reg, k)
<1> DEFINE T == Bars(reg)
           b == BarAt(reg, k)
           more == <<b>> \o bars
<1>1. /\ Lower(reg) \subseteq Nat /\ IsFiniteSet(Lower(reg))
      /\ k \in Nat
  <2>1. Registers \in Nat
    BY PciAssumption
  <2>2. Lower(reg) \subseteq 1 .. Registers
    BY DEF Lower
  <2>3. IsFiniteSet(1 .. Registers)
    BY <2>1, FS_Interval
  <2> QED
    BY <2>1, <2>2, <2>3, FS_Subset
<1>2. /\ bars \in Seq(T) /\ Len(bars) \in Nat
      /\ Clean(reg) => Len(bars) = Cardinality(From(reg, next))
  BY LenProperties DEF DecodedFrom
<1>3. b \in T
  BY DEF Bars, Lower
<1> HIDE DEF T, b
<1>4. /\ <<b>> \in Seq(T) /\ Len(<<b>>) = 1 /\ <<b>>[1] = b
  BY <1>3
<1>5. /\ more \in Seq(T) /\ Len(more) = Len(bars) + 1
      /\ more[1] = b
      /\ \A n \in 1 .. Len(bars) : more[1 + n] = bars[n]
  <2>1. /\ more \in Seq(T) /\ Len(more) = 1 + Len(bars)
        /\ \A n \in 1 .. 1 + Len(bars) :
               more[n] = IF n <= 1 THEN <<b>>[n] ELSE bars[n - 1]
    BY <1>2, <1>4, ConcatProperties
  <2>2. \A n \in 1 .. Len(bars) : /\ 1 + n \in 1 .. 1 + Len(bars)
                                  /\ ~(1 + n <= 1) /\ (1 + n) - 1 = n
    BY <1>2
  <2>3. 1 \in 1 .. 1 + Len(bars)
    BY <1>2
  <2> QED
    BY <1>2, <1>4, <2>1, <2>2, <2>3
<1> HIDE DEF more
<1>6. /\ From(reg, k) = From(reg, next) \cup {k} /\ k \notin From(reg, next)
      /\ IsFiniteSet(From(reg, next))
  <2>1. From(reg, k) = From(reg, next) \cup {k} /\ k \notin From(reg, next)
    BY <1>1 DEF From
  <2>2. From(reg, next) \subseteq Lower(reg)
    BY DEF From
  <2> QED
    BY <1>1, <2>1, <2>2, FS_Subset
<1>7. Clean(reg) => Cardinality(From(reg, k)) = Len(more)
  BY <1>2, <1>5, <1>6, FS_AddElement
<1>8. ASSUME NEW j \in From(reg, k), CleanUpto(reg, j)
      PROVE  /\ Cardinality(Upto(reg, k, j)) \in 1 .. Len(more)
             /\ more[Cardinality(Upto(reg, k, j))] = BarAt(reg, j)
  <2>1. CASE j = k
    <3>1. Upto(reg, k, j) = {k}
      BY <1>1, <2>1 DEF Upto
    <3>2. Cardinality(Upto(reg, k, j)) = 1
      BY <3>1, FS_Singleton
    <3> QED
      BY <1>2, <1>5, <2>1, <3>2 DEF b
  <2>2. CASE j # k
    <3>1. j \in From(reg, next)
      BY <1>6, <2>2
    <3>2. Upto(reg, k, j) = Upto(reg, next, j) \cup {k} /\ k \notin Upto(reg, next, j)
      BY <1>1, <3>1 DEF Upto, From
    <3>3. IsFiniteSet(Upto(reg, next, j))
      <4>1. Upto(reg, next, j) \subseteq Lower(reg)
        BY DEF Upto
      <4> QED
        BY <1>1, <4>1, FS_Subset
    <3>4. Cardinality(Upto(reg, k, j)) = Cardinality(Upto(reg, next, j)) + 1
      BY <3>2, <3>3, FS_AddElement
    <3>5. PICK n \in 1 .. Len(bars) : n = Cardinality(Upto(reg, next, j))
      BY <1>8, <3>1 DEF DecodedFrom
    <3>6. bars[n] = BarAt(reg, j)
      BY <1>8, <3>1, <3>5 DEF DecodedFrom
    <3>7. Cardinality(Upto(reg, k, j)) = 1 + n /\ 1 + n \in 1 .. Len(more)
      BY <1>2, <1>5, <3>4, <3>5
    <3> QED
      BY <1>5, <3>6, <3>7
  <2> QED
    BY <2>1, <2>2
<1> QED
  BY <1>5, <1>7, <1>8 DEF DecodedFrom, more, T, b

(* What the loop leaves in bar[].                                          *)
LEMMA DecodeInOrder ==
    ASSUME NEW reg
    PROVE  DecodedFrom(Decode(reg), reg, 1)
<1> DEFINE R == Registers
<1>1. PICK f : /\ Decode(reg) = f[1]
               /\ \A k \in 1 .. R + 2 :
                      f[k] = IF k > R THEN <<>>
                             ELSE <<BarAt(reg, k)>> \o f[k + Stride(reg, k)]
  BY DecodeWorks
<1>2. R \in Nat /\ R > 0 /\ Lower(reg) \subseteq 1 .. R /\ 1 \in Lower(reg)
  BY PciAssumption, LowerFacts DEF Lower
<1> DEFINE Starts(k) == k > R \/ k \in Lower(reg)
           Holds(k) == /\ f[k] \in Seq(Bars(reg))
                       /\ Starts(k) => DecodedFrom(f[k], reg, k)
           S == {n \in 0 .. R + 1 : ~Holds(R + 2 - n)}
<1>3. ASSUME S # {} PROVE FALSE
  <2>1. PICK x \in S : \A y \in S : x <= y
    <3>1. S \subseteq Nat
      BY <1>2
    <3> HIDE DEF S
    <3> QED
      BY <1>3, <3>1, LeastOf
  <2> DEFINE k == R + 2 - x
  <2>2. /\ x \in 0 .. R + 1 /\ k \in 1 .. R + 2 /\ k \in Nat /\ ~Holds(k)
    BY <1>2
  <2>3. CASE k > R
    <3>1. f[k] = <<>>
      BY <1>1, <2>2, <2>3
    <3>2. From(reg, k) = {}
      BY <1>2, <2>2, <2>3 DEF From
    <3>3. Cardinality(From(reg, k)) = 0
      BY <3>2, FS_EmptySet
    <3>4. <<>> \in Seq(Bars(reg)) /\ Len(<<>>) = 0
      BY EmptySeq
    <3> QED
      BY <2>2, <3>1, <3>2, <3>3, <3>4 DEF DecodedFrom
  <2>4. CASE ~(k > R)
    <3> HIDE DEF k
    <3> DEFINE next == k + Stride(reg, k)
    <3>1. k \in 1 .. R /\ f[k] = <<BarAt(reg, k)>> \o f[next]
      <4>1. k \in 1 .. R
        BY <1>2, <2>2, <2>4
      <4>2. f[k] = IF k > R THEN <<>> ELSE <<BarAt(reg, k)>> \o f[next]
        <5>1. k \in 1 .. R + 2
          BY <2>2
        <5> QED
          BY <1>1, <5>1
      <4> QED
        BY <2>4, <4>1, <4>2
    <3>2. /\ next \in Nat /\ next \in 1 .. R + 2 /\ k < next
          /\ next = k + 1 \/ (next = k + 2 /\ TakesTwo(reg[k]))
          /\ next = k + 1 => ~TakesTwo(reg[k])
      BY <1>2, <3>1 DEF Stride
    <3>3. Holds(next)
      <4> DEFINE y == R + 2 - next
      <4>1. y \in 0 .. R + 1 /\ R + 2 - y = next /\ ~(x <= y)
        BY <1>2, <2>2, <3>2 DEF k
      <4>2. y \notin S
        BY <2>1, <4>1
      <4> HIDE DEF next, Holds
      <4> QED
        BY <4>1, <4>2
    <3>4. f[k] \in Seq(Bars(reg))
      <4>1. BarAt(reg, k) \in Bars(reg)
        BY <3>1 DEF Bars
      <4>2. <<BarAt(reg, k)>> \in Seq(Bars(reg))
        BY <4>1
      <4> QED
        BY <3>1, <3>3, <4>2, ConcatProperties
    <3>5. k \in Lower(reg) /\ ~DecodedFrom(f[k], reg, k)
      BY <1>2, <2>2, <2>4, <3>4
    <3>6. CASE FourPorts(reg, k)
      <4>1. ~Clean(reg)
        BY <3>5, <3>6 DEF Clean
      <4>2. \A j \in From(reg, k) : k \in 1 .. j
        BY <1>2, <3>1 DEF From
      <4>3. \A j \in From(reg, k) : ~CleanUpto(reg, j)
        BY <3>6, <4>2 DEF CleanUpto
      <4> QED
        BY <3>4, <3>5, <4>1, <4>3 DEF DecodedFrom
    <3>7. CASE ~FourPorts(reg, k)
      <4>1. /\ k + 1 <= R => (k + 1 \in Lower(reg) <=> ~TakesTwo(reg[k]))
            /\ TakesTwo(reg[k]) /\ k + 2 <= R => k + 2 \in Lower(reg)
        BY <3>5, <3>7, LowerFacts
      <4>2. Starts(next)
        BY <1>2, <3>1, <3>2, <4>1
      <4>3. ASSUME NEW j \in Lower(reg), k < j PROVE next <= j
        <5>1. j \in 1 .. R /\ k + 1 <= j
          BY <1>2, <3>1, <4>3
        <5>2. next = k + 2 => j # k + 1
          BY <3>1, <3>2, <4>1, <5>1
        <5> QED
          BY <3>1, <3>2, <5>1, <5>2
      <4>4. DecodedFrom(f[next], reg, next)
        BY <3>3, <4>2
      <4> HIDE DEF Starts, next
      <4>5. DecodedFrom(<<BarAt(reg, k)>> \o f[next], reg, k)
        BY <3>2, <3>5, <4>3, <4>4, OneBarMore
      <4> QED
        BY <3>1, <3>5, <4>5
    <3> QED
      BY <3>6, <3>7
  <2> QED
    BY <2>3, <2>4
<1>4. R + 1 \in 0 .. R + 1 /\ R + 2 - (R + 1) = 1
  BY <1>2
<1>5. R + 1 \notin S
  BY <1>3
<1>6. DecodedFrom(f[1], reg, 1)
  BY <1>2, <1>4, <1>5
<1> QED
  BY <1>1, <1>6

(* Clearing the low bits of a number leaves the multiple of their weight.  *)
LEMMA LowBits ==
    ASSUME NEW x \in Nat
    PROVE  /\ x - (x % 16) = 16 * (x \div 16)
           /\ (x % 65536) - (x % 4) = 4 * ((x % 65536) \div 4)
<1>1. x - (x % 16) = 16 * (x \div 16)
  OBVIOUS
<1>2. PICK r \in Nat, e \in Int : r = x % 65536 /\ x = 65536 * e + r
  <2>1. x % 65536 \in Nat /\ x \div 65536 \in Int
    OBVIOUS
  <2>2. x = 65536 * (x \div 65536) + (x % 65536)
    OBVIOUS
  <2> QED
    BY <2>1, <2>2
<1>3. PICK a \in Int, b \in 0 .. 3 : a = r \div 4 /\ b = r % 4 /\ r = 4 * a + b
  OBVIOUS
<1>4. PICK c \in Int, d \in 0 .. 3 : d = x % 4 /\ x = 4 * c + d
  <2>1. x \div 4 \in Int /\ x % 4 \in 0 .. 3 /\ x = 4 * (x \div 4) + (x % 4)
    OBVIOUS
  <2> QED
    BY <2>1
<1>5. b = d
  <2>1. x = 65536 * e + r
    BY <1>2
  <2>2. r = 4 * a + b
    BY <1>3
  <2>3. x = 4 * c + d
    BY <1>4
  <2> QED
    BY <2>1, <2>2, <2>3
<1>6. r - d = 4 * a
  BY <1>3, <1>5
<1> QED
  BY <1>1, <1>2, <1>3, <1>4, <1>6

(* BarAt gives the right one.                                              *)
LEMMA BarAddress ==
    ASSUME NEW reg \in [1 .. Registers + 1 -> Nat],
           NEW k \in Lower(reg), ~FourPorts(reg, k)
    PROVE  BarAt(reg, k).addr = RightAddress(reg, k)
<1> USE DEF RightAddress
<1>1. /\ k \in 1 .. Registers /\ Registers \in Nat /\ reg[k] \in Nat
      /\ IsIo(reg[k]) => ~TakesTwo(reg[k])
  BY PciAssumption DEF Lower, FourPorts
<1>2. PICK x \in Nat : x = reg[k]
  BY <1>1
<1>3. /\ x - (x % 16) = 16 * (x \div 16)
      /\ (x % 65536) - (x % 4) = 4 * ((x % 65536) \div 4)
  BY LowBits
<1>4. CASE x = 0
  <2>1. BarAt(reg, k).addr = 0
    BY <1>2, <1>4 DEF BarAt
  <2>2. 0 % 2 # 1 /\ (0 % 8) \div 2 # 2 /\ 16 * (0 \div 16) = 0
    OBVIOUS
  <2>3. ~IsIo(x) /\ ~TakesTwo(x) /\ 16 * (x \div 16) = 0
    BY <1>4, <2>2 DEF IsIo, TakesTwo
  <2> QED
    BY <1>2, <2>1, <2>3
<1>5. CASE x # 0
  <2>1. BarAt(reg, k).addr =
            Address(x) + (IF TakesTwo(x) THEN High * reg[k + 1] ELSE 0)
    BY <1>2, <1>5 DEF BarAt
  <2>2. CASE IsIo(x)
    <3>1. Address(x) = 4 * ((x % 65536) \div 4) /\ Address(x) \in Int
      BY <1>3, <2>2 DEF Address
    <3>2. Address(x) + (IF TakesTwo(x) THEN High * reg[k + 1] ELSE 0) = Address(x)
      BY <1>1, <1>2, <2>2, <3>1
    <3> QED
      BY <1>2, <2>1, <2>2, <3>1, <3>2
  <2>3. CASE ~IsIo(x)
    <3>1. Address(x) = 16 * (x \div 16)
      BY <1>3, <2>3 DEF Address
    <3> QED
      BY <1>2, <2>1, <2>3, <3>1
  <2> QED
    BY <2>2, <2>3
<1> QED
  BY <1>4, <1>5

(* What BarsDecoded asks of one function.                                  *)
BarsRight(bar, reg) ==
    /\ \A k \in Lower(reg) : CleanUpto(reg, k) =>
           /\ Place(reg, k) \in 1 .. Len(bar)
           /\ bar[Place(reg, k)].addr = RightAddress(reg, k)
    /\ Clean(reg) => Len(bar) = Cardinality(Lower(reg))

(* Decode gives it.                                                        *)
LEMMA DecodeRight ==
    ASSUME NEW reg \in [1 .. Registers + 1 -> Nat]
    PROVE  BarsRight(Decode(reg), reg)
<1>1. DecodedFrom(Decode(reg), reg, 1)
  BY DecodeInOrder
<1>2. \A k \in Lower(reg) : 1 <= k /\ k \in 1 .. k
  BY PciAssumption DEF Lower
<1>3. /\ From(reg, 1) = Lower(reg)
      /\ \A k \in Lower(reg) : Cardinality(Upto(reg, 1, k)) = Place(reg, k)
  BY <1>2 DEF From, Upto, Place
<1>4. ASSUME NEW k \in Lower(reg), CleanUpto(reg, k)
      PROVE  /\ Place(reg, k) \in 1 .. Len(Decode(reg))
             /\ Decode(reg)[Place(reg, k)].addr = RightAddress(reg, k)
  <2>1. /\ Place(reg, k) \in 1 .. Len(Decode(reg))
        /\ Decode(reg)[Place(reg, k)] = BarAt(reg, k)
    BY <1>1, <1>3, <1>4 DEF DecodedFrom
  <2>2. ~FourPorts(reg, k)
    BY <1>2, <1>4 DEF CleanUpto
  <2> QED
    BY <2>1, <2>2, BarAddress
<1>5. Clean(reg) => Len(Decode(reg)) = Cardinality(Lower(reg))
  BY <1>1, <1>3 DEF DecodedFrom
<1> QED
  BY <1>4, <1>5 DEF BarsRight

(* What pci_register lists of a function, and that the list holds what was *)
(* decoded from the registers of the function it names.                    *)
Entry == [func : Nat, id : {c.id : c \in Configs}, bar : {Decode(c.reg) : c \in Configs}]

BarsKnown ==
    /\ pci_list \in Seq(Entry)
    /\ \A n \in 1 .. Len(pci_list) :
           /\ pci_list[n].func \in 1 .. Len(space)
           /\ pci_list[n].bar = Decode(space[pci_list[n].func].reg)

(* Every step of the system keeps it.                                      *)
LEMMA BarsKept ==
    ProbeInv /\ BarsKnown /\ [StartupNext]_vars => BarsKnown'
<1> SUFFICES ASSUME ProbeInv, BarsKnown, [StartupNext]_vars PROVE BarsKnown'
  OBVIOUS
<1>1. /\ space \in Seq(Configs) /\ Len(space) \in Nat
      /\ pci_list \in Seq(Entry) /\ Len(pci_list) \in Nat
      /\ \A n \in 1 .. Len(pci_list) : pci_list[n] \in Entry
  BY LenProperties, ElementOfSeq DEF ProbeInv, BarsKnown
<1>2. ASSUME NEW c \in Configs, pci_absent(c) \/ pci_found(c) PROVE BarsKnown'
  <2>1. /\ func \in Nat /\ Len(space) = func - 1 /\ space' = Append(space, c)
    BY <1>2, PciAssumption DEF pci_absent, pci_found, ProbeInv
  <2>2. /\ Len(space') = func /\ space'[func] = c /\ func \in 1 .. func
        /\ \A f \in 1 .. Len(space) : f \in 1 .. func /\ space'[f] = space[f]
    BY <1>1, <2>1, AppendProperties
  <2>3. \A n \in 1 .. Len(pci_list) :
            /\ pci_list[n].func \in 1 .. Len(space')
            /\ pci_list[n].bar = Decode(space'[pci_list[n].func].reg)
    BY <2>2 DEF BarsKnown
  <2>4. CASE pci_absent(c)
    <3>1. pci_list' = pci_list
      BY <2>4 DEF pci_absent
    <3> QED
      BY <1>1, <2>3, <3>1 DEF BarsKnown
  <2>5. CASE pci_found(c)
    <3> DEFINE e == [func |-> func, id |-> c.id, bar |-> Decode(c.reg)]
    <3>1. e \in Entry /\ e.func = func /\ e.bar = Decode(c.reg)
      BY <2>1 DEF Entry
    <3>2. pci_list' = <<e>> \o pci_list
      BY <2>5 DEF pci_found
    <3> HIDE DEF e
    <3>3. /\ <<e>> \in Seq(Entry) /\ Len(<<e>>) = 1 /\ <<e>>[1] = e
      BY <3>1
    <3>4. /\ pci_list' \in Seq(Entry) /\ Len(pci_list') = 1 + Len(pci_list)
          /\ \A n \in 1 .. 1 + Len(pci_list) :
                 pci_list'[n] = IF n <= 1 THEN <<e>>[n] ELSE pci_list[n - 1]
      BY <1>1, <3>2, <3>3, ConcatProperties
    <3>5. ASSUME NEW n \in 1 .. Len(pci_list')
          PROVE  /\ pci_list'[n].func \in 1 .. Len(space')
                 /\ pci_list'[n].bar = Decode(space'[pci_list'[n].func].reg)
      <4>1. CASE n = 1
        BY <2>2, <3>1, <3>3, <3>4, <4>1
      <4>2. CASE n # 1
        <5>1. n - 1 \in 1 .. Len(pci_list) /\ pci_list'[n] = pci_list[n - 1]
          BY <1>1, <3>4, <4>2
        <5> QED
          BY <2>3, <5>1
      <4> QED
        BY <4>1, <4>2
    <3> QED
      BY <3>4, <3>5 DEF BarsKnown
  <2> QED
    BY <1>2, <2>4, <2>5
<1>3. CASE pci_list' = pci_list /\ space' = space
  BY <1>3 DEF BarsKnown
<1>4. CASE ~\E c \in Configs : pci_absent(c) \/ pci_found(c)
  <2>1. pci_list' = pci_list /\ space' = space
    BY <1>4 DEF StartupNext, boot_step, init, main, deinit_returns, page_init, acpi_init,
                hpet_init, ixgbe_init, pci_driver_register, pci_init_returns, pci_probe,
                pci_calls_new, pci_new_call, pci_no_match, pci_loaded,
                ixgbe_linkup, apic_init, adapter_step, halted, vars, pciVars
  <2> QED
    BY <1>3, <2>1
<1> QED
  BY <1>2, <1>4

(* For every number of functions and of registers, whatever the registers  *)
(* hold: bar[] has the function's addresses in their order up to the first *)
(* range of four ports, and all of them where there is none (pci_new).     *)
THEOREM BarsFound == StartupSpec => []BarsDecoded
<1>1. StartupInit => Registered /\ ProbeInv
  BY StartsProbe
<1>2. StartupInit => BarsKnown
  <2> SUFFICES ASSUME StartupInit PROVE BarsKnown
    OBVIOUS
  <2>1. pci_list = <<>>
    BY DEF StartupInit, PciInit
  <2> QED
    BY <2>1 DEF BarsKnown
<1>3. ProbeInv /\ BarsKnown => BarsDecoded
  <2> SUFFICES ASSUME ProbeInv, BarsKnown PROVE BarsDecoded
    OBVIOUS
  <2>1. ASSUME NEW n \in 1 .. Len(pci_list)
        PROVE  BarsRight(pci_list[n].bar, space[pci_list[n].func].reg)
    <3>1. PICK f \in 1 .. Len(space) : f = pci_list[n].func
      BY DEF BarsKnown
    <3>2. space[f] \in Configs
      BY <3>1, ElementOfSeq DEF ProbeInv
    <3>3. PICK r \in [1 .. Registers + 1 -> Nat] : r = space[f].reg
      BY <3>2, PciAssumption
    <3>4. pci_list[n].bar = Decode(r)
      BY <3>1, <3>3 DEF BarsKnown
    <3> QED
      BY <3>1, <3>3, <3>4, DecodeRight
  <2> QED
    BY <2>1 DEF BarsDecoded, BarsRight, CleanUpto, Clean
<1>4. StartupSpec => []InitIInv
  BY StartupRunsInit, InitInvariant, PTL
<1> QED
  BY <1>1, <1>2, <1>3, <1>4, RegisteredKept, ProbeInvKept, BarsKept, PTL DEF StartupSpec
=============================================================================

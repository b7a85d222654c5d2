----------------------------- MODULE SmpProofs -----------------------------
(***************************************************************************)
(* Proofs about SmpBoot, for any number of processors and any table that   *)
(* lists each once: a processor finds its stack in the array the boot      *)
(* processor is filling, stacks stay apart, lines whole.                   *)
(* And about Printf, whose text those lines are, for any widths of an int  *)
(* and a long, any directive, word and string: the text is what C says;    *)
(* and where a buffer is too small snprintf cuts it off and says so.       *)
(***************************************************************************)
EXTENDS SmpBoot, FiniteSetTheorems, SequenceTheorems, WellFoundedInduction, TLAPS

(* The entries for processors among the first n of a table.                *)
LocalApics(m, n) == {k \in 1 .. n : m[k].entry_type = 0}

(* acpi_create_cpulist's loops: no more processors are counted than are    *)
(* listed, and each is listed once.                                        *)
ListLoops ==
    /\ bsp = "count" =>
           info = <<>> /\ cpunum <= Cardinality(LocalApics(madt, entry - 1))
    /\ bsp = "list" =>
           /\ Len(info) = Cardinality(LocalApics(madt, entry - 1))
           /\ cpunum <= Cardinality(LocalApics(madt, Len(madt)))
    /\ bsp \notin {"count", "list"} => cpunum <= Len(info)

ListedOnce ==
    /\ \A k \in 1 .. Len(info) :
           \E n \in LocalApics(madt, entry - 1) : madt[n].apic_id = info[k]
    /\ \A j, k \in 1 .. Len(info) : info[j] = info[k] /\ info[j] # None => j = k

(* The entries of stacklist that are complete.                             *)
Filled ==
    CASE bsp \in {"fill", "stack"} -> 1 .. i - 1
      [] bsp = "start" -> 1 .. i
      [] bsp \in {"main", "deinit", "stopped"} -> 1 .. cpunum
      [] OTHER -> {}

(* apic_init's loop.                                                       *)
FillLoop ==
    /\ bsp \notin {"count", "list", "apic"} => Len(stacklist) = cpunum
    /\ bsp = "fill" => i <= cpunum + 1
    /\ bsp \in {"stack", "start"} => i <= cpunum /\ info[i] # BSP
    /\ bsp = "stack" => stacklist[i].apic_id = info[i]
    /\ heap_top >= BOOT_BSP_STACK_BASE + (IF bsp = "count" THEN 0 ELSE Chunk)

(* The complete entries have the listed processors' ids, and each a stack  *)
(* of its own above the boot processor's and below the heap's top.         *)
Entries ==
    \A k \in Filled :
        /\ stacklist[k].apic_id = info[k]
        /\ info[k] # BSP =>
               /\ stacklist[k].stack_base >= BOOT_BSP_STACK_BASE + Chunk + HDR
               /\ stacklist[k].stack_base + BOOT_STACK_SIZE <= heap_top

Blocks ==
    \A j, k \in Filled :
        j < k /\ info[j] # BSP /\ info[k] # BSP =>
            stacklist[j].stack_base + BOOT_STACK_SIZE <= stacklist[k].stack_base

(* A processor is started when its entry is complete, and goes by that.    *)
Pending(a) == \E k \in 1 .. Len(ipi[a]) : ipi[a][k] = "SIPI"

Started ==
    \A a \in APs :
        /\ Pending(a) \/ cpu[a] # "wait" => \E k \in Filled : info[k] = a
        /\ cpu[a] = "scan" => \E k \in Filled : info[k] = a /\ idx[a] <= k
        /\ Running(a) =>
               \E k \in Filled : info[k] = a /\ stack[a] = stacklist[k].stack_base

(* printf's lock: who is inside has it, and what is on the console is      *)
(* lines and what that processor has written of one.                       *)
Inside(p) == out[p] \in {"first", "rest", "unlock"}

LockHeld ==
    /\ \A p \in Processors : Inside(p) => lock = 1
    /\ \A p, q \in Processors : Inside(p) /\ Inside(q) => p = q

Pairs ==
    \A k \in Nat \ {0} : 2 * k <= Len(console) => console[2 * k - 1] = console[2 * k]

EvenLines == \E n \in Nat : Len(console) = 2 * n

Begun ==
    /\ lock = 0 => EvenLines
    /\ \A p \in Processors :
           /\ out[p] \in {"first", "unlock"} => EvenLines
           /\ out[p] = "rest" =>
                  \E n \in Nat : Len(console) = 2 * n + 1 /\ console[2 * n + 1] = p

SmpIInv ==
    /\ SmpTypeOK /\ ListLoops /\ ListedOnce
    /\ FillLoop /\ Entries /\ Blocks /\ Started
    /\ LockHeld /\ Pairs /\ Begun
-----------------------------------------------------------------------------
(* printf's own steps.                                                     *)
PrintTypes ==
    /\ out \in [Processors -> {"none", "lock", "first", "rest", "unlock"}]
    /\ lock \in {0, 1} /\ console \in Seq(Processors)

(* A processor that begins, or is reset, leaves the lines as they are.     *)
LEMMA OutsideKept ==
    ASSUME PrintTypes, LockHeld, Pairs, Begun, NEW a \in Processors,
           NEW w \in {"none", "lock"},
           out' = [out EXCEPT ![a] = w], lock' = lock, console' = console
    PROVE  LockHeld' /\ Pairs' /\ Begun'
<1>1. \A p \in Processors : out'[p] = out[p] \/ out'[p] = w
  BY DEF PrintTypes
<1>2. LockHeld'
  BY <1>1 DEF LockHeld, Inside
<1>3. Pairs'
  BY DEF Pairs
<1>4. Begun'
  BY <1>1 DEF Begun, EvenLines
<1> QED
  BY <1>2, <1>3, <1>4

(* The lock is taken where nobody has it.                                  *)
LEMMA LockKept ==
    ASSUME PrintTypes, LockHeld, Pairs, Begun, NEW a \in Processors, printf_lock(a)
    PROVE  LockHeld' /\ Pairs' /\ Begun'
<1>1. /\ out' = [out EXCEPT ![a] = "first"] /\ lock = 0 /\ lock' = 1
      /\ console' = console
  BY DEF printf_lock
<1>2. \A p \in Processors : p # a => out'[p] = out[p] /\ ~Inside(p)
  BY <1>1 DEF PrintTypes, LockHeld
<1>3. out'[a] = "first" /\ EvenLines
  BY <1>1 DEF PrintTypes, Begun
<1>4. LockHeld'
  BY <1>1, <1>2 DEF LockHeld, Inside
<1>5. Pairs'
  BY <1>1 DEF Pairs
<1>6. Begun'
  BY <1>1, <1>2, <1>3 DEF Begun, EvenLines, Inside
<1> QED
  BY <1>4, <1>5, <1>6

(* A character is written by the one that has the lock.                    *)
LEMMA CharKept ==
    ASSUME PrintTypes, LockHeld, Pairs, Begun, NEW a \in Processors, printf_char(a)
    PROVE  LockHeld' /\ Pairs' /\ Begun'
<1>1. /\ out[a] \in {"first", "rest"} /\ lock' = lock
      /\ console' = Append(console, a)
      /\ out' = [out EXCEPT ![a] = IF out[a] = "first" THEN "rest" ELSE "unlock"]
  BY DEF printf_char
<1>2. /\ Len(console) \in Nat /\ Len(console') = Len(console) + 1
      /\ console'[Len(console) + 1] = a
      /\ \A k \in 1 .. Len(console) : console'[k] = console[k]
  BY <1>1, AppendProperties, LenProperties DEF PrintTypes
<1>3. \A p \in Processors : p # a => out'[p] = out[p] /\ ~Inside(p)
  BY <1>1 DEF PrintTypes, LockHeld, Inside
<1>4. lock = 1 /\ lock' = 1
  BY <1>1 DEF LockHeld, Inside
<1>5. LockHeld'
  BY <1>1, <1>3, <1>4 DEF LockHeld, Inside
<1>6. CASE out[a] = "first"
  <2>1. PICK n \in Nat : Len(console) = 2 * n
    BY <1>6 DEF Begun, EvenLines
  <2>2. Len(console') = 2 * n + 1 /\ console'[2 * n + 1] = a
    BY <1>2, <2>1
  <2>3. Pairs'
    BY <1>2, <2>1, <2>2 DEF Pairs
  <2>4. out'[a] = "rest"
    BY <1>1, <1>6 DEF PrintTypes
  <2>5. Begun'
    BY <1>3, <1>4, <2>2, <2>4 DEF Begun, Inside
  <2> QED
    BY <1>5, <2>3, <2>5
<1>7. CASE out[a] = "rest"
  <2>1. PICK n \in Nat : Len(console) = 2 * n + 1 /\ console[2 * n + 1] = a
    BY <1>7 DEF Begun
  <2>2. /\ Len(console') = 2 * (n + 1)
        /\ console'[2 * (n + 1)] = a /\ console'[2 * (n + 1) - 1] = a
    BY <1>2, <2>1
  <2>3. Pairs'
    <3> SUFFICES ASSUME NEW k \in Nat \ {0}, 2 * k <= Len(console')
                 PROVE  console'[2 * k - 1] = console'[2 * k]
      BY DEF Pairs
    <3>1. k <= n + 1
      BY <2>2
    <3>2. CASE k = n + 1
      BY <2>2, <3>2
    <3>3. CASE k <= n
      <4>1. 2 * k <= Len(console) /\ 2 * k - 1 \in 1 .. Len(console) /\ 2 * k \in 1 .. Len(console)
        BY <2>1, <3>3
      <4>2. console[2 * k - 1] = console[2 * k]
        BY <4>1 DEF Pairs
      <4> QED
        BY <1>2, <4>1, <4>2
    <3> QED
      BY <3>1, <3>2, <3>3
  <2>4. out'[a] = "unlock"
    BY <1>1, <1>7 DEF PrintTypes
  <2>5. EvenLines'
    <3>1. n + 1 \in Nat
      OBVIOUS
    <3> QED
      BY <2>2, <3>1 DEF EvenLines
  <2>6. Begun'
    BY <1>3, <1>4, <2>4, <2>5 DEF Begun, Inside
  <2> QED
    BY <1>5, <2>3, <2>6
<1> QED
  BY <1>1, <1>6, <1>7

(* The lock is given back at the end of a line.                            *)
LEMMA UnlockKept ==
    ASSUME PrintTypes, LockHeld, Pairs, Begun, NEW a \in Processors, printf_unlock(a)
    PROVE  LockHeld' /\ Pairs' /\ Begun'
<1>1. /\ out[a] = "unlock" /\ out' = [out EXCEPT ![a] = "none"]
      /\ lock' = 0 /\ console' = console
  BY DEF printf_unlock
<1>2. \A p \in Processors : p # a => out'[p] = out[p] /\ ~Inside(p)
  BY <1>1 DEF PrintTypes, LockHeld, Inside
<1>3. out'[a] = "none" /\ EvenLines
  BY <1>1 DEF PrintTypes, Begun
<1>4. LockHeld'
  BY <1>2, <1>3 DEF LockHeld, Inside
<1>5. Pairs'
  BY <1>1 DEF Pairs
<1>6. Begun'
  BY <1>1, <1>2, <1>3 DEF Begun, EvenLines, Inside
<1> QED
  BY <1>4, <1>5, <1>6

(* Whatever steps, printf's lock and lines stay in order.                  *)
LEMMA PrintKept ==
    SmpTypeOK /\ LockHeld /\ Pairs /\ Begun /\ [SmpNext]_vars => LockHeld' /\ Pairs' /\ Begun'
<1> SUFFICES ASSUME SmpTypeOK, LockHeld, Pairs, Begun, [SmpNext]_vars
             PROVE  LockHeld' /\ Pairs' /\ Begun'
  OBVIOUS
<1>0. PrintTypes
  BY DEF SmpTypeOK, PrintTypes
<1>1. ASSUME NEW a \in Processors, do_printf(a) PROVE LockHeld' /\ Pairs' /\ Begun'
  BY <1>0, <1>1, LockKept, CharKept, UnlockKept DEF do_printf
<1>2. ASSUME NEW a \in Processors, printf(a) PROVE LockHeld' /\ Pairs' /\ Begun'
  <2>1. out' = [out EXCEPT ![a] = "lock"] /\ lock' = lock /\ console' = console
    BY <1>2 DEF printf
  <2> QED
    BY <1>0, <2>1, OutsideKept
<1>3. ASSUME NEW a \in APs, deliver_init(a) PROVE LockHeld' /\ Pairs' /\ Begun'
  <2>1. out' = [out EXCEPT ![a] = "none"] /\ lock' = lock /\ console' = console
    BY <1>3 DEF deliver_init
  <2>2. a \in Processors
    BY DEF Processors
  <2> QED
    BY <1>0, <2>1, <2>2, OutsideKept
<1>4. CASE UNCHANGED printVars
  BY <1>4 DEF printVars, LockHeld, Inside, Pairs, Begun, EvenLines
<1>5. BSP \in Processors /\ APs \subseteq Processors
  BY DEF Processors
<1>6. CASE boot_step
  <2>1. (\E a \in Processors : do_printf(a) \/ printf(a)) \/ UNCHANGED printVars
    BY <1>5, <1>6 DEF boot_step, acpi_count, acpi_counted, acpi_list, acpi_listed,
            apic_init, apic_boot_entry, apic_entry, apic_stack, apic_start, apic_done,
            main, main_return, apic_deinit_boot, apic_deinit, apic_deinit_again,
            init_return
  <2> QED
    BY <1>1, <1>2, <1>4, <2>1
<1>7. ASSUME NEW a \in APs, ap_step(a) PROVE LockHeld' /\ Pairs' /\ Begun'
  <2>1. deliver_init(a) \/ do_printf(a) \/ printf(a) \/ UNCHANGED printVars
    BY <1>7 DEF ap_step, deliver_start, ap_next, ap_found, init_ap, ap_stop
  <2> QED
    BY <1>1, <1>2, <1>3, <1>4, <1>5, <2>1
<1>8. CASE (\E p \in Processors : printf_spin(p)) \/ stop \/ UNCHANGED vars
  BY <1>4, <1>8 DEF printf_spin, stop, vars
<1> QED
  BY <1>6, <1>7, <1>8 DEF SmpNext
-----------------------------------------------------------------------------
(* One entry more adds at most one processor.                              *)
LEMMA Counting ==
    ASSUME NEW m \in Madts, NEW n \in 1 .. Len(m)
    PROVE  /\ Cardinality(LocalApics(m, n)) \in Nat
           /\ Cardinality(LocalApics(m, n - 1)) \in Nat
           /\ Cardinality(LocalApics(m, n)) =
                  IF m[n].entry_type = 0 THEN Cardinality(LocalApics(m, n - 1)) + 1
                  ELSE Cardinality(LocalApics(m, n - 1))
<1>0. Len(m) \in Nat
  BY MadtAssumption, LenProperties
<1>1. IsFiniteSet(1 .. n - 1)
  BY <1>0, FS_Interval
<1>2. LocalApics(m, n - 1) \subseteq 1 .. n - 1
  BY DEF LocalApics
<1>3. IsFiniteSet(LocalApics(m, n - 1))
  BY <1>1, <1>2, FS_Subset
<1>4. n \notin LocalApics(m, n - 1)
  BY <1>0 DEF LocalApics
<1>5. CASE m[n].entry_type = 0
  <2>1. LocalApics(m, n) = LocalApics(m, n - 1) \cup {n}
    BY <1>0, <1>5 DEF LocalApics
  <2>2. Cardinality(LocalApics(m, n - 1) \cup {n}) = Cardinality(LocalApics(m, n - 1)) + 1
    BY <1>3, <1>4, FS_AddElement
  <2>3. Cardinality(LocalApics(m, n - 1)) \in Nat
    BY <1>3, FS_CardinalityType
  <2> QED
    BY <1>5, <2>1, <2>2, <2>3
<1>6. CASE m[n].entry_type # 0
  <2>1. LocalApics(m, n) = LocalApics(m, n - 1)
    BY <1>0, <1>6 DEF LocalApics
  <2> QED
    BY <1>3, <1>6, <2>1, FS_CardinalityType
<1> QED
  BY <1>5, <1>6

(* Nothing is counted of an empty table.                                   *)
LEMMA CountingNothing == \A m : LocalApics(m, 0) = {} /\ Cardinality({}) = 0
BY FS_EmptySet DEF LocalApics

(* The table and what is listed of it are typed.                           *)
LEMMA ListTypes ==
    ASSUME SmpTypeOK
    PROVE  /\ madt \in Madts /\ madt \in Seq(Entry) /\ Len(madt) \in Nat
           /\ entry \in 1 .. Len(madt) + 1
           /\ info \in Seq(Ids) /\ Len(info) \in Nat /\ cpunum \in Nat
           /\ \A k \in 1 .. Len(madt) : madt[k] \in Entry
<1>1. madt \in Madts /\ entry \in 1 .. Len(madt) + 1 /\ info \in Seq(Ids) /\ cpunum \in Nat
  BY DEF SmpTypeOK
<1>2. madt \in Seq(Entry)
  BY <1>1, MadtAssumption
<1> QED
  BY <1>1, <1>2, LenProperties, ElementOfSeq

(* A step of the list's second loop.                                       *)
LEMMA ListStep ==
    ASSUME SmpTypeOK, ListLoops, ListedOnce, acpi_list
    PROVE  ListLoops' /\ ListedOnce'
<1>0. /\ madt \in Madts /\ Len(madt) \in Nat /\ entry \in 1 .. Len(madt)
      /\ info \in Seq(Ids) /\ Len(info) \in Nat
      /\ madt[entry].apic_id \in Ids
      /\ bsp = "list" /\ bsp' = bsp /\ madt' = madt /\ entry' = entry + 1 /\ cpunum' = cpunum
      /\ info' = IF madt[entry].entry_type = 0 THEN Append(info, madt[entry].apic_id) ELSE info
  BY ListTypes DEF acpi_list, boot_at, Entry, Ids
<1>1. /\ Cardinality(LocalApics(madt, entry)) \in Nat
      /\ Cardinality(LocalApics(madt, entry)) =
             IF madt[entry].entry_type = 0 THEN Len(info) + 1 ELSE Len(info)
  BY <1>0, Counting DEF ListLoops
<1>2. entry' - 1 = entry
  BY <1>0
<1>3. \A n \in LocalApics(madt, entry - 1) : n \in LocalApics(madt, entry) /\ n # entry
  BY <1>0 DEF LocalApics
<1>4. /\ \A k \in 1 .. Len(info) :
             \E n \in LocalApics(madt, entry - 1) : madt[n].apic_id = info[k]
      /\ \A j, k \in 1 .. Len(info) : info[j] = info[k] /\ info[j] # None => j = k
  BY DEF ListedOnce
<1>5. CASE madt[entry].entry_type # 0
  <2>1. info' = info
    BY <1>0, <1>5
  <2>2. ListLoops'
    BY <1>0, <1>1, <1>2, <1>5, <2>1 DEF ListLoops
  <2>3. ListedOnce'
    BY <1>0, <1>2, <1>3, <1>4, <2>1 DEF ListedOnce
  <2> QED
    BY <2>2, <2>3
<1>6. CASE madt[entry].entry_type = 0
  <2> DEFINE x == madt[entry].apic_id
  <2>1. /\ Len(info') = Len(info) + 1 /\ info'[Len(info) + 1] = x
        /\ \A k \in 1 .. Len(info) : info'[k] = info[k]
    BY <1>0, <1>6, AppendProperties
  <2>2. entry \in LocalApics(madt, entry)
    BY <1>0, <1>6 DEF LocalApics
  <2>3. ListLoops'
    BY <1>0, <1>1, <1>2, <1>6, <2>1 DEF ListLoops
  <2>4. ASSUME NEW k \in 1 .. Len(info), info[k] = x PROVE x = None
    <3>1. PICK n \in LocalApics(madt, entry - 1) : madt[n].apic_id = x
      BY <1>4, <2>4
    <3>2. /\ n \in 1 .. Len(madt) /\ entry \in 1 .. Len(madt) /\ n # entry
          /\ madt[n].entry_type = 0
      BY <1>0, <1>3, <3>1 DEF LocalApics
    <3> QED
      BY <1>0, <1>6, <3>1, <3>2, MadtAssumption
  <2>5. \A k \in 1 .. Len(info') : k = Len(info) + 1 \/ k \in 1 .. Len(info)
    BY <1>0, <2>1
  <2> HIDE DEF x
  <2>6. \A k \in 1 .. Len(info') :
            \E n \in LocalApics(madt, entry) : madt[n].apic_id = info'[k]
    BY <1>3, <1>4, <2>1, <2>2, <2>5 DEF x
  <2>7. \A j, k \in 1 .. Len(info') : info'[j] = info'[k] /\ info'[j] # None => j = k
    BY <1>4, <2>1, <2>4, <2>5
  <2>8. ListedOnce'
    BY <1>0, <1>2, <2>6, <2>7 DEF ListedOnce
  <2> QED
    BY <2>3, <2>8
<1> QED
  BY <1>5, <1>6

(* Every step keeps the list right.                                        *)
LEMMA ListKept ==
    SmpTypeOK /\ ListLoops /\ ListedOnce /\ [SmpNext]_vars => ListLoops' /\ ListedOnce'
<1> SUFFICES ASSUME SmpTypeOK, ListLoops, ListedOnce, [SmpNext]_vars
             PROVE  ListLoops' /\ ListedOnce'
  OBVIOUS
<1>0. /\ madt \in Madts /\ Len(madt) \in Nat /\ entry \in 1 .. Len(madt) + 1
      /\ cpunum \in Nat /\ Len(info) \in Nat
  BY ListTypes
<1>1. CASE acpi_count
  <2>1. /\ bsp = "count" /\ bsp' = bsp /\ entry \in 1 .. Len(madt)
        /\ madt' = madt /\ info' = info /\ entry' - 1 = entry
        /\ info = <<>> /\ Len(info) = 0
        /\ cpunum' = cpunum \/ (madt[entry].entry_type = 0 /\ cpunum' = cpunum + 1)
    BY <1>0, <1>1 DEF acpi_count, boot_at, ListLoops
  <2>2. cpunum <= Cardinality(LocalApics(madt, entry - 1))
    BY <2>1 DEF ListLoops
  <2>3. cpunum' <= Cardinality(LocalApics(madt, entry))
    BY <1>0, <2>1, <2>2, Counting
  <2>4. ListLoops'
    BY <2>1, <2>3 DEF ListLoops
  <2>5. ListedOnce'
    BY <2>1 DEF ListedOnce
  <2> QED
    BY <2>4, <2>5
<1>2. CASE acpi_counted
  <2>1. /\ bsp = "count" /\ bsp' = "list" /\ entry - 1 = Len(madt) /\ entry' - 1 = 0
        /\ madt' = madt /\ info' = info /\ cpunum' = cpunum
        /\ info = <<>> /\ Len(info) = 0
        /\ cpunum <= Cardinality(LocalApics(madt, entry - 1))
    BY <1>0, <1>2 DEF acpi_counted, boot_at, ListLoops
  <2>2. Len(info') = Cardinality(LocalApics(madt', entry' - 1))
    BY <2>1, CountingNothing
  <2>3. ListLoops'
    BY <2>1, <2>2 DEF ListLoops
  <2>4. ListedOnce'
    BY <2>1 DEF ListedOnce
  <2> QED
    BY <2>3, <2>4
<1>3. CASE acpi_list
  BY <1>3, ListStep
<1>4. CASE acpi_listed
  <2>1. /\ bsp = "list" /\ bsp' = "apic" /\ entry - 1 = Len(madt)
        /\ entry' = entry /\ madt' = madt /\ info' = info /\ cpunum' = cpunum
        /\ Len(info) = Cardinality(LocalApics(madt, entry - 1))
        /\ cpunum <= Cardinality(LocalApics(madt, Len(madt)))
    BY <1>0, <1>4 DEF acpi_listed, boot_at, acpiVars, ListLoops
  <2> QED
    BY <2>1 DEF ListLoops, ListedOnce
<1>5. CASE UNCHANGED acpiVars /\ (bsp' = bsp \/ (/\ bsp \notin {"count", "list"}
                                                 /\ bsp' \notin {"count", "list"}))
  BY <1>5 DEF acpiVars, ListLoops, ListedOnce
<1>6. CASE \/ apic_init \/ apic_boot_entry \/ apic_entry \/ apic_stack \/ apic_start
           \/ apic_done \/ main \/ main_return \/ apic_deinit_boot \/ apic_deinit
           \/ apic_deinit_again \/ init_return \/ do_printf(BSP)
  BY <1>5, <1>6 DEF apic_init, apic_boot_entry, apic_entry, apic_stack, apic_start,
         apic_done, main, main_return, apic_deinit_boot, apic_deinit,
         apic_deinit_again, init_return, do_printf, boot_at
<1>7. ASSUME NEW a \in APs, ap_step(a) PROVE ListLoops' /\ ListedOnce'
  BY <1>5, <1>7 DEF ap_step, deliver_init, deliver_start, ap_next, ap_found, init_ap,
         ap_stop, do_printf
<1>8. CASE (\E p \in Processors : printf_spin(p)) \/ stop \/ UNCHANGED vars
  BY <1>5, <1>8 DEF printf_spin, stop, vars
<1> QED
  BY <1>1, <1>2, <1>3, <1>4, <1>6, <1>7, <1>8 DEF SmpNext, boot_step
-----------------------------------------------------------------------------
(* An entry of stacklist.                                                  *)
StackEntry == [apic_id : Ids, stack_base : Nat]

(* A store to a whole entry.                                               *)
LEMMA StoreFacts ==
    ASSUME NEW list \in Seq(StackEntry), NEW n \in 1 .. Len(list), NEW e \in StackEntry,
           NEW new, new = [list EXCEPT ![n] = e]
    PROVE  /\ new \in Seq(StackEntry) /\ Len(new) = Len(list) /\ new[n] = e
           /\ \A k \in 1 .. Len(list) : k # n => new[k] = list[k]
BY ExceptSeq

(* A store to an entry's id.                                               *)
LEMMA StoreId ==
    ASSUME NEW list \in Seq(StackEntry), NEW n \in 1 .. Len(list), NEW id \in Ids,
           NEW new, new = [list EXCEPT ![n].apic_id = id]
    PROVE  /\ new \in Seq(StackEntry) /\ Len(new) = Len(list)
           /\ new[n].apic_id = id /\ new[n].stack_base = list[n].stack_base
           /\ \A k \in 1 .. Len(list) : k # n => new[k] = list[k]
<1> DEFINE e == [list[n] EXCEPT !.apic_id = id]
<1>1. list[n] \in StackEntry
  BY ElementOfSeq
<1>2. e \in StackEntry /\ e.apic_id = id /\ e.stack_base = list[n].stack_base
  BY <1>1 DEF StackEntry
<1>3. new = [list EXCEPT ![n] = e]
  OBVIOUS
<1> HIDE DEF e
<1>4. /\ new \in Seq(StackEntry) /\ Len(new) = Len(list) /\ new[n] = e
      /\ \A k \in 1 .. Len(list) : k # n => new[k] = list[k]
  BY <1>2, <1>3, StoreFacts
<1> QED
  BY <1>2, <1>4

(* A store to an entry's stack.                                            *)
LEMMA StoreBase ==
    ASSUME NEW list \in Seq(StackEntry), NEW n \in 1 .. Len(list), NEW base \in Nat,
           NEW new, new = [list EXCEPT ![n].stack_base = base]
    PROVE  /\ new \in Seq(StackEntry) /\ Len(new) = Len(list)
           /\ new[n].stack_base = base /\ new[n].apic_id = list[n].apic_id
           /\ \A k \in 1 .. Len(list) : k # n => new[k] = list[k]
<1> DEFINE e == [list[n] EXCEPT !.stack_base = base]
<1>1. list[n] \in StackEntry
  BY ElementOfSeq
<1>2. e \in StackEntry /\ e.stack_base = base /\ e.apic_id = list[n].apic_id
  BY <1>1 DEF StackEntry
<1>3. new = [list EXCEPT ![n] = e]
  OBVIOUS
<1> HIDE DEF e
<1>4. /\ new \in Seq(StackEntry) /\ Len(new) = Len(list) /\ new[n] = e
      /\ \A k \in 1 .. Len(list) : k # n => new[k] = list[k]
  BY <1>2, <1>3, StoreFacts
<1> QED
  BY <1>2, <1>4

(* The entry at hand is inside both arrays.                                *)
LEMMA FillFacts ==
    ASSUME SmpTypeOK, ListLoops, FillLoop, bsp \in {"fill", "stack", "start"}, i <= cpunum
    PROVE  /\ i \in 1 .. Len(stacklist) /\ i \in 1 .. Len(info) /\ i \in Nat
           /\ info[i] \in Ids /\ stacklist \in Seq(StackEntry)
           /\ stacklist[i] \in StackEntry
           /\ Len(stacklist) = cpunum /\ heap_top \in Nat /\ cpunum \in Nat
<1>1. /\ i \in Nat \ {0} /\ info \in Seq(Ids) /\ stacklist \in Seq(StackEntry)
      /\ heap_top \in Nat /\ cpunum \in Nat
  BY DEF SmpTypeOK, StackEntry
<1>2. Len(stacklist) = cpunum /\ cpunum <= Len(info) /\ Len(info) \in Nat
  BY <1>1, LenProperties DEF FillLoop, ListLoops
<1>3. i \in 1 .. Len(stacklist) /\ i \in 1 .. Len(info)
  BY <1>1, <1>2
<1> QED
  BY <1>1, <1>2, <1>3, ElementOfSeq

(* The array apic_init allocates.                                          *)
LEMMA ArrayFacts ==
    ASSUME NEW n \in Nat, NEW id \in Ids
    PROVE  /\ [k \in 1 .. n |-> [apic_id |-> id, stack_base |-> 0]] \in Seq(StackEntry)
           /\ Len([k \in 1 .. n |-> [apic_id |-> id, stack_base |-> 0]]) = n
BY DEF StackEntry

(* IPIs are added to what is on its way.                                   *)
LEMMA SendFacts ==
    ASSUME ipi \in [APs -> Seq({"INIT", "SIPI"})],
           NEW kinds \in Seq({"INIT", "SIPI"}), NEW id, Send(id, kinds)
    PROVE  /\ ipi' \in [APs -> Seq({"INIT", "SIPI"})]
           /\ \A a \in APs : a # id => ipi'[a] = ipi[a]
           /\ \A a \in APs : ipi'[a] = IF a = id THEN ipi[a] \o kinds ELSE ipi[a]
<1>1. \A a \in APs : ipi[a] \o kinds \in Seq({"INIT", "SIPI"})
  BY ConcatProperties
<1> QED
  BY <1>1 DEF Send

(* The IPIs are typed.                                                     *)
LEMMA KindsFacts ==
    /\ StartIPIs \in Seq({"INIT", "SIPI"}) /\ <<"INIT">> \in Seq({"INIT", "SIPI"})
    /\ Len(<<"INIT">>) = 1
BY DEF StartIPIs

(* Every step keeps the types.                                             *)
LEMMA TypesKept ==
    SmpTypeOK /\ ListLoops /\ FillLoop /\ [SmpNext]_vars => SmpTypeOK'
<1> SUFFICES ASSUME SmpTypeOK, ListLoops, FillLoop, [SmpNext]_vars PROVE SmpTypeOK'
  OBVIOUS
<1> DEFINE PrintOK == /\ out \in [Processors -> {"none", "lock", "first", "rest", "unlock"}]
                      /\ lock \in {0, 1} /\ console \in Seq(Processors)
           ApOK == /\ ipi \in [APs -> Seq({"INIT", "SIPI"})]
                   /\ cpu \in [APs -> {"wait", "scan", "call", "print", "stop"}]
                   /\ idx \in [APs -> Nat \ {0}]
                   /\ stack \in [APs -> Nat]
           ListOK == /\ madt \in Madts /\ entry \in 1 .. Len(madt) + 1
                     /\ cpunum \in Nat /\ info \in Seq(Ids)
           BootOK == /\ bsp \in {"count", "list", "apic", "fill", "stack", "start",
                                 "main", "deinit", "stopped"}
                     /\ i \in Nat \ {0} /\ stacklist \in Seq(StackEntry)
                     /\ heap_top \in Nat /\ again \in BOOLEAN /\ in_time \in BOOLEAN
<1>0. PrintOK /\ ApOK /\ ListOK /\ BootOK
  BY DEF SmpTypeOK, StackEntry
<1>1. PrintOK' /\ ApOK' /\ ListOK' /\ BootOK' => SmpTypeOK'
  BY DEF SmpTypeOK, StackEntry
<1> HIDE DEF PrintOK, ApOK, ListOK, BootOK
<1>2. (UNCHANGED printVars => PrintOK') /\ (UNCHANGED acpiVars => ListOK')
      /\ (UNCHANGED <<bsp, apicVars>> => BootOK') /\ (UNCHANGED <<ipi, apVars>> => ApOK')
  BY <1>0 DEF printVars, acpiVars, apicVars, apVars, PrintOK, ApOK, ListOK, BootOK
<1>3. ASSUME NEW a \in Processors, printf(a) PROVE PrintOK'
  BY <1>0, <1>3 DEF printf, PrintOK
<1>4. ASSUME NEW a \in Processors, do_printf(a) PROVE PrintOK'
  <2>1. CASE printf_char(a)
    <3>1. console' \in Seq(Processors)
      BY <1>0, <2>1, AppendProperties DEF printf_char, PrintOK
    <3> QED
      BY <1>0, <2>1, <3>1 DEF printf_char, PrintOK
  <2>2. CASE printf_lock(a) \/ printf_unlock(a)
    BY <1>0, <2>2 DEF printf_lock, printf_unlock, PrintOK
  <2> QED
    BY <1>4, <2>1, <2>2 DEF do_printf
<1>5. BSP \in Processors /\ APs \subseteq Processors /\ BSP \in Ids
  BY DEF Processors, Ids
<1>6. CASE boot_step
  <2>1. CASE acpi_count \/ acpi_counted \/ acpi_list \/ acpi_listed
    <3>1. UNCHANGED printVars /\ UNCHANGED <<ipi, apVars>>
      BY <2>1 DEF acpi_count, acpi_counted, acpi_list, acpi_listed, printVars, apVars
    <3>2. ListOK'
      <4>1. madt[entry].apic_id \in Ids \/ entry > Len(madt)
        BY ListTypes DEF Entry, Ids
      <4>2. entry <= Len(madt) => Append(info, madt[entry].apic_id) \in Seq(Ids)
        BY <1>0, <4>1, ListTypes, AppendProperties DEF ListOK
      <4> QED
        <5>1. CASE acpi_count \/ acpi_list
          <6>1. /\ entry \in 1 .. Len(madt) /\ madt' = madt /\ entry' = entry + 1
                /\ cpunum' \in {cpunum, cpunum + 1}
                /\ info' \in {info, Append(info, madt[entry].apic_id)}
            BY <5>1, ListTypes DEF acpi_count, acpi_list
          <6>2. entry' \in 1 .. Len(madt') + 1 /\ cpunum' \in Nat
            BY <6>1, ListTypes
          <6>3. info' \in Seq(Ids) /\ madt' \in Madts
            BY <4>2, <6>1, ListTypes, SMTT(30)
          <6> QED
            BY <6>2, <6>3 DEF ListOK
        <5>2. CASE acpi_counted \/ acpi_listed
          <6>1. /\ entry' \in {1, entry} /\ madt' = madt /\ cpunum' = cpunum /\ info' = info
            BY <5>2 DEF acpi_counted, acpi_listed, acpiVars
          <6> QED
            BY <1>0, <6>1, ListTypes DEF ListOK
        <5> QED
          BY <2>1, <5>1, <5>2
    <3>3. BootOK'
      BY <1>0, <2>1, SmpAssumption DEF acpi_count, acpi_counted, acpi_list, acpi_listed,
                                       boot_at, apicVars, BootOK
    <3> QED
      BY <1>1, <1>2, <3>1, <3>2, <3>3
  <2>2. CASE apic_init
    <3>1. /\ UNCHANGED acpiVars /\ UNCHANGED printVars /\ UNCHANGED <<ipi, apVars>>
          /\ bsp' = "fill" /\ i' = 1 /\ heap_top' = heap_top /\ again' = again /\ in_time' = in_time
      BY <2>2 DEF apic_init
    <3>2. stacklist' \in Seq(StackEntry)
      BY <1>0, <2>2, ArrayFacts DEF apic_init, ListOK
    <3> QED
      BY <1>0, <1>1, <1>2, <3>1, <3>2 DEF BootOK
  <2>3. CASE apic_boot_entry
    <3>1. /\ UNCHANGED acpiVars /\ UNCHANGED printVars /\ UNCHANGED <<ipi, apVars>>
          /\ bsp' = bsp /\ i' = i + 1 /\ heap_top' = heap_top /\ again' = again /\ in_time' = in_time
          /\ bsp = "fill" /\ i <= cpunum
          /\ stacklist' = [stacklist EXCEPT ![i] = [apic_id |-> BSP,
                                              stack_base |-> BOOT_BSP_STACK_BASE]]
      BY <2>3 DEF apic_boot_entry, boot_at
    <3>2. [apic_id |-> BSP, stack_base |-> BOOT_BSP_STACK_BASE] \in StackEntry
      BY <1>5, SmpAssumption DEF StackEntry
    <3>3. stacklist' \in Seq(StackEntry)
      BY <3>1, <3>2, FillFacts, StoreFacts
    <3> QED
      BY <1>0, <1>1, <1>2, <3>1, <3>3 DEF BootOK
  <2>4. CASE apic_entry
    <3>1. /\ UNCHANGED acpiVars /\ UNCHANGED printVars /\ UNCHANGED <<ipi, apVars>>
          /\ bsp' = "stack" /\ i' = i /\ heap_top' = heap_top /\ again' = again /\ in_time' = in_time
          /\ bsp = "fill" /\ i <= cpunum
          /\ stacklist' = [stacklist EXCEPT ![i].apic_id = info[i]]
      BY <2>4 DEF apic_entry, boot_at
    <3>2. stacklist' \in Seq(StackEntry)
      BY <3>1, FillFacts, StoreId
    <3> QED
      BY <1>0, <1>1, <1>2, <3>1, <3>2 DEF BootOK
  <2>5. CASE apic_stack
    <3>1. /\ UNCHANGED acpiVars /\ UNCHANGED printVars /\ UNCHANGED <<ipi, apVars>>
          /\ bsp' = "start" /\ i' = i /\ heap_top' = BlockEnd /\ again' = again /\ in_time' = in_time
          /\ bsp = "stack" /\ i <= cpunum
          /\ stacklist' = [stacklist EXCEPT ![i].stack_base = heap_top + HDR]
      BY <2>5 DEF apic_stack, boot_at, FillLoop
    <3>2. stacklist' \in Seq(StackEntry)
      <4>1. heap_top + HDR \in Nat
        BY <3>1, FillFacts, SmpAssumption
      <4> QED
        BY <3>1, <4>1, FillFacts, StoreBase
    <3> QED
      BY <1>0, <1>1, <1>2, <3>1, <3>2, SmpAssumption DEF BootOK, BlockEnd
  <2>6. CASE apic_start
    <3>1. /\ UNCHANGED acpiVars /\ UNCHANGED printVars
          /\ Send(info[i], StartIPIs) /\ UNCHANGED apVars
          /\ bsp' = "fill" /\ i' = i + 1 /\ stacklist' = stacklist
          /\ heap_top' = heap_top /\ again' = again /\ in_time' = in_time
      BY <2>6 DEF apic_start
    <3>2. ipi' \in [APs -> Seq({"INIT", "SIPI"})]
      BY <1>0, <3>1, SendFacts, KindsFacts DEF ApOK
    <3> QED
      BY <1>0, <1>1, <1>2, <3>1, <3>2 DEF BootOK, ApOK, apVars
  <2>7. CASE apic_done \/ main_return \/ apic_deinit_boot \/ apic_deinit_again
    <3>1. UNCHANGED acpiVars /\ UNCHANGED printVars /\ UNCHANGED <<ipi, apVars>>
      BY <2>7 DEF apic_done, main_return, apic_deinit_boot, apic_deinit_again
    <3>2. BootOK'
      <4>1. /\ bsp' \in {bsp, "main", "deinit"} /\ i' \in {i, 1, i + 1}
            /\ stacklist' = stacklist /\ heap_top' = heap_top
            /\ again' = again \/ again' \in BOOLEAN
            /\ in_time' = in_time \/ in_time' \in BOOLEAN
        BY <2>7 DEF apic_done, main_return, apic_deinit_boot, apic_deinit_again, BootOver
      <4>2. i' \in Nat \ {0}
        BY <1>0, <4>1 DEF BootOK
      <4> QED
        BY <1>0, <4>1, <4>2 DEF BootOK
    <3> QED
      BY <1>1, <1>2, <3>1, <3>2
  <2>8. CASE main \/ init_return
    <3>1. UNCHANGED acpiVars /\ UNCHANGED <<ipi, apVars>> /\ printf(BSP)
      BY <2>8 DEF main, init_return
    <3>2. BootOK'
      BY <1>0, <2>8 DEF main, init_return, apicVars, BootOK
    <3> QED
      BY <1>1, <1>2, <1>3, <1>5, <3>1, <3>2
  <2>9. CASE apic_deinit
    <3>1. /\ UNCHANGED acpiVars /\ printf(BSP)
          /\ Send(info[i], <<"INIT">>) /\ UNCHANGED apVars
          /\ bsp' = bsp /\ i' = i + 1 /\ stacklist' = stacklist
          /\ heap_top' = heap_top /\ again' = again /\ in_time' = in_time
      BY <2>9 DEF apic_deinit
    <3>2. ipi' \in [APs -> Seq({"INIT", "SIPI"})]
      BY <1>0, <3>1, SendFacts, KindsFacts DEF ApOK
    <3>3. BootOK' /\ ApOK'
      BY <1>0, <3>1, <3>2 DEF BootOK, ApOK, apVars
    <3> QED
      BY <1>1, <1>2, <1>3, <1>5, <3>1, <3>3
  <2>10. CASE do_printf(BSP)
    <3>1. UNCHANGED acpiVars /\ UNCHANGED <<ipi, apVars>> /\ UNCHANGED <<bsp, apicVars>>
      BY <2>10 DEF do_printf
    <3> QED
      BY <1>1, <1>2, <1>4, <1>5, <2>10, <3>1
  <2> QED
    BY <1>6, <2>1, <2>2, <2>3, <2>4, <2>5, <2>6, <2>7, <2>8, <2>9, <2>10 DEF boot_step
<1>7. ASSUME NEW a \in APs, ap_step(a) PROVE SmpTypeOK'
  <2>1. UNCHANGED acpiVars /\ UNCHANGED <<bsp, apicVars>>
    BY <1>7 DEF ap_step, deliver_init, deliver_start, ap_next, ap_found, init_ap,
                ap_stop, do_printf
  <2>2. PrintOK'
    <3>1. CASE deliver_init(a)
      BY <1>0, <3>1 DEF deliver_init, PrintOK
    <3>2. do_printf(a) \/ printf(a) \/ UNCHANGED printVars \/ deliver_init(a)
      BY <1>7 DEF ap_step, deliver_start, ap_next, ap_found, init_ap, ap_stop
    <3> QED
      BY <1>2, <1>3, <1>4, <1>5, <3>1, <3>2
  <2>3. ApOK'
    <3>1. ipi[a] # <<>> => Tail(ipi[a]) \in Seq({"INIT", "SIPI"})
      BY <1>0, HeadTailProperties DEF ApOK
    <3>2. CASE deliver_init(a) \/ deliver_start(a)
      <4>1. /\ ipi' = [ipi EXCEPT ![a] = Tail(ipi[a])] /\ ipi[a] # <<>>
            /\ cpu' = cpu \/ \E w \in {"wait", "scan"} : cpu' = [cpu EXCEPT ![a] = w]
            /\ idx' = idx \/ idx' = [idx EXCEPT ![a] = 1]
            /\ stack' = stack
        BY <3>2 DEF deliver_init, deliver_start
      <4>3. cpu' \in [APs -> {"wait", "scan", "call", "print", "stop"}]
        BY <1>0, <4>1 DEF ApOK
      <4>4. idx' \in [APs -> Nat \ {0}]
        BY <1>0, <4>1 DEF ApOK
      <4>2. ipi' \in [APs -> Seq({"INIT", "SIPI"})]
        BY <1>0, <3>1, <4>1 DEF ApOK
      <4> QED
        BY <1>0, <4>1, <4>2, <4>3, <4>4 DEF ApOK
    <3>3. CASE ap_next(a) \/ init_ap(a) \/ ap_stop(a)
      <4>1. /\ ipi' = ipi /\ stack' = stack
            /\ cpu' = cpu \/ cpu' = [cpu EXCEPT ![a] = "print"]
                          \/ cpu' = [cpu EXCEPT ![a] = "stop"]
            /\ idx' = idx \/ idx' = [idx EXCEPT ![a] = idx[a] + 1]
        BY <3>3 DEF ap_next, init_ap, ap_stop
      <4>2. idx[a] + 1 \in Nat \ {0}
        BY <1>0 DEF ApOK
      <4> QED
        BY <1>0, <4>1, <4>2 DEF ApOK
    <3>4. CASE ap_found(a)
      <4>1. idx[a] \in 1 .. Len(stacklist)
        BY <1>0, <3>4, LenProperties DEF ap_found, ApOK, BootOK
      <4>2. stacklist[idx[a]] \in StackEntry
        BY <1>0, <4>1, ElementOfSeq DEF BootOK
      <4>3. stacklist[idx[a]].stack_base \in Nat
        BY <4>2 DEF StackEntry
      <4> QED
        BY <1>0, <3>4, <4>3 DEF ap_found, ApOK
    <3>5. CASE do_printf(a)
      BY <1>2, <3>5 DEF do_printf
    <3> QED
      BY <1>7, <3>2, <3>3, <3>4, <3>5 DEF ap_step
  <2> QED
    BY <1>1, <1>2, <2>1, <2>2, <2>3
<1>8. CASE (\E p \in Processors : printf_spin(p)) \/ stop \/ UNCHANGED vars
  BY <1>1, <1>2, <1>8 DEF printf_spin, stop, vars
<1> QED
  BY <1>6, <1>7, <1>8 DEF SmpNext
-----------------------------------------------------------------------------
(* What is complete stays so, as it is.                                    *)
Grows ==
    \A k \in Filled : k \in Filled' /\ stacklist'[k] = stacklist[k] /\ info'[k] = info[k]

(* Steps that change no entry.                                             *)
LEMMA FillStays ==
    ASSUME Entries, Blocks, Filled' = Filled,
           stacklist' = stacklist, info' = info, heap_top' = heap_top
    PROVE  Entries' /\ Blocks' /\ Grows
BY DEF Entries, Blocks, Grows

(* A step of apic_init's loop that stores into entry i.                    *)
LEMMA FillStores ==
    ASSUME SmpTypeOK, ListLoops, FillLoop, Entries, Blocks,
           apic_boot_entry \/ apic_entry \/ apic_stack
    PROVE  FillLoop' /\ Entries' /\ Blocks' /\ Grows
<1>0. bsp \in {"fill", "stack"} /\ i <= cpunum
  BY DEF apic_boot_entry, apic_entry, apic_stack, boot_at, FillLoop
<1>1. /\ i \in 1 .. Len(stacklist) /\ i \in 1 .. Len(info) /\ i \in Nat /\ i > 0
      /\ info[i] \in Ids /\ stacklist \in Seq(StackEntry) /\ Len(stacklist) = cpunum
      /\ heap_top \in Nat /\ cpunum \in Nat
  BY <1>0, FillFacts
<1>2. Filled = 1 .. i - 1
  BY <1>0 DEF Filled
<1>3. heap_top >= BOOT_BSP_STACK_BASE + Chunk
  BY <1>0 DEF FillLoop
<1>4. /\ \A k \in 1 .. i - 1 :
             /\ stacklist[k].apic_id = info[k]
             /\ info[k] # BSP =>
                    /\ stacklist[k].stack_base >= BOOT_BSP_STACK_BASE + Chunk + HDR
                    /\ stacklist[k].stack_base + BOOT_STACK_SIZE <= heap_top
      /\ \A j, k \in 1 .. i - 1 :
             j < k /\ info[j] # BSP /\ info[k] # BSP =>
                 stacklist[j].stack_base + BOOT_STACK_SIZE <= stacklist[k].stack_base
  BY <1>2 DEF Entries, Blocks
<1>5. \A k \in 1 .. i - 1 : k \in 1 .. Len(stacklist) /\ k # i
  BY <1>1
<1>6. \A k \in 1 .. i : k = i \/ k \in 1 .. i - 1
  BY <1>1
<1>7. CASE apic_boot_entry
  <2> DEFINE e == [apic_id |-> BSP, stack_base |-> BOOT_BSP_STACK_BASE]
  <2>1. /\ stacklist' = [stacklist EXCEPT ![i] = e] /\ info[i] = BSP
        /\ info' = info /\ cpunum' = cpunum /\ bsp = "fill" /\ bsp' = "fill"
        /\ i' = i + 1 /\ heap_top' = heap_top
    BY <1>7 DEF apic_boot_entry, boot_at, acpiVars
  <2>2. e \in StackEntry /\ e.apic_id = BSP
    BY SmpAssumption DEF StackEntry, Ids
  <2> HIDE DEF e
  <2>3. /\ Len(stacklist') = cpunum /\ stacklist'[i].apic_id = BSP
        /\ \A k \in 1 .. i - 1 : stacklist'[k] = stacklist[k]
    BY <1>1, <1>5, <2>1, <2>2, StoreFacts
  <2>4. Filled' = 1 .. i
    BY <1>1, <2>1 DEF Filled
  <2>5. FillLoop'
    BY <1>0, <1>1, <1>3, <2>1, <2>3 DEF FillLoop
  <2>6. Entries'
    BY <1>4, <1>6, <2>1, <2>3, <2>4 DEF Entries
  <2>7. Blocks'
    BY <1>4, <1>6, <2>1, <2>3, <2>4 DEF Blocks
  <2>8. Grows
    BY <1>1, <1>2, <2>1, <2>3, <2>4 DEF Grows
  <2> QED
    BY <2>5, <2>6, <2>7, <2>8
<1>8. CASE apic_entry
  <2>1. /\ stacklist' = [stacklist EXCEPT ![i].apic_id = info[i]] /\ info[i] # BSP
        /\ info' = info /\ cpunum' = cpunum /\ bsp = "fill" /\ bsp' = "stack"
        /\ i' = i /\ heap_top' = heap_top
    BY <1>8 DEF apic_entry, boot_at, acpiVars
  <2>2. /\ Len(stacklist') = cpunum /\ stacklist'[i].apic_id = info[i]
        /\ \A k \in 1 .. i - 1 : stacklist'[k] = stacklist[k]
    BY <1>1, <1>5, <2>1, StoreId
  <2>3. Filled' = 1 .. i - 1
    BY <2>1 DEF Filled
  <2>4. FillLoop'
    BY <1>0, <1>1, <1>3, <2>1, <2>2 DEF FillLoop
  <2>5. Entries' /\ Blocks' /\ Grows
    BY <1>2, <1>4, <2>1, <2>2, <2>3 DEF Entries, Blocks, Grows
  <2> QED
    BY <2>4, <2>5
<1>9. CASE apic_stack
  <2> DEFINE base == heap_top + HDR
  <2>1. /\ stacklist' = [stacklist EXCEPT ![i].stack_base = base]
        /\ info[i] # BSP /\ stacklist[i].apic_id = info[i]
        /\ info' = info /\ cpunum' = cpunum /\ bsp' = "start"
        /\ i' = i /\ heap_top' = heap_top + HDR + BOOT_STACK_SIZE
    BY <1>9 DEF apic_stack, boot_at, acpiVars, FillLoop, BlockEnd
  <2>0. /\ BOOT_BSP_STACK_BASE \in Nat /\ BOOT_STACK_SIZE \in Nat /\ Chunk \in Nat
        /\ HDR \in Nat /\ HDR > 0 /\ heap_top \in Nat
    BY <1>1, SmpAssumption
  <2>2. base \in Nat /\ base > heap_top
    BY <2>0
  <2>3. /\ base >= BOOT_BSP_STACK_BASE + Chunk + HDR
        /\ heap_top' = base + BOOT_STACK_SIZE /\ heap_top' >= heap_top /\ heap_top' \in Nat
        /\ heap_top' >= BOOT_BSP_STACK_BASE + Chunk
    <3>1. heap_top' = heap_top + HDR + BOOT_STACK_SIZE
      BY <2>1
    <3>2. /\ heap_top' = base + BOOT_STACK_SIZE /\ heap_top' >= heap_top
          /\ heap_top' \in Nat
      BY <2>0, <3>1
    <3>3. base >= BOOT_BSP_STACK_BASE + Chunk + HDR
      BY <1>3, <2>0
    <3>4. heap_top' >= BOOT_BSP_STACK_BASE + Chunk
      BY <1>3, <2>0, <3>2
    <3> QED
      BY <3>2, <3>3, <3>4
  <2> HIDE DEF base
  <2>4. /\ Len(stacklist') = cpunum /\ stacklist'[i].apic_id = info[i]
        /\ stacklist'[i].stack_base = base
        /\ \A k \in 1 .. i - 1 : stacklist'[k] = stacklist[k]
    BY <1>1, <1>5, <2>1, <2>2, StoreBase
  <2>5. Filled' = 1 .. i
    BY <2>1 DEF Filled
  <2>6. FillLoop'
    BY <1>0, <1>1, <2>1, <2>3, <2>4 DEF FillLoop
  <2>7. \A k \in 1 .. i - 1 : stacklist[k].stack_base \in Nat
    <3>1. \A k \in 1 .. i - 1 : stacklist[k] \in StackEntry
      BY <1>1, <1>5, ElementOfSeq
    <3> QED
      BY <3>1 DEF StackEntry
  <2>8. ASSUME NEW k \in 1 .. i
        PROVE  /\ stacklist'[k].apic_id = info[k]
               /\ info[k] # BSP =>
                      /\ stacklist'[k].stack_base >= BOOT_BSP_STACK_BASE + Chunk + HDR
                      /\ stacklist'[k].stack_base + BOOT_STACK_SIZE <= heap_top'
    <3>1. CASE k = i
      <4>1. /\ stacklist'[k].apic_id = info[k] /\ stacklist'[k].stack_base = base
            /\ heap_top' = base + BOOT_STACK_SIZE
        BY <2>3, <2>4, <3>1
      <4>2. base + BOOT_STACK_SIZE <= heap_top'
        BY <2>0, <2>2, <2>3, <4>1
      <4> QED
        BY <2>3, <4>1, <4>2
    <3>2. CASE k \in 1 .. i - 1
      <4>1. stacklist'[k] = stacklist[k] /\ stacklist[k].stack_base \in Nat
        BY <2>4, <2>7, <3>2
      <4>2. /\ stacklist[k].apic_id = info[k]
            /\ info[k] # BSP =>
                   /\ stacklist[k].stack_base >= BOOT_BSP_STACK_BASE + Chunk + HDR
                   /\ stacklist[k].stack_base + BOOT_STACK_SIZE <= heap_top
        BY <1>4, <3>2
      <4>3. /\ heap_top \in Nat /\ heap_top' \in Nat /\ heap_top <= heap_top'
            /\ BOOT_STACK_SIZE \in Nat
        BY <1>1, <2>3, SmpAssumption
      <4>4. info[k] # BSP => stacklist[k].stack_base + BOOT_STACK_SIZE <= heap_top'
        BY <4>1, <4>2, <4>3
      <4> QED
        BY <4>1, <4>2, <4>4
    <3> QED
      BY <1>6, <3>1, <3>2
  <2>9. ASSUME NEW j \in 1 .. i, NEW k \in 1 .. i, j < k, info[j] # BSP, info[k] # BSP
        PROVE  stacklist'[j].stack_base + BOOT_STACK_SIZE <= stacklist'[k].stack_base
    <3>1. j \in 1 .. i - 1
      BY <1>1, <2>9
    <3>2. CASE k = i
      <4>1. stacklist[j].stack_base + BOOT_STACK_SIZE <= heap_top
        BY <1>4, <2>9, <3>1
      <4>2. stacklist'[j] = stacklist[j] /\ stacklist'[k].stack_base = base
        BY <2>4, <3>1, <3>2
      <4>3. stacklist[j].stack_base \in Nat
        BY <2>7, <3>1
      <4> DEFINE top == stacklist[j].stack_base + BOOT_STACK_SIZE
      <4>4. top \in Nat
        BY <2>0, <4>3
      <4> HIDE DEF top
      <4>5. top <= heap_top
        BY <4>1 DEF top
      <4>6. top <= base
        BY <2>0, <2>2, <4>4, <4>5
      <4> QED
        BY <4>2, <4>6 DEF top
    <3>3. CASE k \in 1 .. i - 1
      BY <1>4, <2>4, <2>9, <3>1, <3>3
    <3> QED
      BY <1>6, <3>2, <3>3
  <2>10. Entries' /\ Blocks'
    BY <2>1, <2>5, <2>8, <2>9 DEF Entries, Blocks
  <2>11. Grows
    BY <1>1, <1>2, <2>1, <2>4, <2>5 DEF Grows
  <2> QED
    BY <2>6, <2>10, <2>11
<1> QED
  BY <1>7, <1>8, <1>9

(* Every step keeps the array right.                                       *)
LEMMA FillKept ==
    SmpTypeOK /\ ListLoops /\ FillLoop /\ Entries /\ Blocks /\ [SmpNext]_vars
    => FillLoop' /\ Entries' /\ Blocks' /\ Grows
<1> SUFFICES ASSUME SmpTypeOK, ListLoops, FillLoop, Entries, Blocks, [SmpNext]_vars
             PROVE  FillLoop' /\ Entries' /\ Blocks' /\ Grows
  OBVIOUS
<1>0. cpunum \in Nat /\ i \in Nat \ {0} /\ heap_top \in Nat
  BY DEF SmpTypeOK
<1>1. CASE acpi_count \/ acpi_counted \/ acpi_list \/ acpi_listed
  <2>1. /\ bsp \in {"count", "list"} /\ bsp' \in {"count", "list", "apic"}
        /\ heap_top' = heap_top \/ heap_top' = heap_top + Chunk
        /\ bsp = "count" /\ bsp' # "count" => heap_top' = heap_top + Chunk
        /\ bsp' = "count" => bsp = "count"
    BY <1>1 DEF acpi_count, acpi_counted, acpi_list, acpi_listed, boot_at, apicVars
  <2>2. Filled = {} /\ Filled' = {}
    BY <2>1 DEF Filled
  <2>3. FillLoop'
    <3>1. CASE bsp = "count"
      <4>1. heap_top >= BOOT_BSP_STACK_BASE
        BY <1>0, <3>1, SmpAssumption DEF FillLoop
      <4> QED
        BY <1>0, <2>1, <3>1, <4>1, SmpAssumption DEF FillLoop
    <3>2. CASE bsp # "count"
      BY <1>0, <2>1, <3>2, SmpAssumption DEF FillLoop
    <3> QED
      BY <3>1, <3>2
  <2> QED
    BY <2>2, <2>3 DEF Entries, Blocks, Grows
<1>2. CASE apic_init
  <2>1. /\ bsp = "apic" /\ bsp' = "fill" /\ i' = 1 /\ heap_top' = heap_top
        /\ cpunum' = cpunum
        /\ \E junk \in Ids :
               stacklist' = [k \in 1 .. cpunum |-> [apic_id |-> junk, stack_base |-> 0]]
    BY <1>2 DEF apic_init, boot_at, acpiVars
  <2>2. Len(stacklist') = cpunum
    BY <1>0, <2>1, ArrayFacts
  <2>3. Filled = {} /\ Filled' = {}
    BY <2>1 DEF Filled
  <2>4. FillLoop'
    BY <1>0, <2>1, <2>2 DEF FillLoop
  <2> QED
    BY <2>3, <2>4 DEF Entries, Blocks, Grows
<1>3. CASE apic_boot_entry \/ apic_entry \/ apic_stack
  BY <1>3, FillStores
<1>4. CASE apic_start
  <2>1. /\ bsp = "start" /\ bsp' = "fill" /\ i' = i + 1 /\ heap_top' = heap_top
        /\ cpunum' = cpunum /\ info' = info /\ stacklist' = stacklist
    BY <1>4 DEF apic_start, boot_at, acpiVars
  <2>2. Filled' = Filled
    BY <1>0, <2>1 DEF Filled
  <2>3. FillLoop'
    BY <1>0, <2>1 DEF FillLoop
  <2> QED
    BY <2>1, <2>2, <2>3, FillStays
<1>5. CASE apic_done
  <2>1. /\ bsp = "fill" /\ bsp' = "main" /\ i > cpunum /\ heap_top' = heap_top
        /\ cpunum' = cpunum /\ info' = info /\ stacklist' = stacklist
    BY <1>5 DEF apic_done, boot_at, acpiVars, apicVars
  <2>2. i - 1 = cpunum
    BY <1>0, <2>1 DEF FillLoop
  <2>3. Filled' = Filled
    BY <2>1, <2>2 DEF Filled
  <2>4. FillLoop'
    BY <2>1 DEF FillLoop
  <2> QED
    BY <2>1, <2>3, <2>4, FillStays
<1>6. CASE \/ main \/ main_return \/ apic_deinit_boot \/ apic_deinit
           \/ apic_deinit_again \/ init_return
  <2>1. /\ bsp \in {"main", "deinit"} /\ bsp' \in {"main", "deinit", "stopped"}
        /\ heap_top' = heap_top
        /\ cpunum' = cpunum /\ info' = info /\ stacklist' = stacklist
    BY <1>6 DEF main, main_return, apic_deinit_boot, apic_deinit, apic_deinit_again,
                init_return, boot_at, acpiVars, apicVars
  <2>2. Filled' = Filled
    BY <2>1 DEF Filled
  <2>3. FillLoop'
    BY <2>1 DEF FillLoop
  <2> QED
    BY <2>1, <2>2, <2>3, FillStays
<1>7. CASE UNCHANGED acpiVars /\ UNCHANGED <<bsp, apicVars>>
  <2>1. Filled' = Filled /\ FillLoop'
    BY <1>7 DEF Filled, FillLoop, acpiVars, apicVars
  <2> QED
    BY <1>7, <2>1, FillStays DEF acpiVars, apicVars
<1>8. ASSUME NEW a \in APs, ap_step(a) PROVE FillLoop' /\ Entries' /\ Blocks' /\ Grows
  BY <1>7, <1>8 DEF ap_step, deliver_init, deliver_start, ap_next, ap_found, init_ap,
                ap_stop, do_printf
<1>9. CASE do_printf(BSP) \/ (\E p \in Processors : printf_spin(p)) \/ stop \/ UNCHANGED vars
  BY <1>7, <1>9 DEF do_printf, printf_spin, stop, vars
<1> QED
  BY <1>1, <1>2, <1>3, <1>4, <1>5, <1>6, <1>8, <1>9 DEF SmpNext, boot_step
-----------------------------------------------------------------------------
(* What holds of a processor stays so while entries only get complete.     *)
LEMMA StartedStays ==
    ASSUME Grows, Started, NEW a \in APs,
           cpu'[a] = cpu[a], idx'[a] = idx[a], stack'[a] = stack[a],
           Pending(a)' => Pending(a) \/ \E k \in Filled' : info'[k] = a
    PROVE  /\ Pending(a)' \/ cpu'[a] # "wait" => \E k \in Filled' : info'[k] = a
           /\ cpu'[a] = "scan" => \E k \in Filled' : info'[k] = a /\ idx'[a] <= k
           /\ Running(a)' =>
                  \E k \in Filled' : info'[k] = a /\ stack'[a] = stacklist'[k].stack_base
BY DEF Grows, Started, Running

(* A processor's own steps.                                                *)
LEMMA StartedMoves ==
    ASSUME SmpTypeOK, FillLoop, ListLoops, Entries, Grows, Started, NEW a \in APs, ap_step(a)
    PROVE  /\ Pending(a)' \/ cpu'[a] # "wait" => \E k \in Filled' : info'[k] = a
           /\ cpu'[a] = "scan" => \E k \in Filled' : info'[k] = a /\ idx'[a] <= k
           /\ Running(a)' =>
                  \E k \in Filled' : info'[k] = a /\ stack'[a] = stacklist'[k].stack_base
<1>0. /\ ipi \in [APs -> Seq({"INIT", "SIPI"})] /\ idx \in [APs -> Nat \ {0}]
      /\ cpu \in [APs -> {"wait", "scan", "call", "print", "stop"}]
      /\ stack \in [APs -> Nat]
      /\ stacklist \in Seq(StackEntry) /\ Len(stacklist) \in Nat
      /\ cpunum \in Nat /\ i \in Nat
  BY LenProperties DEF SmpTypeOK, StackEntry
<1>1. Filled' = Filled /\ info' = info /\ stacklist' = stacklist
  BY DEF ap_step, deliver_init, deliver_start, ap_next, ap_found, init_ap, ap_stop,
         do_printf, acpiVars, apicVars, Filled
<1>2. \A k \in Filled : k \in Nat /\ \A j \in 1 .. k : j \in Filled
  BY <1>0 DEF Filled
<1>3. CASE deliver_init(a) \/ deliver_start(a)
  <2>1. ipi[a] # <<>> /\ ipi[a] \in Seq({"INIT", "SIPI"}) /\ ipi'[a] = Tail(ipi[a])
    BY <1>0, <1>3 DEF deliver_init, deliver_start
  <2>2. /\ Len(ipi'[a]) = Len(ipi[a]) - 1 /\ Len(ipi[a]) \in Nat /\ Len(ipi[a]) > 0
        /\ \A k \in 1 .. Len(ipi'[a]) : ipi'[a][k] = ipi[a][k + 1]
    BY <2>1, HeadTailProperties, EmptySeq
  <2>3. Pending(a)' => Pending(a)
    <3> SUFFICES ASSUME NEW k \in 1 .. Len(ipi'[a]), ipi'[a][k] = "SIPI" PROVE Pending(a)
      BY DEF Pending
    <3>1. k + 1 \in 1 .. Len(ipi[a]) /\ ipi[a][k + 1] = "SIPI"
      BY <2>2
    <3> QED
      BY <3>1 DEF Pending
  <2>4. CASE deliver_init(a)
    <3>1. cpu'[a] = "wait"
      BY <1>0, <2>4 DEF deliver_init
    <3> QED
      BY <1>1, <2>3, <3>1 DEF Started, Running
  <2>5. CASE deliver_start(a)
    <3>1. Pending(a)
      <4>1. ipi[a][1] = "SIPI" /\ 1 \in 1 .. Len(ipi[a])
        BY <2>2, <2>5 DEF deliver_start
      <4> QED
        BY <4>1 DEF Pending
    <3>2. PICK k \in Filled : info[k] = a
      BY <3>1 DEF Started
    <3>3. k >= 1
      BY <1>0, <3>2 DEF Filled
    <3>4. CASE cpu[a] = "wait"
      <4>1. cpu'[a] = "scan" /\ idx'[a] = 1
        BY <1>0, <2>5, <3>4 DEF deliver_start
      <4> QED
        BY <1>1, <3>2, <3>3, <4>1 DEF Running
    <3>5. CASE cpu[a] # "wait"
      <4>1. cpu' = cpu /\ idx' = idx /\ stack' = stack
        BY <2>5, <3>5 DEF deliver_start
      <4> QED
        BY <2>3, <4>1, StartedStays
    <3> QED
      BY <3>4, <3>5
  <2> QED
    BY <1>3, <2>4, <2>5
<1>4. CASE ap_next(a) \/ ap_found(a)
  <2>1. /\ cpu[a] = "scan" /\ idx[a] <= Len(stacklist) /\ ipi' = ipi
        /\ idx[a] \in Nat \ {0}
    BY <1>0, <1>4 DEF ap_next, ap_found
  <2>2. PICK k \in Filled : info[k] = a /\ idx[a] <= k
    BY <2>1 DEF Started
  <2>3. idx[a] \in Filled /\ k \in Nat
    BY <1>2, <2>1, <2>2
  <2>4. stacklist[k].apic_id = a /\ stacklist[idx[a]].apic_id = info[idx[a]]
    BY <2>2, <2>3 DEF Entries
  <2>5. CASE ap_next(a)
    <3>1. idx'[a] = idx[a] + 1 /\ cpu' = cpu /\ stacklist[idx[a]].apic_id # a
      BY <1>0, <2>5 DEF ap_next
    <3>2. idx'[a] <= k
      BY <2>1, <2>2, <2>3, <2>4, <3>1
    <3> QED
      BY <1>1, <2>1, <2>2, <3>1, <3>2 DEF Running
  <2>6. CASE ap_found(a)
    <3>1. /\ cpu'[a] = "call" /\ stack'[a] = stacklist[idx[a]].stack_base
          /\ stacklist[idx[a]].apic_id = a
      BY <1>0, <2>6 DEF ap_found
    <3> QED
      BY <1>1, <2>3, <2>4, <3>1
  <2> QED
    BY <1>4, <2>5, <2>6
<1>5. CASE init_ap(a) \/ ap_stop(a)
  <2>1. /\ Running(a) /\ cpu'[a] \in {"print", "stop"}
        /\ ipi' = ipi /\ idx' = idx /\ stack' = stack
    BY <1>0, <1>5 DEF init_ap, ap_stop, Running
  <2>2. PICK k \in Filled : info[k] = a /\ stack[a] = stacklist[k].stack_base
    BY <2>1 DEF Started
  <2> QED
    BY <1>1, <2>1, <2>2
<1>6. CASE do_printf(a)
  <2>1. ipi' = ipi /\ cpu' = cpu /\ idx' = idx /\ stack' = stack
    BY <1>6 DEF do_printf, apVars
  <2>2. Pending(a)' => Pending(a)
    BY <2>1 DEF Pending
  <2> QED
    BY <2>1, <2>2, StartedStays
<1> QED
  BY <1>3, <1>4, <1>5, <1>6 DEF ap_step

(* Every step leaves each processor with a complete entry.                 *)
LEMMA StartedKept ==
    /\ SmpTypeOK /\ ListLoops /\ FillLoop /\ Entries /\ Grows /\ Started
    /\ [SmpNext]_vars
    => Started'
<1> SUFFICES ASSUME SmpTypeOK, ListLoops, FillLoop, Entries, Grows, Started,
                    [SmpNext]_vars, NEW a \in APs
             PROVE  /\ Pending(a)' \/ cpu'[a] # "wait" => \E k \in Filled' : info'[k] = a
                    /\ cpu'[a] = "scan" => \E k \in Filled' : info'[k] = a /\ idx'[a] <= k
                    /\ Running(a)' =>
                           \E k \in Filled' : info'[k] = a
                                              /\ stack'[a] = stacklist'[k].stack_base
  BY DEF Started
<1>0. ipi \in [APs -> Seq({"INIT", "SIPI"})] /\ i \in Nat
  BY DEF SmpTypeOK
<1>1. CASE UNCHANGED <<ipi, apVars>>
  <2>1. ipi' = ipi /\ cpu' = cpu /\ idx' = idx /\ stack' = stack
    BY <1>1 DEF apVars
  <2>2. Pending(a)' => Pending(a)
    BY <2>1 DEF Pending
  <2> QED
    BY <2>1, <2>2, StartedStays
<1>2. CASE apic_start
  <2>1. /\ Send(info[i], StartIPIs) /\ bsp = "start"
        /\ cpu' = cpu /\ idx' = idx /\ stack' = stack
    BY <1>2 DEF apic_start, boot_at, apVars
  <2>2. i \in Filled' /\ info'[i] = info[i]
    <3>1. i \in Filled
      BY <2>1 DEF Filled, SmpTypeOK
    <3> QED
      BY <3>1 DEF Grows
  <2>3. CASE a = info[i]
    BY <2>1, <2>2, <2>3, StartedStays
  <2>4. CASE a # info[i]
    <3>1. ipi'[a] = ipi[a]
      BY <1>0, <2>1, <2>4, SendFacts, KindsFacts
    <3>2. Pending(a)' => Pending(a)
      BY <3>1 DEF Pending
    <3> QED
      BY <2>1, <3>2, StartedStays
  <2> QED
    BY <2>3, <2>4
<1>3. CASE apic_deinit
  <2>1. /\ Send(info[i], <<"INIT">>)
        /\ cpu' = cpu /\ idx' = idx /\ stack' = stack
    BY <1>3 DEF apic_deinit, apVars
  <2>2. ipi'[a] = ipi[a] \/ ipi'[a] = ipi[a] \o <<"INIT">>
    BY <1>0, <2>1, SendFacts, KindsFacts
  <2>3. ipi[a] \in Seq({"INIT", "SIPI"}) /\ Len(ipi[a]) \in Nat
    BY <1>0, LenProperties
  <2>4. Pending(a)' => Pending(a)
    <3>1. CASE ipi'[a] = ipi[a]
      BY <3>1 DEF Pending
    <3>2. CASE ipi'[a] = ipi[a] \o <<"INIT">>
      <4>1. /\ Len(ipi'[a]) = Len(ipi[a]) + 1
            /\ \A k \in 1 .. Len(ipi[a]) + 1 :
                   ipi'[a][k] = IF k <= Len(ipi[a]) THEN ipi[a][k] ELSE "INIT"
        <5>1. \A k \in 1 .. Len(ipi[a]) + 1 :
                  (ipi[a] \o <<"INIT">>)[k] =
                      IF k <= Len(ipi[a]) THEN ipi[a][k] ELSE <<"INIT">>[k - Len(ipi[a])]
          BY <2>3, KindsFacts, ConcatProperties
        <5>2. Len(ipi[a] \o <<"INIT">>) = Len(ipi[a]) + 1
          BY <2>3, KindsFacts, ConcatProperties
        <5>3. \A k \in 1 .. Len(ipi[a]) + 1 :
                  k <= Len(ipi[a]) \/ <<"INIT">>[k - Len(ipi[a])] = "INIT"
          BY <2>3
        <5> QED
          BY <3>2, <5>1, <5>2, <5>3
      <4> QED
        BY <2>3, <4>1 DEF Pending
    <3> QED
      BY <2>2, <3>1, <3>2
  <2> QED
    BY <2>1, <2>4, StartedStays
<1>4. CASE boot_step
  <2>1. CASE \/ acpi_count \/ acpi_counted \/ acpi_list \/ acpi_listed
             \/ apic_init \/ apic_boot_entry \/ apic_entry \/ apic_stack
             \/ apic_done \/ main \/ main_return
             \/ apic_deinit_boot \/ apic_deinit_again \/ init_return \/ do_printf(BSP)
    BY <1>1, <2>1 DEF acpi_count, acpi_counted, acpi_list, acpi_listed, apic_init,
           apic_boot_entry, apic_entry, apic_stack, apic_done, main, main_return,
           apic_deinit_boot, apic_deinit_again, init_return, do_printf
  <2> QED
    BY <1>2, <1>3, <1>4, <2>1 DEF boot_step
<1>5. ASSUME NEW b \in APs, ap_step(b), b # a
      PROVE  ipi'[a] = ipi[a] /\ cpu'[a] = cpu[a] /\ idx'[a] = idx[a] /\ stack'[a] = stack[a]
  <2>1. /\ ipi' = ipi \/ ipi' = [ipi EXCEPT ![b] = Tail(ipi[b])]
        /\ cpu' = cpu \/ \E w : cpu' = [cpu EXCEPT ![b] = w]
        /\ idx' = idx \/ \E w : idx' = [idx EXCEPT ![b] = w]
        /\ stack' = stack \/ \E w : stack' = [stack EXCEPT ![b] = w]
    <3>1. CASE deliver_init(b) \/ deliver_start(b)
      BY <3>1 DEF deliver_init, deliver_start
    <3>2. CASE ap_next(b) \/ ap_found(b)
      BY <3>2 DEF ap_next, ap_found
    <3>3. CASE init_ap(b) \/ ap_stop(b) \/ do_printf(b)
      BY <3>3 DEF init_ap, ap_stop, do_printf, apVars
    <3> QED
      BY <1>5, <3>1, <3>2, <3>3 DEF ap_step
  <2>2. ipi'[a] = ipi[a]
    BY <1>5, <2>1 DEF SmpTypeOK
  <2>3. cpu'[a] = cpu[a]
    BY <1>5, <2>1 DEF SmpTypeOK
  <2>4. idx'[a] = idx[a] /\ stack'[a] = stack[a]
    BY <1>5, <2>1 DEF SmpTypeOK
  <2> QED
    BY <2>2, <2>3, <2>4
<1>6. ASSUME NEW b \in APs, ap_step(b), b # a
      PROVE  Pending(a)' => Pending(a)
  BY <1>5, <1>6 DEF Pending
<1>7. CASE \E b \in APs : ap_step(b)
  <2>1. PICK b \in APs : ap_step(b)
    BY <1>7
  <2>2. CASE b = a
    BY <2>1, <2>2, StartedMoves
  <2>3. CASE b # a
    <3>1. ipi'[a] = ipi[a] /\ cpu'[a] = cpu[a] /\ idx'[a] = idx[a] /\ stack'[a] = stack[a]
      BY <1>5, <2>1, <2>3
    <3>2. Pending(a)' => Pending(a)
      BY <1>6, <2>1, <2>3
    <3> QED
      BY <3>1, <3>2, StartedStays
  <2> QED
    BY <2>2, <2>3
<1>8. CASE (\E p \in Processors : printf_spin(p)) \/ stop \/ UNCHANGED vars
  BY <1>1, <1>8 DEF printf_spin, stop, vars
<1> QED
  BY <1>4, <1>7, <1>8 DEF SmpNext
-----------------------------------------------------------------------------
(* The initial states satisfy the invariant.                               *)
LEMMA SmpInitInv == SmpInit => SmpIInv
<1> SUFFICES ASSUME SmpInit PROVE SmpIInv
  OBVIOUS
<1>1. madt \in Madts /\ Len(madt) \in Nat
  BY MadtAssumption, LenProperties DEF SmpInit
<1>2. SmpTypeOK
  <2>1. /\ <<>> \in Seq(Ids) /\ <<>> \in Seq([apic_id : Ids, stack_base : Nat])
        /\ <<>> \in Seq({"INIT", "SIPI"}) /\ <<>> \in Seq(Processors)
    BY EmptySeq
  <2>2. /\ madt \in Madts /\ entry \in 1 .. Len(madt) + 1 /\ cpunum \in Nat
        /\ info \in Seq(Ids)
    BY <1>1, <2>1 DEF SmpInit
  <2>3. /\ bsp = "count" /\ i \in Nat \ {0} /\ heap_top \in Nat /\ again \in BOOLEAN
        /\ in_time \in BOOLEAN
        /\ stacklist \in Seq([apic_id : Ids, stack_base : Nat])
    <3>0. again \in BOOLEAN /\ in_time \in BOOLEAN
      BY DEF SmpInit
    <3>1. bsp = "count" /\ i \in Nat \ {0}
      BY DEF SmpInit
    <3>2. heap_top \in Nat
      BY SmpAssumption DEF SmpInit
    <3>3. stacklist \in Seq([apic_id : Ids, stack_base : Nat])
      BY <2>1 DEF SmpInit
    <3> QED
      BY <3>0, <3>1, <3>2, <3>3, Zenon
  <2>4. /\ ipi \in [APs -> Seq({"INIT", "SIPI"})]
        /\ cpu \in [APs -> {"wait", "scan", "call", "print", "stop"}]
        /\ idx \in [APs -> Nat \ {0}]
        /\ stack \in [APs -> Nat]
    BY <2>1 DEF SmpInit
  <2>5. /\ out \in [Processors -> {"none", "lock", "first", "rest", "unlock"}]
        /\ lock \in {0, 1} /\ console \in Seq(Processors)
    BY <2>1 DEF SmpInit
  <2> QED
    BY <2>2, <2>3, <2>4, <2>5 DEF SmpTypeOK
<1>3. ListLoops /\ ListedOnce
  <2>1. /\ bsp = "count" /\ entry - 1 = 0 /\ cpunum = 0
        /\ info = <<>> /\ Len(info) = 0
    BY DEF SmpInit
  <2>2. Cardinality(LocalApics(madt, entry - 1)) = 0
    BY <2>1, CountingNothing
  <2> QED
    BY <2>1, <2>2 DEF ListLoops, ListedOnce
<1>4. FillLoop
  BY SmpAssumption DEF SmpInit, FillLoop
<1>5. Entries /\ Blocks
  BY DEF SmpInit, Filled, Entries, Blocks
<1>6. Started
  BY DEF SmpInit, Started, Pending, Running
<1>7. LockHeld /\ Pairs /\ Begun
  <2>1. Len(console) = 0 /\ lock = 0 /\ \A q \in Processors : out[q] = "none"
    BY DEF SmpInit
  <2>2. EvenLines
    BY <2>1 DEF EvenLines
  <2> QED
    BY <2>1, <2>2 DEF LockHeld, Inside, Pairs, Begun
<1> QED
  BY <1>2, <1>3, <1>4, <1>5, <1>6, <1>7 DEF SmpIInv

(* The inductive invariant: every processor is listed once, the entries    *)
(* the boot processor is through with are complete and their stacks apart, *)
(* and whoever was started has one of those.                               *)
THEOREM SmpInvariant == SmpSpec => []SmpIInv
<1>1. SmpIInv /\ [SmpNext]_vars => SmpIInv'
  BY TypesKept, ListKept, FillKept, StartedKept, PrintKept DEF SmpIInv
<1> QED
  BY <1>1, SmpInitInv, PTL DEF SmpSpec

(* The model's variables have their types (acpi.c, apic.c, printf.c).      *)
THEOREM SmpTypes == SmpSpec => []SmpTypeOK
<1>1. SmpIInv => SmpTypeOK
  BY DEF SmpIInv
<1> QED
  BY <1>1, SmpInvariant, PTL

(* A complete entry's facts, which the two theorems after it use.          *)
LEMMA EntryFacts ==
    ASSUME SmpIInv, NEW k \in Filled, NEW a \in APs, info[k] = a
    PROVE  /\ k \in 1 .. Len(stacklist) /\ k \in 1 .. Len(info) /\ k \in Nat
           /\ stacklist[k].apic_id = a /\ stacklist[k].stack_base \in Nat
           /\ stacklist[k].stack_base >= BOOT_BSP_STACK_BASE + Chunk + HDR
<1>1. /\ cpunum \in Nat /\ i \in Nat /\ i > 0 /\ stacklist \in Seq(StackEntry)
      /\ Len(info) \in Nat
  BY LenProperties DEF SmpIInv, SmpTypeOK, StackEntry
<1>2. k \in Nat /\ k \in 1 .. cpunum /\ bsp \notin {"count", "list", "apic"}
  BY <1>1 DEF SmpIInv, Filled, FillLoop
<1>3. k \in 1 .. Len(stacklist) /\ k \in 1 .. Len(info)
  BY <1>1, <1>2 DEF SmpIInv, FillLoop, ListLoops
<1>4. stacklist[k] \in StackEntry
  BY <1>1, <1>3, ElementOfSeq
<1>5. a # BSP
  BY SmpAssumption
<1> QED
  BY <1>2, <1>3, <1>4, <1>5 DEF SmpIInv, Entries, StackEntry

(* For any number of processors: one that looks for its stack will find    *)
(* it, whatever malloc left in the array (apic_init, start_ap).            *)
THEOREM StacksAhead == SmpSpec => []StackIsAhead
<1>1. SmpIInv => StackIsAhead
  <2> SUFFICES ASSUME SmpIInv, NEW a \in APs, cpu[a] = "scan"
               PROVE  \E k \in idx[a] .. Len(stacklist) :
                          stacklist[k].apic_id = a /\ stacklist[k].stack_base # 0
    BY DEF StackIsAhead
  <2>1. PICK k \in Filled : info[k] = a /\ idx[a] <= k
    BY DEF SmpIInv, Started
  <2>2. /\ k \in 1 .. Len(stacklist) /\ stacklist[k].apic_id = a
        /\ stacklist[k].stack_base \in Nat
        /\ stacklist[k].stack_base >= BOOT_BSP_STACK_BASE + Chunk + HDR
    BY <2>1, EntryFacts
  <2>3. stacklist[k].stack_base # 0
    BY <2>2, SmpAssumption
  <2>4. idx[a] \in Nat /\ Len(stacklist) \in Nat
    BY LenProperties DEF SmpIInv, SmpTypeOK
  <2> QED
    BY <2>1, <2>2, <2>3, <2>4
<1> QED
  BY <1>1, SmpInvariant, PTL

(* For any number of processors and any sizes in accord with the           *)
(* assumption no two of them run on the same memory (apic_init).           *)
THEOREM StacksStayApart == SmpSpec => []StacksApart
<1>1. SmpIInv => StacksApart
  <2> SUFFICES ASSUME SmpIInv PROVE StacksApart
    OBVIOUS
  <2>1. ASSUME NEW a \in APs, Running(a)
        PROVE  \E k \in Filled :
                   /\ info[k] = a /\ stack[a] = stacklist[k].stack_base
                   /\ k \in Nat /\ stack[a] \in Nat
                   /\ stack[a] >= BOOT_BSP_STACK_BASE + Chunk + HDR
    <3>1. PICK k \in Filled : info[k] = a /\ stack[a] = stacklist[k].stack_base
      BY <2>1 DEF SmpIInv, Started
    <3> QED
      BY <3>1, EntryFacts
  <2>2. ASSUME NEW a \in APs, NEW b \in APs, Running(a), Running(b), a # b
        PROVE  stack[a] <= stack[b] - Depth \/ stack[b] <= stack[a] - Depth
    <3>1. PICK j \in Filled : /\ info[j] = a /\ stack[a] = stacklist[j].stack_base
                              /\ j \in Nat /\ stack[a] \in Nat
      BY <2>1, <2>2
    <3>2. PICK k \in Filled : /\ info[k] = b /\ stack[b] = stacklist[k].stack_base
                              /\ k \in Nat /\ stack[b] \in Nat
      BY <2>1, <2>2
    <3>3. j < k \/ k < j
      BY <2>2, <3>1, <3>2
    <3>4. a # BSP /\ b # BSP /\ Depth \in Nat /\ BOOT_STACK_SIZE \in Nat /\ Depth <= BOOT_STACK_SIZE
      BY SmpAssumption
    <3>5. \/ stack[a] + BOOT_STACK_SIZE <= stack[b]
          \/ stack[b] + BOOT_STACK_SIZE <= stack[a]
      BY <3>1, <3>2, <3>3, <3>4 DEF SmpIInv, Blocks
    <3> QED
      BY <3>1, <3>2, <3>4, <3>5
  <2>3. ASSUME NEW a \in APs, Running(a) PROVE BOOT_BSP_STACK_BASE <= stack[a] - Depth
    <3>1. stack[a] \in Nat /\ stack[a] >= BOOT_BSP_STACK_BASE + Chunk + HDR
      BY <2>1, <2>3
    <3> QED
      BY <3>1, SmpAssumption
  <2>4. \A a \in APs : a # BSP
    BY SmpAssumption
  <2> QED
    BY <2>2, <2>3, <2>4 DEF StacksApart, StackOf
<1> QED
  BY <1>1, SmpInvariant, PTL

(* For any number of processors, with INIT arriving whenever it likes,     *)
(* lines do not mix (do_printf's lock).                                    *)
THEOREM LinesStayWhole == SmpSpec => []LinesWhole
<1>1. SmpIInv => LinesWhole
  <2> SUFFICES ASSUME SmpIInv, NEW k \in 1 .. Len(console) \div 2
               PROVE  console[2 * k - 1] = console[2 * k]
    BY DEF LinesWhole
  <2>1. Len(console) \in Nat
    BY LenProperties DEF SmpIInv, SmpTypeOK
  <2>2. k \in Nat \ {0} /\ 2 * k <= Len(console)
    BY <2>1
  <2> QED
    BY <2>2 DEF SmpIInv, Pairs
<1> QED
  BY <1>1, SmpInvariant, PTL
-----------------------------------------------------------------------------
(* A set of numbers that is not empty has a least one.                     *)
LEMMA LeastOf ==
    ASSUME NEW S, S \subseteq Nat, S # {}
    PROVE  \E x \in S : \A y \in S : x <= y
<1>1. \E x \in S : \A y \in S : ~(<<y, x>> \in OpToRel(<, Nat))
  BY NatLessThanWellFounded, WFMin, Zenon
<1>2. PICK x \in S : \A y \in S : ~(<<y, x>> \in OpToRel(<, Nat))
  BY <1>1
<1>3. \A y \in S : <<y, x>> \in OpToRel(<, Nat) <=> y < x
  BY DEF OpToRel
<1>4. \A y \in S : ~(y < x)
  BY <1>2, <1>3
<1> QED
  BY <1>4

(* What has got into a buffer of size characters when text was put into    *)
(* it, and what a console shows then.                                      *)
Least(m, n) == IF m < n THEN m ELSE n

Cut(text, size) ==
    [console |-> FALSE, len |-> size - Least(Len(text), size),
     buf |-> [k \in 1 .. Least(Len(text), size) |-> IF k = size THEN NUL ELSE text[k]]]

Shown(text) == [console |-> TRUE, len |-> 0, buf |-> text]

(* One character more.                                                     *)
LEMMA OneMore ==
    ASSUME NEW S, NEW text \in Seq(S), NEW c \in S, NEW size \in Nat
    PROVE  /\ do_snputchar(Shown(text), c) = Shown(Append(text, c))
           /\ do_snputchar(Cut(text, size), c) = Cut(Append(text, c), size)
<1> DEFINE n == Len(text)
           more == Append(text, c)
           old == Cut(text, size)
<1>1. n \in Nat /\ Len(more) = n + 1 /\ more[n + 1] = c
      /\ \A k \in 1 .. n : more[k] = text[k]
  BY AppendProperties
<1>2. do_snputchar(Shown(text), c) = Shown(more)
  BY DEF do_snputchar, Shown
<1> HIDE DEF more
<1>3. CASE size <= n
  <2>1. Least(n, size) = size /\ Least(Len(more), size) = size
    BY <1>1, <1>3 DEF Least
  <2>2. old.len = 0 /\ ~old.console
    BY <2>1 DEF Cut
  <2>3. do_snputchar(old, c) = old
    BY <2>2 DEF do_snputchar
  <2>4. \A k \in 1 .. size : k # size => text[k] = more[k]
    BY <1>1, <1>3
  <2>5. Cut(more, size) = old
    BY <2>1, <2>4 DEF Cut
  <2> QED
    BY <1>2, <2>3, <2>5 DEF more
<1>4. CASE size > n
  <2> DEFINE d == IF old.len = 1 THEN NUL ELSE c
             b == [k \in 1 .. n + 1 |-> IF k = size THEN NUL ELSE more[k]]
  <2>1. Least(n, size) = n /\ Least(Len(more), size) = n + 1
    BY <1>1, <1>4 DEF Least
  <2>2. old = [console |-> FALSE, len |-> size - n, buf |-> text]
    <3>1. [k \in 1 .. n |-> IF k = size THEN NUL ELSE text[k]] = text
      BY <1>1, <1>4
    <3> QED
      BY <2>1, <3>1 DEF Cut
  <2> HIDE DEF old
  <2>3. do_snputchar(old, c) = [console |-> FALSE, len |-> size - n - 1, buf |-> Append(text, d)]
    <3>1. old.console = FALSE /\ old.len = size - n /\ old.len # 0 /\ old.buf = text
      BY <1>1, <1>4, <2>2
    <3> QED
      BY <3>1, Zenon DEF do_snputchar
  <2>4. d = IF size = n + 1 THEN NUL ELSE c
    BY <1>1, <1>4, <2>2
  <2>5. Append(text, d) = b
    <3> HIDE DEF d
    <3>1. text \in Seq(S \cup {d}) /\ d \in S \cup {d}
      OBVIOUS
    <3>2. /\ Append(text, d) \in Seq(S \cup {d}) /\ Len(Append(text, d)) = n + 1
          /\ \A k \in 1 .. n : Append(text, d)[k] = text[k]
          /\ Append(text, d)[n + 1] = d
      BY <3>1, AppendProperties
    <3>3. Append(text, d) = [k \in 1 .. n + 1 |-> Append(text, d)[k]]
      BY <3>2, LenProperties
    <3>4. ASSUME NEW k \in 1 .. n + 1
          PROVE  Append(text, d)[k] = IF k = n + 1 THEN d ELSE text[k]
      <4>1. k = n + 1 \/ (k \in 1 .. n /\ k # n + 1)
        BY <1>1
      <4> QED
        BY <3>2, <4>1
    <3>5. \A k \in 1 .. n + 1 :
              (IF k = n + 1 THEN d ELSE text[k]) = IF k = size THEN NUL ELSE more[k]
      BY <1>1, <1>4, <2>4
    <3> QED
      BY <3>3, <3>4, <3>5
  <2>6. Cut(more, size) = [console |-> FALSE, len |-> size - (n + 1), buf |-> b]
    BY <2>1 DEF Cut
  <2>7. size - n - 1 = size - (n + 1)
    BY <1>1
  <2> HIDE DEF b, d, old
  <2>8. do_snputchar(old, c) = Cut(more, size)
    BY <2>3, <2>5, <2>6, <2>7
  <2> QED
    BY <1>2, <2>8 DEF more, old
<1> QED
  BY <1>1, <1>3, <1>4

(* f says what is there after each character of text.                      *)
Puts(f, p, text) ==
    f = [k \in 0 .. Len(text) |->
            IF k = 0 THEN p ELSE do_snputchar(f[k - 1], text[k])]

(* put's recursion has one solution, so it is known when one is found.     *)
LEMMA PutIs ==
    ASSUME NEW S, NEW text \in Seq(S), NEW p, NEW h, Puts(h, p, text)
    PROVE  put(p, text) = h[Len(text)]
<1> DEFINE F == CHOOSE f : Puts(f, p, text)
           n == Len(text)
           T == {k \in 0 .. n : F[k] # h[k]}
<1>1. n \in Nat
  BY LenProperties
<1>2. Puts(F, p, text)
  OBVIOUS
<1>3. put(p, text) = F[n]
  BY Zenon DEF put, Puts
<1> HIDE DEF F
<1>4. \A k \in 0 .. n :
          /\ F[k] = IF k = 0 THEN p ELSE do_snputchar(F[k - 1], text[k])
          /\ h[k] = IF k = 0 THEN p ELSE do_snputchar(h[k - 1], text[k])
  BY <1>2 DEF Puts
<1>5. ASSUME T # {} PROVE FALSE
  <2>1. PICK x \in T : \A y \in T : x <= y
    <3>1. T \subseteq Nat
      BY <1>1
    <3> HIDE DEF T
    <3> QED
      BY <1>5, <3>1, LeastOf
  <2>2. x \in 0 .. n /\ F[x] # h[x]
    OBVIOUS
  <2>3. CASE x = 0
    BY <1>4, <2>2, <2>3
  <2>4. CASE x # 0
    <3>1. x - 1 \in 0 .. n /\ ~(x <= x - 1)
      BY <1>1, <2>2, <2>4
    <3>2. F[x - 1] = h[x - 1]
      BY <2>1, <3>1
    <3> QED
      BY <1>4, <2>2, <2>4, <3>2
  <2> QED
    BY <2>3, <2>4
<1> QED
  BY <1>1, <1>3, <1>5

(* What is put after a text shows behind it, cut off where the buffer      *)
(* ends.                                                                   *)
LEMMA PutAppends ==
    ASSUME NEW S, NEW text \in Seq(S), NEW more \in Seq(S), NEW size \in Nat
    PROVE  /\ put(Shown(text), more) = Shown(text \o more)
           /\ put(Cut(text, size), more) = Cut(text \o more, size)
<1> DEFINE n == Len(more)
           t(k) == text \o SubSeq(more, 1, k)
           shown == [k \in 0 .. n |-> Shown(t(k))]
           cut == [k \in 0 .. n |-> Cut(t(k), size)]
<1>1. n \in Nat /\ Len(text) \in Nat
  BY LenProperties
<1>2. t(0) = text /\ t(n) = text \o more
  BY <1>1
<1>3. ASSUME NEW k \in 1 .. n
      PROVE  /\ k - 1 \in 0 .. n /\ t(k - 1) \in Seq(S) /\ more[k] \in S
             /\ t(k) = Append(t(k - 1), more[k])
  <2> DEFINE u == SubSeq(more, 1, k - 1)
             v == SubSeq(more, 1, k)
  <2>1. k - 1 \in 0 .. n /\ more[k] \in S
    BY <1>1
  <2>2. u \in Seq(S)
    BY <1>1, <2>1
  <2>3. v = Append(u, more[k])
    BY <1>1, <2>1
  <2> HIDE DEF u, v
  <2>4. text \o u \in Seq(S)
    BY <2>2
  <2>5. text \o Append(u, more[k]) = Append(text \o u, more[k])
    BY <2>1, <2>2
  <2> QED
    BY <2>1, <2>3, <2>4, <2>5 DEF u, v
<1> HIDE DEF t
<1>4. ASSUME NEW k \in 1 .. n
      PROVE  /\ shown[k] = do_snputchar(shown[k - 1], more[k])
             /\ cut[k] = do_snputchar(cut[k - 1], more[k])
  <2>1. shown[k] = Shown(t(k)) /\ shown[k - 1] = Shown(t(k - 1))
        /\ cut[k] = Cut(t(k), size) /\ cut[k - 1] = Cut(t(k - 1), size)
    BY <1>1, <1>3
  <2>2. /\ do_snputchar(Shown(t(k - 1)), more[k]) = Shown(Append(t(k - 1), more[k]))
        /\ do_snputchar(Cut(t(k - 1), size), more[k]) = Cut(Append(t(k - 1), more[k]), size)
    BY <1>3, OneMore
  <2> QED
    BY <1>3, <2>1, <2>2
<1>5. shown[0] = Shown(text) /\ cut[0] = Cut(text, size)
  BY <1>1, <1>2
<1>6. Puts(shown, Shown(text), more)
  <2>1. shown = [k \in 0 .. n |-> shown[k]]
    OBVIOUS
  <2> HIDE DEF shown
  <2>2. ASSUME NEW k \in 0 .. n
        PROVE  shown[k] = IF k = 0 THEN Shown(text) ELSE do_snputchar(shown[k - 1], more[k])
    <3>1. k = 0 \/ (k \in 1 .. n /\ k # 0)
      BY <1>1
    <3> QED
      BY <1>4, <1>5, <3>1
  <2> QED
    BY <2>1, <2>2 DEF Puts
<1>7. Puts(cut, Cut(text, size), more)
  <2>1. cut = [k \in 0 .. n |-> cut[k]]
    OBVIOUS
  <2> HIDE DEF cut
  <2>2. ASSUME NEW k \in 0 .. n
        PROVE  cut[k] = IF k = 0 THEN Cut(text, size) ELSE do_snputchar(cut[k - 1], more[k])
    <3>1. k = 0 \/ (k \in 1 .. n /\ k # 0)
      BY <1>1
    <3> QED
      BY <1>4, <1>5, <3>1
  <2> QED
    BY <2>1, <2>2 DEF Puts
<1>8. shown[n] = Shown(text \o more) /\ cut[n] = Cut(text \o more, size)
  <2>1. n \in 0 .. n
    BY <1>1
  <2>2. shown[n] = Shown(t(n)) /\ cut[n] = Cut(t(n), size)
    BY <2>1
  <2> QED
    BY <1>2, <2>2
<1> QED
  BY <1>6, <1>7, <1>8, PutIs

(* What a NUL at the end leaves of it is what snprintf promises.           *)
LEMMA CutHolds ==
    ASSUME NEW S, NUL \notin S, NEW text \in Seq(S), NEW size \in Nat
    PROVE  Holds(Finished(Cut(text, size)), size, text)
<1> DEFINE n == Len(text)
           data == Cut(text, size)
           str == do_snputchar(data, NUL).buf
           got == Finished(data)
<1>1. n \in Nat /\ \A k \in 1 .. n : text[k] \in S
  BY LenProperties, ElementOfSeq
<1>2. got = [str |-> str, r |-> Len(data.buf)]
  BY DEF Finished
<1> HIDE DEF got
<1>3. got.str = str /\ got.r = Len(data.buf)
  BY <1>2
<1>4. data.console = FALSE /\ data.len = size - Least(n, size)
      /\ data.buf = [k \in 1 .. Least(n, size) |-> IF k = size THEN NUL ELSE text[k]]
  BY DEF Cut
<1> HIDE DEF data
<1>5. CASE n < size
  <2>1. data.len = size - n /\ data.len # 0
    BY <1>1, <1>4, <1>5 DEF Least
  <2>2. data.buf = text
    <3>1. \A k \in 1 .. n : k # size
      BY <1>1, <1>5
    <3>2. data.buf = [k \in 1 .. n |-> IF k = size THEN NUL ELSE text[k]]
      BY <1>4, <1>5 DEF Least
    <3>3. data.buf = [k \in 1 .. n |-> text[k]]
      BY <3>1, <3>2
    <3> QED
      BY <3>3, LenProperties
  <2>3. str = Append(text, NUL)
    BY <1>4, <2>1, <2>2 DEF do_snputchar
  <2>4. /\ Len(str) = n + 1 /\ str[n + 1] = NUL /\ SubSeq(str, 1, n) = text
    <3>1. text \in Seq(S \cup {NUL}) /\ NUL \in S \cup {NUL}
      OBVIOUS
    <3>2. Len(Append(text, NUL)) = n + 1 /\ Append(text, NUL)[n + 1] = NUL
      BY <3>1, AppendProperties
    <3>3. SubSeq(Append(text, NUL), 1, n) = text
      BY <1>1, <3>1
    <3> QED
      BY <2>3, <3>2, <3>3
  <2> HIDE DEF str
  <2>5. Front(str) = text /\ Last(str) = NUL
    BY <1>1, <2>4 DEF Front, Last
  <2>6. NUL \notin Range(text)
    BY <1>1, LenProperties DEF Range
  <2>7. IsPrefix(text, text)
    BY <1>1 DEF IsPrefix
  <2>8. got.str = str /\ got.r = n
    BY <1>3, <2>2 DEF str
  <2>9. n + 1 <= size /\ n < size
    BY <1>1, <1>5
  <2>10. Holds(got, size, text)
    BY <2>4, <2>5, <2>6, <2>7, <2>8, <2>9 DEF Holds
  <2> QED
    BY <2>10 DEF got, data
<1>6. CASE n >= size
  <2>1. data.len = 0
        /\ data.buf = [k \in 1 .. size |-> IF k = size THEN NUL ELSE text[k]]
    BY <1>1, <1>4, <1>6 DEF Least
  <2>2. str = [k \in 1 .. size |-> IF k = size THEN NUL ELSE text[k]]
    BY <1>4, <2>1 DEF do_snputchar
  <2>3. str \in Seq(S \cup {NUL}) /\ Len(str) = size
    <3>1. \A k \in 1 .. size : (IF k = size THEN NUL ELSE text[k]) \in S \cup {NUL}
      BY <1>1, <1>6
    <3> HIDE DEF str
    <3> QED
      BY <2>2, <3>1
  <2>4. got.r = size
    BY <1>3, <1>4, <2>1, <2>2, <2>3
  <2>5. ASSUME size > 0
        PROVE  /\ Last(str) = NUL /\ NUL \notin Range(Front(str))
               /\ IsPrefix(Front(str), text)
    <3>1. \A k \in 1 .. size - 1 : str[k] = text[k] /\ text[k] \in S
      BY <1>1, <1>6, <2>2
    <3>2. str[size] = NUL
      BY <2>2, <2>5
    <3> HIDE DEF str
    <3>3. /\ Front(str) \in Seq(S \cup {NUL}) /\ Len(Front(str)) = size - 1
          /\ \A k \in 1 .. size - 1 : Front(str)[k] = str[k]
      BY <2>3, <2>5, SubSeqProperties DEF Front
    <3>4. Front(str) = [k \in 1 .. size - 1 |-> text[k]]
      BY <3>1, <3>3, LenProperties
    <3>5. SubSeq(text, 1, size - 1) = [k \in 1 .. size - 1 |-> text[k]]
      BY <1>1, <1>6, <2>5
    <3>6. SubSeq(Front(str), 1, size - 1) = Front(str)
      BY <2>5, <3>3
    <3>7. NUL \notin Range(Front(str))
      BY <3>1, <3>4 DEF Range
    <3> QED
      BY <1>1, <1>6, <2>3, <3>2, <3>3, <3>4, <3>5, <3>6, <3>7 DEF Last, IsPrefix
  <2>6. got.str = str /\ Len(str) <= size /\ ~(size < size) /\ ~(n < size)
    BY <1>1, <1>3, <1>6, <2>3
  <2> HIDE DEF str, got
  <2>7. Holds(got, size, text)
    BY <2>4, <2>5, <2>6 DEF Holds
  <2> QED
    BY <2>7 DEF got, data
<1> QED
  BY <1>1, <1>5, <1>6

(* Where a run of characters ends: what parse_format goes by.              *)
Past(format, k, S) ==
    CHOOSE j \in k .. Len(format) + 1 :
        /\ \A h \in k .. j - 1 : format[h] \in S
        /\ j <= Len(format) => format[j] \notin S

LEMMA PastIs ==
    ASSUME NEW C, NEW format \in Seq(C), NEW k \in 1 .. Len(format) + 1, NEW S
    PROVE  Past(format, k, S) \in k .. Len(format) + 1
<1> DEFINE n == Len(format)
           T == {j \in k .. n + 1 : j <= n => format[j] \notin S}
<1>1. n \in Nat
  BY LenProperties
<1>2. PICK x \in T : \A y \in T : x <= y
  <2>1. T \subseteq Nat /\ n + 1 \in T
    BY <1>1
  <2> HIDE DEF T
  <2> QED
    BY <2>1, LeastOf
<1>3. \A h \in k .. x - 1 : format[h] \in S
  BY <1>1, <1>2
<1>4. x \in k .. n + 1 /\ (x <= n => format[x] \notin S)
  BY <1>2
<1> QED
  BY <1>3, <1>4 DEF Past

(* A directive is followed by a place in the format or by its end.         *)
LEMMA NextIs ==
    ASSUME NEW C, NEW format \in Seq(C), NEW at \in 1 .. Len(format) + 1
    PROVE  parse_format(format, at).next \in Nat \ {0}
<1> DEFINE width_at == Past(format, at, Flags)
           dot_at == Past(format, width_at, Digits)
           has_precision == dot_at <= Len(format) /\ format[dot_at] = "."
           precision_at == IF has_precision THEN dot_at + 1 ELSE dot_at
           length_at == IF has_precision THEN Past(format, precision_at, Digits) ELSE dot_at
           conversion_at == Past(format, length_at, {"h", "l", "j", "z", "t"})
<1>1. parse_format(format, at).next = conversion_at + 1
  BY Zenon DEF parse_format, Past
<1>2. Len(format) \in Nat
  BY LenProperties
<1>3. width_at \in 1 .. Len(format) + 1
  BY <1>2, PastIs
<1> HIDE DEF width_at
<1>4. dot_at \in 1 .. Len(format) + 1
  BY <1>2, <1>3, PastIs
<1> HIDE DEF dot_at
<1>5. length_at \in 1 .. Len(format) + 1
  <2>1. CASE has_precision
    <3>1. dot_at + 1 \in 1 .. Len(format) + 1
      BY <1>2, <1>4, <2>1
    <3>2. Past(format, dot_at + 1, Digits) \in dot_at + 1 .. Len(format) + 1
      BY <3>1, PastIs
    <3> QED
      BY <1>2, <1>4, <2>1, <3>2
  <2>2. CASE ~has_precision
    BY <1>4, <2>2
  <2> QED
    BY <2>1, <2>2
<1> HIDE DEF length_at
<1>6. conversion_at \in length_at .. Len(format) + 1
  BY <1>5, PastIs
<1> QED
  BY <1>1, <1>2, <1>5, <1>6

(* A buffer that is full stays as it is.                                   *)
LEMMA FullStays ==
    ASSUME NEW S, NEW text \in Seq(S), NEW more \in Seq(S), NEW size \in Nat
    PROVE  /\ Full(Cut(text, size)) <=> size <= Len(text)
           /\ ~Full(Shown(text))
           /\ size <= Len(text) => Cut(text \o more, size) = Cut(text, size)
<1>1. Len(text) \in Nat /\ Len(more) \in Nat /\ Len(text \o more) = Len(text) + Len(more)
      /\ \A k \in 1 .. Len(text) : (text \o more)[k] = text[k]
  BY LenProperties
<1>2. Full(Cut(text, size)) <=> size <= Len(text)
  <2>1. Cut(text, size).console = FALSE /\ Cut(text, size).len = size - Least(Len(text), size)
    BY DEF Cut
  <2> QED
    BY <1>1, <2>1 DEF Full, Least
<1>3. ~Full(Shown(text))
  BY DEF Full, Shown
<1>4. ASSUME size <= Len(text) PROVE Cut(text \o more, size) = Cut(text, size)
  <2>1. Least(Len(text), size) = size /\ Least(Len(text \o more), size) = size
    BY <1>1, <1>4 DEF Least
  <2>2. \A k \in 1 .. size : (text \o more)[k] = text[k]
    BY <1>1, <1>4
  <2>3. [k \in 1 .. size |-> IF k = size THEN NUL ELSE (text \o more)[k]]
            = [k \in 1 .. size |-> IF k = size THEN NUL ELSE text[k]]
    BY <2>2
  <2> QED
    BY <2>1, <2>3, Zenon DEF Cut
<1> QED
  BY <1>2, <1>3, <1>4

(* What the directive at s gives.                                          *)
AsksFor(format, s) == s.at <= Len(format) /\ format[s.at] = "%"

Converted(format, s) ==
    LET f == parse_format(format, s.at + 1)
    IN  Convert(f, IF TakesArgument(f) THEN Head(s.args) ELSE 0)

GivesText(format, s, S) ==
    AsksFor(format, s) /\ parse_format(format, s.at + 1).conversion # EndString =>
        Converted(format, s) \in Seq(S)

(* The loop for the console is at c and the one for the buffer at b: they  *)
(* have put the same, as far as the buffer goes, and are at the same place *)
(* unless the buffer is full.                                              *)
Alike(c, b, format, size, S) ==
    \E text \in Seq(S) :
        /\ c.at \in Nat \ {0}
        /\ c.p = Shown(text) /\ b.p = Cut(text, size)
        /\ \/ b.at = c.at /\ b.args = c.args
           \/ b.at = Len(format) + 1 /\ size <= Len(text)

(* They stay so.                                                           *)
LEMMA StayAlike ==
    ASSUME NEW S, NEW format \in Seq(S), NEW size \in Nat, NEW c, NEW b,
           Alike(c, b, format, size, S), GivesText(format, c, S)
    PROVE  Alike(Round(format, c), Round(format, b), format, size, S)
<1> DEFINE n == Len(format)
           c1 == Round(format, c)
           b1 == Round(format, b)
           Same == b.at = c.at /\ b.args = c.args
<1>1. PICK text \in Seq(S) :
          /\ c.at \in Nat \ {0}
          /\ c.p = Shown(text) /\ b.p = Cut(text, size)
          /\ Same \/ (b.at = n + 1 /\ size <= Len(text))
  BY DEF Alike
<1>2. n \in Nat /\ Len(text) \in Nat
  BY LenProperties
<1>3. ASSUME NEW more \in Seq(S)
      PROVE  /\ text \o more \in Seq(S)
             /\ size <= Len(text) => size <= Len(text \o more)
             /\ Full(b.p) <=> size <= Len(text)
             /\ ~Full(c.p)
             /\ size <= Len(text) => b.p = Cut(text \o more, size)
             /\ put(c.p, more) = Shown(text \o more)
             /\ put(b.p, more) = Cut(text \o more, size)
  <2>1. text \o more \in Seq(S) /\ Len(text \o more) = Len(text) + Len(more) /\ Len(more) \in Nat
    BY LenProperties
  <2> QED
    BY <1>1, <1>2, <2>1, FullStays, PutAppends
<1>4. /\ Full(b.p) <=> size <= Len(text)
      /\ ~Full(c.p)
  BY <1>1, FullStays, EmptySeq
<1>5. CASE c.at > n
  <2>1. ~(c.at <= n) /\ b.at > n /\ ~(b.at <= n)
    BY <1>1, <1>2, <1>5
  <2>2. c1 = c /\ b1 = b
    BY <1>5, <2>1 DEF Round
  <2> QED
    BY <2>2
<1>6. CASE c.at <= n /\ format[c.at] # "%"
  <2> DEFINE ch == format[c.at]
             more == Append(text, ch)
  <2>1. c.at \in 1 .. n /\ ~(c.at > n) /\ ch \in S
    BY <1>1, <1>2, <1>6
  <2>2. more \in Seq(S) /\ Len(more) = Len(text) + 1
    BY <2>1, AppendProperties
  <2>3. /\ do_snputchar(c.p, ch) = Shown(more)
        /\ do_snputchar(b.p, ch) = Cut(more, size)
    BY <1>1, <2>1, OneMore
  <2>4. size <= Len(text) => Cut(more, size) = b.p /\ size <= Len(more)
    <3>1. Full(b.p) => do_snputchar(b.p, ch) = b.p
      BY DEF Full, do_snputchar
    <3> QED
      BY <1>2, <1>4, <2>2, <2>3, <3>1
  <2>5. c1 = [at |-> c.at + 1, args |-> c.args, p |-> Shown(more)]
    BY <1>4, <1>6, <2>1, <2>3 DEF Round, Plain
  <2> HIDE DEF more
  <2>6. c1.at \in Nat \ {0} /\ c1.p = Shown(more) /\ c1.at = c.at + 1 /\ c1.args = c.args
    BY <1>1, <2>5
  <2>7. CASE Same
    <3>1. b1 = Plain(format, b)
      BY <1>6, <2>1, <2>7 DEF Round
    <3>2. CASE Full(b.p)
      <4>1. b1 = [at |-> n + 1, args |-> b.args, p |-> b.p]
        BY <3>1, <3>2 DEF Plain, Left
      <4> QED
        BY <1>4, <2>2, <2>4, <2>6, <3>2, <4>1 DEF Alike
    <3>3. CASE ~Full(b.p)
      <4>1. b1 = [at |-> c.at + 1, args |-> c.args, p |-> Cut(more, size)]
        BY <2>3, <2>7, <3>1, <3>3 DEF Plain
      <4> QED
        BY <2>2, <2>6, <4>1 DEF Alike
    <3> QED
      BY <3>2, <3>3
  <2>8. CASE b.at = n + 1 /\ size <= Len(text)
    <3>1. b.at > n /\ ~(b.at <= n)
      BY <1>2, <2>8
    <3>2. b1 = b
      BY <3>1 DEF Round
    <3> QED
      BY <2>2, <2>4, <2>6, <2>8, <3>2 DEF Alike
  <2> QED
    BY <1>1, <2>7, <2>8
<1>7. CASE c.at <= n /\ format[c.at] = "%"
  <2> DEFINE f == parse_format(format, c.at + 1)
             m == Converted(format, c)
             more == text \o m
  <2>1. c.at \in 1 .. n /\ ~(c.at > n) /\ c.at + 1 \in 1 .. n + 1
    BY <1>1, <1>2, <1>7
  <2>2. f.next \in Nat \ {0}
    BY <2>1, NextIs
  <2>3. f.conversion # EndString => m \in Seq(S)
    BY <1>7 DEF GivesText, AsksFor
  <2>4. c1 = Directive(format, c, f)
    BY <1>7, <2>1 DEF Round
  <2>5. Same => b1 = Directive(format, b, f)
    BY <1>7, <2>1 DEF Round
  <2>6. ~Same => /\ b.at = n + 1 /\ size <= Len(text)
                 /\ b1 = b
    <3>1. n + 1 > n /\ ~(n + 1 <= n)
      BY <1>2
    <3> QED
      BY <1>1, <3>1 DEF Round
  <2>7. Converted(format, c)
            = Convert(f, IF TakesArgument(f) THEN Head(c.args) ELSE 0)
    BY DEF Converted
  <2> HIDE DEF f, m, c1, b1
  <2>8. CASE f.conversion = EndString
    <3>1. c1 = [at |-> n + 1, args |-> c.args, p |-> c.p]
      BY <2>4, <2>8 DEF Directive, Left
    <3>2. c1.at \in Nat \ {0} /\ c1.at = n + 1 /\ c1.args = c.args /\ c1.p = Shown(text)
      BY <1>1, <1>2, <3>1
    <3>3. CASE Same
      <4>1. b1 = [at |-> n + 1, args |-> c.args, p |-> Cut(text, size)]
        BY <1>1, <2>5, <2>8, <3>3 DEF Directive, Left
      <4> QED
        BY <3>2, <4>1 DEF Alike, c1, b1
    <3>4. CASE ~Same
      BY <1>1, <2>6, <3>2, <3>4 DEF Alike, c1, b1
    <3> QED
      BY <3>3, <3>4
  <2>9. CASE f.conversion # EndString
    <3> DEFINE rest == IF TakesArgument(f) THEN Tail(c.args) ELSE c.args
    <3>1. /\ more \in Seq(S)
          /\ size <= Len(text) => size <= Len(more) /\ Cut(more, size) = b.p
          /\ put(c.p, m) = Shown(more) /\ put(b.p, m) = Cut(more, size)
      BY <1>3, <2>3, <2>9
    <3>2. c1 = [at |-> f.next, args |-> rest, p |-> Shown(more)]
      BY <1>4, <2>4, <2>7, <2>9, <3>1 DEF Directive, m
    <3> HIDE DEF more, rest
    <3>3. c1.at \in Nat \ {0} /\ c1.at = f.next /\ c1.args = rest /\ c1.p = Shown(more)
      BY <2>2, <3>2
    <3>4. CASE Same /\ f.conversion = "%" /\ Full(b.p)
      <4>1. b1 = [at |-> n + 1, args |-> b.args, p |-> b.p]
        BY <2>5, <3>4 DEF Directive, Left
      <4> QED
        BY <1>4, <3>1, <3>3, <3>4, <4>1 DEF Alike, c1, b1
    <3>5. CASE Same /\ ~(f.conversion = "%" /\ Full(b.p))
      <4>1. b1 = [at |-> f.next, args |-> rest, p |-> Cut(more, size)]
        BY <2>5, <2>7, <2>9, <3>1, <3>5 DEF Directive, m, rest
      <4> QED
        BY <3>1, <3>3, <4>1 DEF Alike, c1, b1
    <3>6. CASE ~Same
      BY <2>6, <3>1, <3>3, <3>6 DEF Alike, c1, b1
    <3> QED
      BY <3>4, <3>5, <3>6
  <2> QED
    BY <2>8, <2>9
<1> QED
  BY <1>1, <1>2, <1>5, <1>6, <1>7

(* f says where do_printf's loop is after each of its first n rounds.      *)
Goes(f, format, args, p, n) ==
    f = [k \in 0 .. n |-> IF k = 0 THEN [at |-> 1, args |-> args, p |-> p]
                          ELSE Round(format, f[k - 1])]

(* The recursion goes down to 0, so there is such a function.              *)
LEMMA GoesExists ==
    ASSUME NEW format, NEW args, NEW p, NEW n \in Nat
    PROVE  \E f : Goes(f, format, args, p, n)
<1> DEFINE T == {k \in Nat : ~\E f : Goes(f, format, args, p, k)}
           first == [at |-> 1, args |-> args, p |-> p]
<1> HIDE DEF first
<1>1. ASSUME T # {} PROVE FALSE
  <2>1. PICK x \in T : \A y \in T : x <= y
    <3>1. T \subseteq Nat
      OBVIOUS
    <3> HIDE DEF T
    <3> QED
      BY <1>1, <3>1, LeastOf
  <2>2. x \in Nat /\ ~\E f : Goes(f, format, args, p, x)
    OBVIOUS
  <2>3. CASE x = 0
    <3> DEFINE f == [k \in 0 .. 0 |-> first]
    <3>1. f = [k \in 0 .. 0 |-> IF k = 0 THEN first ELSE Round(format, f[k - 1])]
      OBVIOUS
    <3> HIDE DEF f
    <3>2. Goes(f, format, args, p, 0)
      BY <3>1 DEF Goes, first
    <3> QED
      BY <2>2, <2>3, <3>2
  <2>4. CASE x # 0
    <3>1. x - 1 \in Nat /\ ~(x <= x - 1)
      BY <2>2, <2>4
    <3>2. PICK f : Goes(f, format, args, p, x - 1)
      BY <2>1, <3>1
    <3>3. \A k \in 0 .. x - 1 : f[k] = IF k = 0 THEN first ELSE Round(format, f[k - 1])
      BY <3>2 DEF Goes, first
    <3> DEFINE g == [k \in 0 .. x |-> IF k = x THEN Round(format, f[x - 1]) ELSE f[k]]
    <3>4. ASSUME NEW k \in 0 .. x
          PROVE  g[k] = IF k = 0 THEN first ELSE Round(format, g[k - 1])
      <4>1. k # 0 => k - 1 \in 0 .. x /\ k - 1 # x
        BY <2>2
      <4>2. k # 0 => g[k - 1] = f[k - 1]
        BY <4>1
      <4>3. CASE k = x
        BY <2>4, <4>2, <4>3
      <4>4. CASE k # x
        <5>1. k \in 0 .. x - 1 /\ g[k] = f[k]
          BY <2>2, <4>4
        <5> QED
          BY <3>3, <4>2, <5>1
      <4> QED
        BY <4>3, <4>4
    <3>5. g = [k \in 0 .. x |-> g[k]]
      OBVIOUS
    <3> HIDE DEF g
    <3>6. Goes(g, format, args, p, x)
      BY <3>4, <3>5 DEF Goes, first
    <3> QED
      BY <2>2, <3>6
  <2> QED
    BY <2>3, <2>4
<1> QED
  BY <1>1

(* do_printf's loop, round by round.                                       *)
Rounds(format, args, p) == CHOOSE f : Goes(f, format, args, p, Len(format))

LEMMA RoundsAre ==
    ASSUME NEW C, NEW format \in Seq(C), NEW args, NEW p
    PROVE  /\ print_all(format, args, p) = Rounds(format, args, p)[Len(format)].p
           /\ Rounds(format, args, p)[0] = [at |-> 1, args |-> args, p |-> p]
           /\ \A k \in 1 .. Len(format) :
                  Rounds(format, args, p)[k]
                      = Round(format, Rounds(format, args, p)[k - 1])
<1> DEFINE F == Rounds(format, args, p)
<1>1. Len(format) \in Nat
  BY LenProperties
<1>2. \E f : Goes(f, format, args, p, Len(format))
  BY <1>1, GoesExists
<1>3. Goes(F, format, args, p, Len(format))
  BY <1>2 DEF Rounds
<1>4. print_all(format, args, p) = F[Len(format)].p
  BY Zenon DEF print_all, Rounds, Goes
<1> HIDE DEF F
<1>5. \A k \in 0 .. Len(format) :
          F[k] = IF k = 0 THEN [at |-> 1, args |-> args, p |-> p]
                 ELSE Round(format, F[k - 1])
  BY <1>3 DEF Goes
<1>6. F[0] = [at |-> 1, args |-> args, p |-> p]
  BY <1>1, <1>5
<1>7. \A k \in 1 .. Len(format) : F[k] = Round(format, F[k - 1])
  BY <1>1, <1>5
<1> QED
  BY <1>4, <1>6, <1>7 DEF F

(* What printf writes for the format and its arguments is made of the      *)
(* characters S: each conversion gives some of them.                       *)
PrintsText(format, args, S) ==
    \A k \in 1 .. Len(format) :
        GivesText(format, Rounds(format, args, Console)[k - 1], S)

(* For every format, arguments and size of the buffer, if no character to  *)
(* print is a NUL: vsnprintf never writes behind the buffer, leaves a      *)
(* string there that is what printf would print, or its beginning where    *)
(* the buffer ends (in whichever conversion it ends), and returns less     *)
(* than the size just when all is there.                                   *)
THEOREM SnprintfCutsOff ==
    ASSUME NEW S, NUL \notin S, NEW format \in Seq(S), NEW args,
           PrintsText(format, args, S), NEW size \in Nat
    PROVE  Holds(vsnprintf(size, format, args), size, vprintf(format, args))
<1> DEFINE n == Len(format)
           c == Rounds(format, args, Console)
           b == Rounds(format, args, Buffer(size))
           T == {k \in 0 .. n : ~Alike(c[k], b[k], format, size, S)}
<1>1. n \in Nat
  BY LenProperties
<1>2. /\ print_all(format, args, Console) = c[n].p
      /\ print_all(format, args, Buffer(size)) = b[n].p
      /\ c[0] = [at |-> 1, args |-> args, p |-> Console]
      /\ b[0] = [at |-> 1, args |-> args, p |-> Buffer(size)]
      /\ \A k \in 1 .. n : c[k] = Round(format, c[k - 1]) /\ b[k] = Round(format, b[k - 1])
  BY RoundsAre
<1>3. \A k \in 1 .. n : GivesText(format, c[k - 1], S)
  BY DEF PrintsText
<1> HIDE DEF c, b
<1>4. Alike(c[0], b[0], format, size, S)
  <2>1. Console = Shown(<<>>)
    BY DEF Console, Shown
  <2>2. Buffer(size) = Cut(<<>>, size)
    <3> DEFINE e == <<>>
    <3>1. Least(Len(e), size) = 0 /\ size - 0 = size
      BY DEF Least
    <3>2. [k \in 1 .. 0 |-> IF k = size THEN NUL ELSE e[k]] = e
      OBVIOUS
    <3> HIDE DEF e
    <3>3. Cut(e, size) = [console |-> FALSE, len |-> size, buf |-> e]
      BY <3>1, <3>2, Zenon DEF Cut
    <3> QED
      BY <3>3, Zenon DEF Buffer, e
  <2>3. <<>> \in Seq(S)
    OBVIOUS
  <2>4. /\ c[0].at = 1 /\ c[0].args = args /\ c[0].p = Shown(<<>>)
        /\ b[0].at = 1 /\ b[0].args = args /\ b[0].p = Cut(<<>>, size)
    BY <1>2, <2>1, <2>2
  <2>5. c[0].at \in Nat \ {0}
    BY <2>4
  <2> QED
    BY <2>3, <2>4, <2>5 DEF Alike
<1>5. ASSUME T # {} PROVE FALSE
  <2>1. PICK x \in T : \A y \in T : x <= y
    <3>1. T \subseteq Nat
      BY <1>1
    <3> HIDE DEF T
    <3> QED
      BY <1>5, <3>1, LeastOf
  <2>2. x \in 0 .. n /\ ~Alike(c[x], b[x], format, size, S)
    OBVIOUS
  <2>3. x \in 1 .. n /\ x - 1 \in 0 .. n /\ ~(x <= x - 1)
    BY <1>1, <1>4, <2>2
  <2>4. Alike(c[x - 1], b[x - 1], format, size, S)
    BY <2>1, <2>3
  <2>5. Alike(Round(format, c[x - 1]), Round(format, b[x - 1]), format, size, S)
    BY <1>3, <2>3, <2>4, StayAlike
  <2> QED
    BY <1>2, <2>2, <2>3, <2>5
<1>6. PICK text \in Seq(S) : c[n].p = Shown(text) /\ b[n].p = Cut(text, size)
  <2>1. Alike(c[n], b[n], format, size, S)
    BY <1>1, <1>5
  <2> QED
    BY <2>1 DEF Alike
<1>7. vprintf(format, args) = text
  BY <1>2, <1>6 DEF vprintf, Shown
<1>8. vsnprintf(size, format, args) = Finished(Cut(text, size))
  BY <1>2, <1>6, Zenon DEF vsnprintf
<1> QED
  BY <1>7, <1>8, CutHolds

(* f says what the powers of base up to n are.                             *)
Climbs(f, base, n) ==
    f = [k \in 0 .. n |-> IF k = 0 THEN 1 ELSE base * f[k - 1]]

LEMMA ClimbsExists ==
    ASSUME NEW base \in Nat, NEW n \in Nat
    PROVE  \E f : Climbs(f, base, n)
<1> DEFINE T == {k \in Nat : ~\E f : Climbs(f, base, k)}
<1>1. ASSUME T # {} PROVE FALSE
  <2>1. PICK x \in T : \A y \in T : x <= y
    <3>1. T \subseteq Nat
      OBVIOUS
    <3> HIDE DEF T
    <3> QED
      BY <1>1, <3>1, LeastOf
  <2>2. x \in Nat /\ ~\E f : Climbs(f, base, x)
    OBVIOUS
  <2>3. CASE x = 0
    <3> DEFINE f == [k \in 0 .. 0 |-> 1]
    <3>1. f = [k \in 0 .. 0 |-> IF k = 0 THEN 1 ELSE base * f[k - 1]]
      OBVIOUS
    <3> HIDE DEF f
    <3> QED
      BY <2>2, <2>3, <3>1 DEF Climbs
  <2>4. CASE x # 0
    <3>1. x - 1 \in Nat /\ ~(x <= x - 1)
      BY <2>2, <2>4
    <3>2. PICK f : Climbs(f, base, x - 1)
      BY <2>1, <3>1
    <3>3. \A k \in 0 .. x - 1 : f[k] = IF k = 0 THEN 1 ELSE base * f[k - 1]
      BY <3>2 DEF Climbs
    <3> DEFINE g == [k \in 0 .. x |-> IF k = x THEN base * f[x - 1] ELSE f[k]]
    <3>4. ASSUME NEW k \in 0 .. x
          PROVE  g[k] = IF k = 0 THEN 1 ELSE base * g[k - 1]
      <4>1. k # 0 => k - 1 \in 0 .. x /\ k - 1 # x
        BY <2>2
      <4>2. k # 0 => g[k - 1] = f[k - 1]
        BY <4>1
      <4>3. CASE k = x
        BY <2>4, <4>2, <4>3
      <4>4. CASE k # x
        <5>1. k \in 0 .. x - 1 /\ g[k] = f[k]
          BY <2>2, <4>4
        <5> QED
          BY <3>3, <4>2, <5>1
      <4> QED
        BY <4>3, <4>4
    <3>5. g = [k \in 0 .. x |-> g[k]]
      OBVIOUS
    <3> HIDE DEF g
    <3>6. Climbs(g, base, x)
      BY <3>4, <3>5 DEF Climbs
    <3> QED
      BY <2>2, <3>6
  <2> QED
    BY <2>3, <2>4
<1> QED
  BY <1>1

LEMMA ClimbsAgree ==
    ASSUME NEW base \in Nat, NEW m \in Nat, NEW n \in Nat, n <= m,
           NEW f, Climbs(f, base, n), NEW g, Climbs(g, base, m)
    PROVE  \A k \in 0 .. n : f[k] = g[k]
<1> DEFINE T == {k \in 0 .. n : f[k] # g[k]}
<1>1. \A k \in 0 .. n :
          /\ f[k] = IF k = 0 THEN 1 ELSE base * f[k - 1]
          /\ g[k] = IF k = 0 THEN 1 ELSE base * g[k - 1]
  BY DEF Climbs
<1>2. ASSUME T # {} PROVE FALSE
  <2>1. PICK x \in T : \A y \in T : x <= y
    <3>1. T \subseteq Nat
      OBVIOUS
    <3> HIDE DEF T
    <3> QED
      BY <1>2, <3>1, LeastOf
  <2>2. x \in 0 .. n /\ f[x] # g[x]
    OBVIOUS
  <2>3. CASE x = 0
    BY <1>1, <2>2, <2>3
  <2>4. CASE x # 0
    <3>1. x - 1 \in 0 .. n /\ ~(x <= x - 1)
      BY <2>2, <2>4
    <3>2. f[x - 1] = g[x - 1]
      BY <2>1, <3>1
    <3> QED
      BY <1>1, <2>2, <2>4, <3>2
  <2> QED
    BY <2>3, <2>4
<1> QED
  BY <1>2

(* Powers are what they are at school.                                     *)
LEMMA PowerIs ==
    ASSUME NEW base \in Nat, NEW n \in Nat
    PROVE  /\ Power(base, 0) = 1
           /\ Power(base, n + 1) = base * Power(base, n)
<1> DEFINE F(m) == CHOOSE f : Climbs(f, base, m)
<1>1. \A m \in Nat : Climbs(F(m), base, m)
  BY ClimbsExists
<1>2. \A m : Power(base, m) = F(m)[m]
  BY Zenon DEF Power, Climbs
<1> HIDE DEF F
<1>3. F(0)[0] = 1
  BY <1>1 DEF Climbs
<1>4. F(n + 1)[n + 1] = base * F(n + 1)[n]
  <2>1. Climbs(F(n + 1), base, n + 1)
    BY <1>1
  <2> QED
    BY <2>1 DEF Climbs
<1>5. F(n)[n] = F(n + 1)[n]
  <2>1. Climbs(F(n + 1), base, n + 1) /\ Climbs(F(n), base, n)
    BY <1>1
  <2> HIDE DEF F
  <2>2. n <= n + 1 /\ n + 1 \in Nat /\ n \in 0 .. n
    OBVIOUS
  <2>3. \A k \in 0 .. n : F(n)[k] = F(n + 1)[k]
    BY <2>1, <2>2, ClimbsAgree
  <2> QED
    BY <2>2, <2>3
<1> QED
  BY <1>2, <1>3, <1>4, <1>5

LEMMA PowerGrows ==
    ASSUME NEW base \in Nat, base >= 2, NEW m \in Nat
    PROVE  /\ \A n \in Nat : Power(base, n) \in Nat \ {0}
           /\ \A n \in Nat : n <= m => Power(base, n) <= Power(base, m)
           /\ Power(2, m) <= Power(base, m)
<1> DEFINE P(n) == Power(base, n)
<1>1. P(0) = 1 /\ \A n \in Nat : P(n + 1) = base * P(n)
  BY PowerIs
<1>2. Power(2, 0) = 1 /\ \A n \in Nat : Power(2, n + 1) = 2 * Power(2, n)
  BY PowerIs
<1> DEFINE Good(n) == /\ P(n) \in Nat \ {0} /\ Power(2, n) \in Nat /\ Power(2, n) <= P(n)
                      /\ P(n) <= P(n + 1)
           T == {n \in Nat : ~Good(n)}
<1> HIDE DEF P
<1>3. ASSUME NEW a \in Nat, a # 0, NEW b \in Nat, b <= a
      PROVE  base * a \in Nat /\ base * a # 0 /\ a <= base * a /\ 2 * b <= base * a
  <2>1. base * a = 2 * a + (base - 2) * a
    OBVIOUS
  <2>2. base - 2 \in Nat
    OBVIOUS
  <2>3. (base - 2) * a \in Nat
    BY <2>2
  <2> QED
    BY <2>1, <2>3, <1>3
<1>4. ASSUME T # {} PROVE FALSE
  <2>1. PICK x \in T : \A y \in T : x <= y
    <3>1. T \subseteq Nat
      OBVIOUS
    <3> HIDE DEF T
    <3> QED
      BY <1>4, <3>1, LeastOf
  <2>2. x \in Nat /\ ~Good(x)
    OBVIOUS
  <2>3. CASE x = 0
    <3>1. P(0) = 1 /\ P(0 + 1) = base * 1
      BY <1>1
    <3>2. Good(0)
      BY <1>2, <1>3, <3>1
    <3> QED
      BY <2>2, <2>3, <3>2
  <2>4. CASE x # 0
    <3>1. x - 1 \in Nat /\ ~(x <= x - 1) /\ x - 1 + 1 = x
      BY <2>2, <2>4
    <3>2. Good(x - 1)
      <4>1. x - 1 \notin T
        BY <2>1, <3>1
      <4> HIDE DEF Good
      <4> QED
        BY <3>1, <4>1
    <3>3. P(x) = base * P(x - 1) /\ Power(2, x) = 2 * Power(2, x - 1) /\ P(x + 1) = base * P(x)
      BY <1>1, <1>2, <2>2, <3>1
    <3>4. P(x) \in Nat \ {0} /\ Power(2, x) <= P(x) /\ Power(2, x) \in Nat
      BY <1>3, <3>2, <3>3
    <3>5. P(x) <= P(x + 1)
      BY <1>3, <3>3, <3>4
    <3> QED
      BY <2>2, <3>4, <3>5
  <2> QED
    BY <2>3, <2>4
<1>5. \A n \in Nat : Good(n)
  <2> HIDE DEF Good
  <2> QED
    BY <1>4
<1>6. ASSUME NEW n \in Nat PROVE n <= m => P(n) <= P(m)
  <2> DEFINE U == {k \in Nat : n <= k /\ ~(P(n) <= P(k))}
  <2>1. ASSUME U # {} PROVE FALSE
    <3>1. PICK x \in U : \A y \in U : x <= y
      <4>1. U \subseteq Nat
        OBVIOUS
      <4> HIDE DEF U
      <4> QED
        BY <2>1, <4>1, LeastOf
    <3>2. x \in Nat /\ n <= x /\ ~(P(n) <= P(x)) /\ P(n) \in Nat
      BY <1>5
    <3>3. x # n /\ x - 1 \in Nat /\ n <= x - 1 /\ ~(x <= x - 1) /\ x - 1 + 1 = x
      BY <3>2
    <3>4. P(n) <= P(x - 1)
      BY <3>1, <3>3
    <3>5. P(x - 1) <= P(x) /\ P(x - 1) \in Nat /\ P(x) \in Nat
      BY <1>5, <3>2, <3>3
    <3> QED
      BY <3>2, <3>4, <3>5
  <2> QED
    BY <2>1
<1> QED
  BY <1>5, <1>6 DEF P

(* Division of numbers.                                                    *)
LEMMA DivideIs ==
    ASSUME NEW x \in Nat, NEW p \in Nat \ {0}
    PROVE  /\ x \div p \in Nat /\ x % p \in 0 .. p - 1
           /\ x = p * (x \div p) + (x % p)
           /\ \A q \in Nat, r \in 0 .. p - 1 :
                  x = p * q + r => x \div p = q /\ x % p = r
<1>1. x \div p \in Nat /\ x % p \in 0 .. p - 1 /\ x = p * (x \div p) + (x % p)
  <2>1. x % p \in 0 .. p - 1
    OBVIOUS
  <2>2. x \div p \in Int
    OBVIOUS
  <2>3. x \div p >= 0
    OBVIOUS
  <2>4. x = p * (x \div p) + (x % p)
    OBVIOUS
  <2> QED
    BY <2>1, <2>2, <2>3, <2>4
<1>2. ASSUME NEW q \in Nat, NEW r \in 0 .. p - 1, x = p * q + r
      PROVE  x \div p = q /\ x % p = r
  <2>1. PICK a \in Nat : a = x \div p
    BY <1>1
  <2>2. PICK b \in 0 .. p - 1 : b = x % p
    BY <1>1
  <2>3. p * a + b = p * q + r
    BY <1>1, <1>2, <2>1, <2>2
  <2>4. CASE a < q
    <3>1. q - a - 1 \in Nat /\ q = a + 1 + (q - a - 1)
      BY <2>4
    <3>2. p * q = p * a + p + p * (q - a - 1) /\ p * (q - a - 1) \in Nat
      BY <3>1
    <3> QED
      BY <2>3, <3>2
  <2>5. CASE q < a
    <3>1. a - q - 1 \in Nat /\ a = q + 1 + (a - q - 1)
      BY <2>5
    <3>2. p * a = p * q + p + p * (a - q - 1) /\ p * (a - q - 1) \in Nat
      BY <3>1
    <3> QED
      BY <2>3, <3>2
  <2>6. CASE a = q
    BY <2>1, <2>2, <2>3, <2>6
  <2> QED
    BY <2>4, <2>5, <2>6
<1> QED
  BY <1>1, <1>2

(* What is left of x after a digit, and that digit: p is a power of the    *)
(* base and base * p the one before it.                                    *)
LEMMA DigitIs ==
    ASSUME NEW x \in Nat, NEW p \in Nat \ {0}, NEW base \in Nat \ {0}
    PROVE  /\ base * p \in Nat \ {0}
           /\ (x % (base * p)) % p = x % p
           /\ (x % (base * p)) \div p \in 0 .. base - 1
           /\ x \div p = (x \div (base * p)) * base + ((x % (base * p)) \div p)
<1>1. base * p \in Nat \ {0}
  OBVIOUS
<1>2. PICK big \in Nat \ {0} : big = base * p
  BY <1>1
<1>3. PICK q \in Nat, r \in 0 .. big - 1 : q = x \div big /\ r = x % big /\ x = big * q + r
  BY <1>2, DivideIs
<1>4. PICK d \in Nat, s \in 0 .. p - 1 : d = r \div p /\ s = r % p /\ r = p * d + s
  BY DivideIs, SMTT(30)
<1>5. d < base
  <2>1. ASSUME d >= base PROVE FALSE
    <3>1. d - base \in Nat /\ d = base + (d - base)
      BY <2>1
    <3>2. p * d = base * p + p * (d - base) /\ p * (d - base) \in Nat
      BY <3>1
    <3>3. r >= big
      BY <1>2, <1>4, <3>2
    <3> QED
      BY <3>3
  <2> QED
    BY <2>1
<1>6. x = p * (q * base + d) + s
  <2>1. big * q = p * (q * base)
    BY <1>2
  <2>2. p * (q * base + d) = p * (q * base) + p * d
    OBVIOUS
  <2> QED
    BY <1>3, <1>4, <2>1, <2>2
<1>7. PICK t \in Nat : t = q * base + d
  OBVIOUS
<1>8. x \div p = t /\ x % p = s
  <2>1. x = p * t + s
    BY <1>6, <1>7
  <2> QED
    BY <2>1, DivideIs
<1>9. x % (base * p) = r /\ x \div (base * p) = q
  BY <1>2, <1>3
<1>10. d \in 0 .. base - 1
  BY <1>5
<1> QED
  BY <1>1, <1>4, <1>7, <1>8, <1>9, <1>10

LEMMA DigitsAre ==
    \A x \in Nat : \A p, base \in Nat \ {0} :
        /\ base * p \in Nat \ {0}
        /\ (x % (base * p)) % p = x % p
        /\ (x % (base * p)) \div p \in 0 .. base - 1
        /\ x \div p = (x \div (base * p)) * base + ((x % (base * p)) \div p)
BY DigitIs

(* sub holds the base's powers downwards to 1, and all that are less than  *)
(* bound.                                                                  *)
Scale(sub, base, bound) ==
    /\ sub \in Seq(Nat \ {0}) /\ Len(sub) # 0
    /\ sub[Len(sub)] = 1 /\ bound <= base * sub[1]
    /\ \A k \in 1 .. Len(sub) : k # 1 => sub[k - 1] = base * sub[k]

LEMMA PowersScale ==
    ASSUME NEW base \in 2 .. 16
    PROVE  Power(2, LongBits) \in Nat /\ Scale(Powers(base), base, Power(2, LongBits))
<1> DEFINE beyond == Power(2, LongBits)
           P(n) == Power(base, n)
           T == {n \in Nat : beyond <= P(n)}
<1>1. LongBits \in Nat \ {0}
  BY PrintfAssumption
<1>2. /\ \A n \in Nat : P(n) \in Nat \ {0}
      /\ beyond <= P(LongBits)
      /\ P(0) = 1 /\ \A n \in Nat : P(n + 1) = base * P(n)
  <2>1. base \in Nat /\ base >= 2 /\ LongBits \in Nat
    BY <1>1
  <2> QED
    BY <2>1, PowerGrows, PowerIs
<1>3. beyond \in Nat /\ 2 <= beyond
  <2>1. LongBits - 1 \in Nat /\ LongBits - 1 + 1 = LongBits
    BY <1>1
  <2>2. beyond = 2 * Power(2, LongBits - 1) /\ Power(2, LongBits - 1) \in Nat \ {0}
    <3>1. Power(2, LongBits - 1 + 1) = 2 * Power(2, LongBits - 1)
      BY <2>1, PowerIs
    <3>2. Power(2, LongBits - 1) \in Nat \ {0}
      BY <2>1, PowerGrows
    <3> QED
      BY <2>1, <3>1, <3>2
  <2> QED
    BY <2>2
<1> HIDE DEF P, beyond
<1>4. PICK x \in T : \A y \in T : x <= y
  <2>1. T \subseteq Nat /\ LongBits \in T
    BY <1>1, <1>2
  <2> HIDE DEF T
  <2> QED
    BY <2>1, LeastOf
<1>5. x \in 1 .. LongBits /\ x - 1 \in Nat /\ P(x - 1) < beyond /\ beyond <= P(x)
  <2>1. x \in Nat /\ beyond <= P(x) /\ x <= LongBits
    BY <1>1, <1>2, <1>4
  <2>2. x # 0
    BY <1>2, <1>3, <2>1
  <2>3. x - 1 \in Nat /\ ~(x <= x - 1)
    BY <2>1, <2>2
  <2>4. ~(beyond <= P(x - 1))
    BY <1>4, <2>3
  <2>5. P(x - 1) \in Nat
    BY <1>2, <2>3
  <2> QED
    BY <1>1, <1>3, <2>1, <2>2, <2>3, <2>4, <2>5
<1> DEFINE n == CHOOSE n \in 1 .. LongBits : P(n - 1) < beyond /\ beyond <= P(n)
<1>6. n \in 1 .. LongBits /\ beyond <= P(n)
  BY <1>5
<1>7. Powers(base) = [k \in 1 .. n |-> P(n - k)]
  BY Zenon DEF Powers, P, beyond
<1> HIDE DEF n
<1>8. \A k \in 1 .. n : n - k \in Nat /\ P(n - k) \in Nat \ {0}
  BY <1>1, <1>2, <1>6
<1>9. Powers(base) \in Seq(Nat \ {0}) /\ Len(Powers(base)) = n
  BY <1>1, <1>6, <1>7, <1>8
<1>10. Powers(base)[n] = 1
  BY <1>1, <1>2, <1>6, <1>7
<1>11. ASSUME NEW k \in 1 .. n, k # 1
       PROVE  Powers(base)[k - 1] = base * Powers(base)[k]
  <2>1. k - 1 \in 1 .. n /\ n - (k - 1) = n - k + 1 /\ n - k \in Nat
    BY <1>1, <1>6, <1>11
  <2> QED
    BY <1>2, <1>7, <2>1
<1>12. base * Powers(base)[1] = P(n)
  <2>1. n - 1 \in Nat /\ n - 1 + 1 = n /\ 1 \in 1 .. n
    BY <1>1, <1>6
  <2> QED
    BY <1>2, <1>7, <2>1
<1> QED
  BY <1>1, <1>3, <1>6, <1>9, <1>10, <1>11, <1>12 DEF Scale, beyond

LEMMA DivideSmall ==
    ASSUME NEW x \in Nat, NEW p \in Nat \ {0}, x < p
    PROVE  x \div p = 0 /\ x % p = x
<1>1. 0 \in Nat /\ x \in 0 .. p - 1 /\ x = p * 0 + x
  OBVIOUS
<1> QED
  BY <1>1, DivideIs

(* The first base digits of str, small or capital ones.                    *)
Numerals(str, base) == {str[k] : k \in 1 .. base}

LEMMA NumeralFacts ==
    /\ Len(Small) = 16 /\ Len(Capital) = 16
    /\ \A k \in 1 .. 16 : ValueOf(Small[k]) = k - 1 /\ ValueOf(Capital[k]) = k - 1
    /\ Small[1] = "0" /\ Capital[1] = "0"
    /\ \A k \in 2 .. 16 : Small[k] # "0" /\ Capital[k] # "0"
<1> DEFINE Place(c) ==
        CASE c = "0" -> 1 [] c = "1" -> 2 [] c = "2" -> 3 [] c = "3" -> 4
          [] c = "4" -> 5 [] c = "5" -> 6 [] c = "6" -> 7 [] c = "7" -> 8
          [] c = "8" -> 9 [] c = "9" -> 10 [] c \in {"a", "A"} -> 11
          [] c \in {"b", "B"} -> 12 [] c \in {"c", "C"} -> 13
          [] c \in {"d", "D"} -> 14 [] c \in {"e", "E"} -> 15
          [] c \in {"f", "F"} -> 16
<1>1. ASSUME NEW k \in 1 .. 16, NEW c \in {Small[k], Capital[k]}
      PROVE  Place(c) = k
  BY <1>1 DEF Small, Capital
<1> HIDE DEF Place
<1>2. ASSUME NEW k \in 1 .. 16, NEW c \in {Small[k], Capital[k]}
      PROVE  ValueOf(c) = k - 1
  <2> DEFINE j == CHOOSE j \in 1 .. 16 : c \in {Small[j], Capital[j]}
  <2>1. j \in 1 .. 16 /\ c \in {Small[j], Capital[j]}
    BY <1>2
  <2> HIDE DEF j
  <2>2. Place(c) = j /\ Place(c) = k
    BY <1>1, <1>2, <2>1
  <2> QED
    BY <2>2 DEF ValueOf, j
<1>3. Len(Small) = 16 /\ Len(Capital) = 16 /\ Small[1] = "0" /\ Capital[1] = "0"
  BY DEF Small, Capital
<1>4. \A k \in 2 .. 16 : Small[k] # "0" /\ Capital[k] # "0"
  BY DEF Small, Capital
<1> QED
  BY <1>2, <1>3, <1>4

(* h says what the digits up to each place read as.                        *)
Reads(h, digits, base) ==
    h = [k \in 0 .. Len(digits) |->
            IF k = 0 THEN 0 ELSE h[k - 1] * base + ValueOf(digits[k])]

LEMMA NumberIs ==
    ASSUME NEW C, NEW digits \in Seq(C), NEW base, NEW h, Reads(h, digits, base)
    PROVE  Number(digits, base) = h[Len(digits)]
<1> DEFINE F == CHOOSE f : Reads(f, digits, base)
           n == Len(digits)
           T == {k \in 0 .. n : F[k] # h[k]}
<1>1. n \in Nat
  BY LenProperties
<1>2. Reads(F, digits, base)
  OBVIOUS
<1>3. Number(digits, base) = F[n]
  BY Zenon DEF Number, Reads
<1> HIDE DEF F
<1>4. \A k \in 0 .. n :
          /\ F[k] = IF k = 0 THEN 0 ELSE F[k - 1] * base + ValueOf(digits[k])
          /\ h[k] = IF k = 0 THEN 0 ELSE h[k - 1] * base + ValueOf(digits[k])
  BY <1>2 DEF Reads
<1>5. ASSUME T # {} PROVE FALSE
  <2>1. PICK x \in T : \A y \in T : x <= y
    <3>1. T \subseteq Nat
      BY <1>1
    <3> HIDE DEF T
    <3> QED
      BY <1>5, <3>1, LeastOf
  <2>2. x \in 0 .. n /\ F[x] # h[x]
    OBVIOUS
  <2>3. CASE x = 0
    BY <1>4, <2>2, <2>3
  <2>4. CASE x # 0
    <3>1. x - 1 \in 0 .. n /\ ~(x <= x - 1)
      BY <1>1, <2>2, <2>4
    <3>2. F[x - 1] = h[x - 1]
      BY <2>1, <3>1
    <3> QED
      BY <1>4, <2>2, <2>4, <3>2
  <2> QED
    BY <2>3, <2>4
<1> QED
  BY <1>1, <1>3, <1>5

LEMMA RepeatIs ==
    ASSUME NEW S, NEW c \in S, NEW n \in Int
    PROVE  /\ Repeat(c, n) \in Seq(S)
           /\ Len(Repeat(c, n)) = IF n > 0 THEN n ELSE 0
           /\ \A k \in 1 .. Len(Repeat(c, n)) : Repeat(c, n)[k] = c
<1> DEFINE m == IF n > 0 THEN n ELSE 0
<1>1. m \in Nat
  OBVIOUS
<1>2. Repeat(c, n) = [k \in 1 .. m |-> c]
  BY DEF Repeat
<1> HIDE DEF m
<1>3. Repeat(c, n) \in Seq(S) /\ Len(Repeat(c, n)) = m
  BY <1>1, <1>2
<1> QED
  BY <1>2, <1>3 DEF m

(* The digits valconv finds, and that they read as val, with zeros in      *)
(* front or without.                                                       *)
LEMMA ValconvIs ==
    ASSUME NEW base \in 2 .. 16, NEW bound \in Nat, NEW sub, Scale(sub, base, bound),
           NEW val \in 0 .. bound - 1, NEW str \in {Small, Capital}
    PROVE  /\ valconv(val, sub, str) \in Seq(Numerals(str, base))
           /\ Len(valconv(val, sub, str)) >= 1
           /\ val = 0 => valconv(val, sub, str) = <<"0">>
           /\ val # 0 => valconv(val, sub, str)[1] # "0"
           /\ \A z \in Int :
                  Number(Repeat("0", z) \o valconv(val, sub, str), base) = val
<1> DEFINE n == Len(sub)
           N == Numerals(str, base)
           digits == valconv(val, sub, str)
<1>1. n \in Nat \ {0} /\ val \in Nat /\ base \in Nat \ {0}
      /\ \A k \in 1 .. n : sub[k] \in Nat \ {0}
  BY LenProperties, ElementOfSeq DEF Scale
<1>2. str[1] = "0" /\ \A k \in 1 .. 16 : ValueOf(str[k]) = k - 1 /\ (k # 1 => str[k] # "0")
  <2>1. \A k \in 1 .. 16 : k # 1 => k \in 2 .. 16
    OBVIOUS
  <2> QED
    BY <2>1, NumeralFacts
<1>3. "0" \in N
  BY <1>2 DEF Numerals
<1>6. ValueOf("0") = 0
  <2>1. 1 \in 1 .. 16 /\ ValueOf(str[1]) = 1 - 1 /\ 1 - 1 = 0
    BY <1>2
  <2> QED
    BY <1>2, <2>1, Zenon
<1>4. CASE val = 0
  <2>1. digits = <<"0">>
    BY <1>4 DEF valconv
  <2> HIDE DEF digits
  <2>2. digits \in Seq(N) /\ Len(digits) = 1 /\ digits[1] = "0"
    BY <1>3, <2>1
  <2>3. ASSUME NEW z \in Int PROVE Number(Repeat("0", z) \o digits, base) = val
    <3> DEFINE r == Repeat("0", z)
               text == r \o digits
               h == [k \in 0 .. Len(text) |-> 0]
    <3>1. r \in Seq(N) /\ Len(r) \in Nat /\ \A k \in 1 .. Len(r) : r[k] = "0"
      <4> HIDE DEF N, digits
      <4>1. /\ r \in Seq(N) /\ Len(r) = IF z > 0 THEN z ELSE 0
            /\ \A k \in 1 .. Len(r) : r[k] = "0"
        BY <1>3, RepeatIs
      <4> HIDE DEF r
      <4> QED
        BY <4>1
    <3> HIDE DEF r
    <3>2. /\ text \in Seq(N) /\ Len(text) = Len(r) + 1
          /\ \A k \in 1 .. Len(text) : text[k] = "0"
      <4>1. \A k \in 1 .. Len(r) + 1 : ~(k <= Len(r)) => k - Len(r) = 1
        BY <3>1
      <4> HIDE DEF N
      <4>2. digits \in Seq(N)
        BY <2>2
      <4>3. /\ text \in Seq(N) /\ Len(text) = Len(r) + Len(digits)
            /\ \A k \in 1 .. Len(r) + Len(digits) :
                   text[k] = IF k <= Len(r) THEN r[k] ELSE digits[k - Len(r)]
        BY <3>1, <4>2, ConcatProperties
      <4> HIDE DEF text
      <4> QED
        BY <2>2, <3>1, <4>1, <4>3
    <3> HIDE DEF text
    <3>3. Reads(h, text, base)
      <4>1. h = [k \in 0 .. Len(text) |-> h[k]]
        OBVIOUS
      <4>2. ASSUME NEW k \in 0 .. Len(text)
            PROVE  h[k] = IF k = 0 THEN 0 ELSE h[k - 1] * base + ValueOf(text[k])
        <5>1. k # 0 => k - 1 \in 0 .. Len(text) /\ k \in 1 .. Len(text)
          BY <3>1, <3>2
        <5>2. k # 0 => ValueOf(text[k]) = 0
          <6>1. k # 0 => text[k] = "0"
            BY <3>2, <5>1
          <6> QED
            BY <1>6, <6>1, Zenon
        <5>3. 0 * base + 0 = 0
          OBVIOUS
        <5> QED
          BY <5>1, <5>2, <5>3
      <4> HIDE DEF h
      <4> QED
        BY <4>1, <4>2 DEF Reads
    <3>4. h[Len(text)] = 0
      BY <3>1, <3>2
    <3> HIDE DEF h
    <3>5. Number(text, base) = 0
      BY <3>2, <3>3, <3>4, NumberIs
    <3> QED
      BY <1>4, <3>5 DEF text, r
  <2> QED
    BY <1>4, <2>1, <2>2, <2>3 DEF digits
<1>5. CASE val # 0
  <2> DEFINE first == CHOOSE k \in 1 .. n : sub[k] <= val /\ \A j \in 1 .. k - 1 : val < sub[j]
             step(f) == [k \in 1 .. n |-> IF k = 1 THEN val ELSE f[k - 1] % sub[k - 1]]
             left == CHOOSE f : f = step(f)
             digit == [k \in 1 .. n |-> (val % (base * sub[k])) \div sub[k]]
             m == n - first + 1
  <2>1. \A k \in 1 .. n : k # 1 => k - 1 \in 1 .. n /\ sub[k - 1] = base * sub[k]
    BY <1>1 DEF Scale
  <2>2. sub[n] = 1 /\ val < base * sub[1] /\ base * sub[1] \in Nat
    <3>1. base * sub[1] \in Nat
      BY <1>1
    <3> QED
      BY <3>1 DEF Scale
  <2>3. first \in 1 .. n /\ sub[first] <= val /\ \A j \in 1 .. first - 1 : val < sub[j]
    <3> DEFINE T == {k \in 1 .. n : sub[k] <= val}
    <3>1. T \subseteq Nat /\ n \in T
      BY <1>1, <1>5, <2>2
    <3> HIDE DEF T
    <3>2. PICK x \in T : \A y \in T : x <= y
      BY <3>1, LeastOf
    <3>3. x \in 1 .. n /\ sub[x] <= val
      BY <3>2 DEF T
    <3>4. ASSUME NEW j \in 1 .. x - 1 PROVE val < sub[j]
      <4>1. j \in 1 .. n /\ ~(x <= j)
        BY <1>1, <3>3
      <4>2. ~(sub[j] <= val)
        BY <3>2, <4>1 DEF T
      <4> QED
        BY <1>1, <4>1, <4>2
    <3> QED
      BY <3>3, <3>4
  <2>4. digits = [k \in 1 .. m |-> str[left[first + k - 1] \div sub[first + k - 1] + 1]]
    BY <1>5, Zenon DEF valconv
  <2>5. \A k \in 1 .. n :
            /\ base * sub[k] \in Nat \ {0}
            /\ (val % (base * sub[k])) % sub[k] = val % sub[k]
            /\ digit[k] \in 0 .. base - 1
            /\ val \div sub[k] = (val \div (base * sub[k])) * base + digit[k]
    <3>1. ASSUME NEW k \in 1 .. n, NEW p \in Nat \ {0}, p = sub[k]
          PROVE  /\ base * p \in Nat \ {0}
                 /\ (val % (base * p)) % p = val % p
                 /\ (val % (base * p)) \div p \in 0 .. base - 1
                 /\ val \div p = (val \div (base * p)) * base + ((val % (base * p)) \div p)
      BY <1>1, DigitsAre, ZenonT(40)
    <3> QED
      BY <1>1, <3>1
  <2> HIDE DEF first, left
  <2>6. \A k \in 1 .. n : left[k] = val % (base * sub[k])
    <3> DEFINE h == [k \in 1 .. n |-> val % (base * sub[k])]
               T == {k \in 1 .. n : left[k] # h[k]}
    <3>1. val % (base * sub[1]) = val
      <4>1. PICK big \in Nat \ {0} : big = base * sub[1]
        BY <1>1, <2>5
      <4>2. val < big
        BY <2>2, <4>1
      <4> QED
        BY <1>1, <4>1, <4>2, DivideSmall
    <3>2. \A k \in 1 .. n : h[k] = IF k = 1 THEN val ELSE h[k - 1] % sub[k - 1]
      <4>1. ASSUME NEW k \in 1 .. n, k # 1 PROVE h[k] = h[k - 1] % sub[k - 1]
        <5>1. h[k - 1] = val % (base * sub[k - 1]) /\ k - 1 \in 1 .. n
          BY <2>1, <4>1
        <5>2. h[k - 1] % sub[k - 1] = val % sub[k - 1]
          BY <2>5, <5>1
        <5> QED
          BY <2>1, <4>1, <5>2
      <4>2. h[1] = val
        BY <1>1, <3>1
      <4> QED
        BY <4>1, <4>2
    <3>3. h = step(h)
      <4>1. h = [k \in 1 .. n |-> h[k]]
        OBVIOUS
      <4> HIDE DEF h
      <4> QED
        BY <3>2, <4>1
    <3>4. left = step(left)
      BY <3>3 DEF left
    <3>5. \A k \in 1 .. n : left[k] = IF k = 1 THEN val ELSE left[k - 1] % sub[k - 1]
      BY <3>4
    <3> HIDE DEF h
    <3>6. ASSUME T # {} PROVE FALSE
      <4>1. PICK x \in T : \A y \in T : x <= y
        <5>1. T \subseteq Nat
          OBVIOUS
        <5> HIDE DEF T
        <5> QED
          BY <3>6, <5>1, LeastOf
      <4>2. x \in 1 .. n /\ left[x] # h[x]
        OBVIOUS
      <4>3. CASE x = 1
        BY <3>2, <3>5, <4>2, <4>3
      <4>4. CASE x # 1
        <5>1. x - 1 \in 1 .. n /\ ~(x <= x - 1)
          BY <1>1, <4>2, <4>4
        <5>2. left[x - 1] = h[x - 1]
          BY <4>1, <5>1
        <5> QED
          BY <3>2, <3>5, <4>2, <4>4, <5>2
      <4> QED
        BY <4>3, <4>4
    <3> QED
      BY <3>6 DEF h
  <2> HIDE DEF digits, left
  <2>7. /\ m \in Nat \ {0}
        /\ \A k \in 1 .. m : first + k - 1 \in 1 .. n
        /\ digits = [k \in 1 .. m |-> str[digit[first + k - 1] + 1]]
    <3>1. m \in Nat \ {0} /\ \A k \in 1 .. m : first + k - 1 \in 1 .. n
      BY <1>1, <2>3
    <3>2. \A k \in 1 .. m : left[first + k - 1] \div sub[first + k - 1] + 1
                              = digit[first + k - 1] + 1
      BY <2>6, <3>1
    <3> QED
      BY <2>4, <3>1, <3>2
  <2>8. val \div sub[first] = digit[first] /\ digit[first] # 0
    <3>1. PICK p \in Nat \ {0}, big \in Nat \ {0} :
              p = sub[first] /\ big = base * sub[first] /\ val < big /\ p <= val
      <4>1. CASE first = 1
        BY <1>1, <2>2, <2>3, <2>5, <4>1
      <4>2. CASE first # 1
        <5>1. first - 1 \in 1 .. first - 1
          BY <1>1, <2>3, <4>2
        <5> QED
          BY <1>1, <2>1, <2>3, <2>5, <4>2, <5>1
      <4> QED
        BY <4>1, <4>2
    <3>3. val \div big = 0
      BY <1>1, <3>1, DivideSmall
    <3>4. val \div p = 0 * base + digit[first]
      BY <2>3, <2>5, <3>1, <3>3
    <3>5. digit[first] \in Nat
      BY <2>3, <2>5
    <3>6. val \div p # 0
      <4>1. val = p * (val \div p) + (val % p) /\ val % p \in 0 .. p - 1
        BY <1>1, DivideIs
      <4>2. p * 0 = 0
        OBVIOUS
      <4> QED
        BY <3>1, <4>1, <4>2
    <3> HIDE DEF digit
    <3>7. 0 * base + digit[first] = digit[first]
      BY <3>5
    <3> QED
      BY <3>1, <3>4, <3>6, <3>7
  <2> HIDE DEF digit, m
  <2>16. \A k \in 1 .. m : first + k - 1 \in 1 .. n /\ digit[first + k - 1] \in 0 .. base - 1
    <3>1. \A k \in 1 .. n : digit[k] \in 0 .. base - 1
      BY <2>5
    <3> QED
      BY <2>7, <3>1
  <2>17. m \in Nat \ {0}
    BY <2>7
  <2>9. \A k \in 1 .. m :
            /\ digit[first + k - 1] + 1 \in 1 .. base /\ digit[first + k - 1] + 1 \in 1 .. 16
            /\ digits[k] = str[digit[first + k - 1] + 1]
            /\ ValueOf(digits[k]) = digit[first + k - 1]
    <3>1. ASSUME NEW k \in 1 .. m
          PROVE  LET d == digit[first + k - 1]
                 IN  /\ d + 1 \in 1 .. base /\ d + 1 \in 1 .. 16
                     /\ digits[k] = str[d + 1] /\ ValueOf(digits[k]) = d
      <4>1. PICK d \in 0 .. base - 1 : d = digit[first + k - 1]
        BY <2>16
      <4>2. digits[k] = str[d + 1]
        BY <2>7, <4>1
      <4>3. d + 1 \in 1 .. base /\ d + 1 \in 1 .. 16 /\ d + 1 - 1 = d
        OBVIOUS
      <4> QED
        BY <1>2, <4>1, <4>2, <4>3
    <3> QED
      BY <3>1
  <2>10. digits \in Seq(N) /\ Len(digits) = m
    <3>1. \A k \in 1 .. m : str[digit[first + k - 1] + 1] \in N
      BY <2>9 DEF Numerals
    <3> QED
      BY <2>7, <3>1
  <2>11. digits[1] # "0" /\ ValueOf(digits[1]) = val \div sub[first]
    <3>1. 1 \in 1 .. m /\ first + 1 - 1 = first
      BY <2>3, <2>7
    <3>2. digit[first] + 1 \in 1 .. 16 /\ digits[1] = str[digit[first] + 1]
          /\ ValueOf(digits[1]) = digit[first] /\ digit[first] \in 0 .. base - 1
      <4>1. digit[first + 1 - 1] = digit[first]
        BY <3>1
      <4> QED
        BY <2>9, <2>16, <3>1, <4>1
    <3>3. digit[first] + 1 # 1
      BY <2>8, <3>2
    <3> QED
      BY <1>2, <2>8, <3>2, <3>3
  <2>12. \A k \in 1 .. m : k # 1 =>
             /\ k - 1 \in 1 .. m
             /\ val \div sub[first + k - 1]
                  = (val \div sub[first + (k - 1) - 1]) * base + ValueOf(digits[k])
    <3>1. ASSUME NEW k \in 1 .. m, k # 1
          PROVE  /\ k - 1 \in 1 .. m
                 /\ val \div sub[first + k - 1]
                      = (val \div sub[first + (k - 1) - 1]) * base + ValueOf(digits[k])
      <4> DEFINE x == first + k - 1
      <4>1. x \in 1 .. n /\ x # 1 /\ first + (k - 1) - 1 = x - 1 /\ k - 1 \in 1 .. m
        <5>1. first \in Nat /\ first >= 1 /\ k \in Nat /\ k > 1 /\ k <= m
          BY <2>3, <2>17, <3>1
        <5>2. x \in 1 .. n
          BY <2>16
        <5> QED
          BY <2>17, <5>1, <5>2
      <4>2. sub[x - 1] = base * sub[x]
        BY <2>1, <4>1
      <4>3. val \div sub[x] = (val \div (base * sub[x])) * base + digit[x]
        BY <2>5, <4>1
      <4> QED
        BY <2>9, <4>1, <4>2, <4>3
    <3> QED
      BY <3>1
  <2>13. val \div sub[first + m - 1] = val
    <3>1. first + m - 1 = n
      BY <1>1, <2>3 DEF m
    <3>2. val \div 1 = val
      OBVIOUS
    <3> QED
      BY <2>2, <3>1, <3>2
  <2>14. ASSUME NEW z \in Int PROVE Number(Repeat("0", z) \o digits, base) = val
    <3> DEFINE r == Repeat("0", z)
               text == r \o digits
               q(k) == val \div sub[first + k - 1]
               h == [k \in 0 .. Len(text) |-> IF k <= Len(r) THEN 0 ELSE q(k - Len(r))]
    <3>1. r \in Seq(N) /\ Len(r) \in Nat /\ \A k \in 1 .. Len(r) : r[k] = "0"
      <4> HIDE DEF N, digits
      <4>1. /\ r \in Seq(N) /\ Len(r) = IF z > 0 THEN z ELSE 0
            /\ \A k \in 1 .. Len(r) : r[k] = "0"
        BY <1>3, RepeatIs
      <4> HIDE DEF r
      <4> QED
        BY <4>1
    <3> HIDE DEF r
    <3>2. /\ text \in Seq(N) /\ Len(text) = Len(r) + m
          /\ \A k \in 1 .. Len(text) : text[k] = IF k <= Len(r) THEN "0" ELSE digits[k - Len(r)]
      <4> HIDE DEF N
      <4>1. /\ text \in Seq(N) /\ Len(text) = Len(r) + m
            /\ \A k \in 1 .. Len(r) + m : text[k] = IF k <= Len(r) THEN r[k] ELSE digits[k - Len(r)]
        BY <2>10, <3>1, ConcatProperties
      <4> HIDE DEF text
      <4>2. ASSUME NEW k \in 1 .. Len(text)
            PROVE  text[k] = IF k <= Len(r) THEN "0" ELSE digits[k - Len(r)]
        <5>1. k \in 1 .. Len(r) + m /\ (k <= Len(r) => k \in 1 .. Len(r))
          BY <2>7, <3>1, <4>1
        <5> QED
          BY <3>1, <4>1, <5>1
      <4> QED
        BY <4>1, <4>2
    <3> HIDE DEF text
    <3>3. /\ q(1) = ValueOf(digits[1]) /\ q(m) = val
          /\ \A k \in 1 .. m : k # 1 => k - 1 \in 1 .. m
                                        /\ q(k) = q(k - 1) * base + ValueOf(digits[k])
          /\ \A k \in 1 .. m : ValueOf(digits[k]) \in Nat
      <4>1. first + 1 - 1 = first
        BY <2>3
      <4>2. \A k \in 1 .. m : ValueOf(digits[k]) \in Nat
        BY <2>5, <2>7, <2>9
      <4> QED
        BY <2>11, <2>12, <2>13, <4>1, <4>2, SMTT(40)
    <3> HIDE DEF q
    <3>4. Reads(h, text, base)
      <4>1. h = [k \in 0 .. Len(text) |-> h[k]]
        OBVIOUS
      <4>2. ASSUME NEW k \in 0 .. Len(text)
            PROVE  h[k] = IF k = 0 THEN 0 ELSE h[k - 1] * base + ValueOf(text[k])
        <5>1. k # 0 => k - 1 \in 0 .. Len(text) /\ k \in 1 .. Len(text)
          BY <2>7, <3>1, <3>2
        <5>2. CASE k = 0
          BY <3>1, <5>2
        <5>3. CASE k # 0 /\ k <= Len(r)
          <6>1. k \in 1 .. Len(text) /\ k <= Len(r) /\ k - 1 <= Len(r) /\ k - 1 \in 0 .. Len(text)
            BY <3>1, <5>1, <5>3
          <6>2. h[k - 1] = 0 /\ h[k] = 0
            BY <6>1
          <6>3. text[k] = "0" /\ ValueOf(text[k]) = 0
            <7>1. text[k] = "0"
              BY <3>2, <6>1
            <7> QED
              BY <1>6, <7>1, Zenon
          <6>4. 0 * base + 0 = 0
            OBVIOUS
          <6> QED
            BY <5>3, <6>2, <6>3, <6>4
        <5>4. CASE k = Len(r) + 1
          <6>1. k # 0 /\ ~(k <= Len(r)) /\ k - 1 <= Len(r) /\ k - Len(r) = 1 /\ 1 \in 1 .. m
            BY <2>7, <3>1, <5>4
          <6>2. h[k - 1] = 0 /\ h[k] = q(1) /\ text[k] = digits[1]
            BY <3>2, <5>1, <6>1
          <6>3. 0 * base + ValueOf(digits[1]) = ValueOf(digits[1])
            BY <3>3, <6>1
          <6> QED
            BY <3>3, <6>1, <6>2, <6>3
        <5>5. CASE k > Len(r) + 1
          <6> DEFINE j == k - Len(r)
          <6>1. k # 0 /\ ~(k <= Len(r)) /\ ~(k - 1 <= Len(r)) /\ k - 1 - Len(r) = j - 1
                /\ j \in 1 .. m /\ j # 1
            BY <2>7, <3>1, <3>2, <5>5
          <6>2. h[k - 1] = q(j - 1) /\ h[k] = q(j) /\ text[k] = digits[j]
            BY <3>2, <5>1, <6>1
          <6> QED
            BY <3>3, <6>1, <6>2
        <5> QED
          BY <3>1, <5>2, <5>3, <5>4, <5>5
      <4> HIDE DEF h
      <4> QED
        BY <4>1, <4>2 DEF Reads
    <3>5. h[Len(text)] = val
      <4>1. Len(text) \in 0 .. Len(text) /\ ~(Len(text) <= Len(r)) /\ Len(text) - Len(r) = m
        BY <2>7, <3>1, <3>2
      <4> QED
        BY <3>3, <4>1
    <3> HIDE DEF h
    <3>6. Number(text, base) = val
      BY <3>2, <3>4, <3>5, NumberIs
    <3> QED
      BY <3>6 DEF text, r
  <2>15. Len(digits) >= 1
    BY <2>7, <2>10
  <2> QED
    BY <1>5, <2>10, <2>11, <2>14, <2>15 DEF digits
<1> QED
  BY <1>4, <1>5

(* The two parts of a sequence.                                            *)
LEMMA Parts ==
    ASSUME NEW S, NEW s \in Seq(S), NEW t \in Seq(S)
    PROVE  /\ s \o t \in Seq(S) /\ Len(s \o t) = Len(s) + Len(t)
           /\ Len(s) \in Nat /\ Len(t) \in Nat
           /\ SubSeq(s \o t, 1, Len(s)) = s
           /\ SubSeq(s \o t, Len(s) + 1, Len(s) + Len(t)) = t
           /\ SubSeq(s \o t, 1, Len(s) + Len(t)) = s \o t
<1>1. s \o t \in Seq(S) /\ Len(s \o t) = Len(s) + Len(t)
      /\ Len(s) \in Nat /\ Len(t) \in Nat
  BY LenProperties, ConcatProperties
<1>2. SubSeq(s \o t, 1, Len(s)) = s
  BY LenProperties
<1>3. SubSeq(s \o t, Len(s) + 1, Len(s) + Len(t)) = t
  BY LenProperties
<1>4. SubSeq(s \o t, 1, Len(s) + Len(t)) = s \o t
  BY <1>1, SubSeqFull
<1> QED
  BY <1>1, <1>2, <1>3, <1>4

(* The digits of each base are the characters C gives it.                  *)
LEMMA NumeralsCount ==
    ASSUME NEW str \in {Small, Capital}, NEW base \in 1 .. 16
    PROVE  Cardinality(Numerals(str, base)) = base
<1> DEFINE f == [k \in 1 .. base |-> str[k]]
<1>1. \A j, k \in 1 .. base : f[j] = f[k] => j = k
  <2>1. ASSUME NEW j \in 1 .. base, NEW k \in 1 .. base, f[j] = f[k]
        PROVE  j = k
    <3>1. j \in 1 .. 16 /\ k \in 1 .. 16 /\ str[j] = str[k]
      BY <2>1
    <3>2. ValueOf(str[j]) = j - 1 /\ ValueOf(str[k]) = k - 1
      BY <3>1, NumeralFacts
    <3> QED
      BY <3>1, <3>2
  <2> QED
    BY <2>1
<1>2. f \in [1 .. base -> Numerals(str, base)] /\ DOMAIN f = 1 .. base
  BY DEF Numerals
<1>3. \A c \in Numerals(str, base) : \E k \in 1 .. base : f[k] = c
  BY DEF Numerals
<1> HIDE DEF f
<1>4. f \in Surjection(1 .. base, Numerals(str, base))
  BY <1>2, <1>3 DEF Surjection
<1>5. f \in Injection(1 .. base, Numerals(str, base))
  BY <1>1, <1>2 DEF Injection, IsInjective
<1>6. IsFiniteSet(1 .. base) /\ Cardinality(1 .. base) = base
  <2>1. base \in Int /\ 1 \in Int /\ ~(1 > base) /\ base - 1 + 1 = base
    OBVIOUS
  <2> QED
    BY <2>1, FS_Interval
<1> QED
  BY <1>4, <1>5, <1>6, FS_Surjection

LEMMA AlphabetIs ==
    /\ Numerals(Small, 10) = Digits /\ Numerals(Small, 8) = Digits \ {"8", "9"}
    /\ Numerals(Small, 16) = Range(Small) /\ Numerals(Capital, 16) = Range(Capital)
    /\ Cardinality(Digits) = 10 /\ Cardinality(Digits \ {"8", "9"}) = 8
    /\ Cardinality(Range(Small)) = 16 /\ Cardinality(Range(Capital)) = 16
<1>1. Numerals(Small, 10) = Digits
  <2>1. \A k \in 1 .. 10 : Small[k] \in Digits
    BY DEF Small, Digits
  <2>2. \A c \in Digits : \E k \in 1 .. 10 : c = Small[k]
    BY DEF Small, Digits
  <2> QED
    BY <2>1, <2>2 DEF Numerals
<1>2. Numerals(Small, 8) = Digits \ {"8", "9"}
  <2>1. \A k \in 1 .. 8 : Small[k] \in Digits \ {"8", "9"}
    BY DEF Small, Digits
  <2>2. \A c \in Digits \ {"8", "9"} : \E k \in 1 .. 8 : c = Small[k]
    BY DEF Small, Digits
  <2> QED
    BY <2>1, <2>2 DEF Numerals
<1>3. Numerals(Small, 16) = Range(Small) /\ Numerals(Capital, 16) = Range(Capital)
  <2>1. DOMAIN Small = 1 .. 16 /\ DOMAIN Capital = 1 .. 16
    BY DEF Small, Capital
  <2> QED
    BY <2>1 DEF Numerals, Range
<1> QED
  BY <1>1, <1>2, <1>3, NumeralsCount

(* Where a text is in its field.                                           *)
Placed(text, core, f, spaces, begin) ==
    /\ spaces = IF f.width > Len(core) THEN f.width - Len(core) ELSE 0
    /\ Len(text) = spaces + Len(core)
    /\ begin = IF "-" \in f.flags THEN 1 ELSE spaces + 1
    /\ SubSeq(text, begin, begin + Len(core) - 1) = core
    /\ AllSpaces(SubSeq(text, 1, begin - 1))
    /\ AllSpaces(SubSeq(text, begin + Len(core), Len(text)))

LEMMA FieldIs ==
    ASSUME NEW S, Space \in S, NEW core \in Seq(S), NEW f, f.width \in Nat
    PROVE  /\ Field(core, f) \in Seq(S)
           /\ \E spaces \in Nat, begin \in Nat : Placed(Field(core, f), core, f, spaces, begin)
<1> DEFINE r == Repeat(Space, f.width - Len(core))
           n == Len(core)
           m == Len(r)
<1>1. n \in Nat
  BY LenProperties
<1>2. /\ r \in Seq(S) /\ m = IF f.width > n THEN f.width - n ELSE 0
      /\ \A k \in 1 .. m : r[k] = Space
  <2>1. f.width - n \in Int /\ (f.width - n > 0 <=> f.width > n)
    BY <1>1
  <2> QED
    BY <2>1, RepeatIs
<1>8. r \in Seq(S)
  BY <1>2
<1>3. Field(core, f) = IF "-" \in f.flags THEN core \o r ELSE r \o core
  BY DEF Field
<1> HIDE DEF r
<1>4. m \in Nat
  BY <1>1, <1>2
<1>5. AllSpaces(r) /\ AllSpaces(<<>>)
  BY <1>2, LenProperties DEF AllSpaces, Range
<1>6. CASE "-" \in f.flags
  <2> DEFINE text == core \o r
  <2>1. text \in Seq(S) /\ Len(text) = n + m
    BY <1>8, Parts
  <2>2. SubSeq(text, 1, n) = core
    BY <1>8, Parts
  <2>3. SubSeq(text, n + 1, n + m) = r
    BY <1>8, Parts
  <2>4. SubSeq(text, 1, 0) = <<>>
    BY <1>1, <1>4
  <2> HIDE DEF text
  <2>5. 1 + n - 1 = n /\ 1 - 1 = 0 /\ 1 + n = n + 1 /\ n + m = m + n
    BY <1>1, <1>4
  <2>6. /\ text \in Seq(S) /\ Len(text) = m + n
        /\ SubSeq(text, 1, 1 + n - 1) = core
        /\ AllSpaces(SubSeq(text, 1, 1 - 1))
        /\ AllSpaces(SubSeq(text, 1 + n, m + n))
    <3>1. SubSeq(text, 1, 1 + n - 1) = core
      BY <1>1, <2>2, <2>5
    <3>2. SubSeq(text, 1, 1 - 1) = <<>>
      BY <2>4, <2>5
    <3>3. SubSeq(text, 1 + n, m + n) = r
      BY <1>1, <1>4, <2>3, <2>5
    <3> QED
      BY <1>5, <2>1, <2>5, <3>1, <3>2, <3>3
  <2>7. Field(core, f) = text
    BY <1>3, <1>6 DEF text
  <2> HIDE DEF m, n
  <2>8. /\ m = IF f.width > n THEN f.width - n ELSE 0
        /\ Len(text) = m + n
        /\ 1 = IF "-" \in f.flags THEN 1 ELSE m + 1
        /\ m \in Nat /\ 1 \in Nat
    BY <1>2, <1>4, <1>6, <2>6
  <2> QED
    BY <2>6, <2>7, <2>8 DEF n, Placed
<1>7. CASE "-" \notin f.flags
  <2> DEFINE text == r \o core
  <2>1. text \in Seq(S) /\ Len(text) = m + n
    BY <1>8, Parts
  <2>2. SubSeq(text, m + 1, m + n) = core
    BY <1>8, Parts
  <2>3. SubSeq(text, 1, m) = r
    BY <1>8, Parts
  <2>4. SubSeq(text, m + n + 1, m + n) = <<>>
    BY <1>1, <1>4, <2>1, SubSeqEmpty
  <2> HIDE DEF text
  <2>5. m + 1 + n - 1 = m + n /\ m + 1 - 1 = m /\ m + 1 + n = m + n + 1
    BY <1>1, <1>4
  <2> DEFINE begin == m + 1
  <2>6. /\ text \in Seq(S) /\ Len(text) = m + n
        /\ SubSeq(text, begin, begin + n - 1) = core
        /\ AllSpaces(SubSeq(text, 1, begin - 1))
        /\ AllSpaces(SubSeq(text, begin + n, m + n))
    <3>1. SubSeq(text, begin, begin + n - 1) = core
      BY <1>1, <1>4, <2>2, <2>5
    <3>2. SubSeq(text, 1, begin - 1) = r
      BY <1>1, <1>4, <2>3, <2>5
    <3>3. SubSeq(text, begin + n, m + n) = <<>>
      BY <1>1, <1>4, <2>4, <2>5
    <3> QED
      BY <1>5, <2>1, <3>1, <3>2, <3>3
  <2>7. Field(core, f) = text
    BY <1>3, <1>7 DEF text
  <2> HIDE DEF m, n
  <2>8. /\ m = IF f.width > n THEN f.width - n ELSE 0
        /\ Len(text) = m + n
        /\ begin = IF "-" \in f.flags THEN 1 ELSE m + 1
        /\ m \in Nat /\ begin \in Nat
    BY <1>2, <1>4, <1>7, <2>6
  <2> HIDE DEF begin
  <2> QED
    BY <2>6, <2>7, <2>8 DEF n, Placed
<1> QED
  BY <1>6, <1>7

(* All characters of formats and of what is printed for them.              *)
Characters ==
    Flags \cup Range(Small) \cup Range(Capital) \cup Range(Null) \cup Range(FormatError)
    \cup StringChars
    \cup {"%", ".", "h", "l", "j", "z", "t", "d", "i", "u", "o", "x", "X", "p", "s",
          "q", "c", "a"}

LEMMA CharsAssociative ==
    \A s, t, u \in Seq(Characters) : (s \o t) \o u = s \o (t \o u)
BY ConcatAssociative

LEMMA CharsConcat == \A s, t \in Seq(Characters) : Len(s \o t) = Len(s) + Len(t)
BY ConcatProperties

(* The directives of PrintfAssumption, and what parse_format makes of one. *)
AnyDirective ==
    [flags : SUBSET Flags, width : 0 .. 99, precision : -1 .. 99, length : Lengths,
     conversion : {"d", "i", "u", "o", "x", "X", "p", "s"}]

Follows(f, d) ==
    /\ f.flags = d.flags /\ f.width = d.width /\ f.conversion = d.conversion
    /\ f.has_precision <=> d.precision >= 0
    /\ f.has_precision => f.precision = d.precision

LEMMA DirectiveTypes ==
    ASSUME NEW d \in AnyDirective
    PROVE  /\ d.width \in Nat /\ d.width < 100 /\ d.precision \in Int /\ d.precision < 100
           /\ d.precision >= -1 /\ (d.precision >= 0 => d.precision \in 0 .. 99) /\ d.flags \subseteq Flags /\ d.length \in Lengths
           /\ d.conversion \in {"d", "i", "u", "o", "x", "X", "p", "s"}
<1>1. d.width \in 0 .. 99
  BY DEF AnyDirective
<1>2. d.precision \in -1 .. 99
  BY DEF AnyDirective
<1>3. /\ d.flags \subseteq Flags /\ d.length \in Lengths
      /\ d.conversion \in {"d", "i", "u", "o", "x", "X", "p", "s"}
  BY DEF AnyDirective
<1> QED
  BY <1>1, <1>2, <1>3

(* The parts of StandsFor.                                                 *)
Lead(d, x) ==
    CASE d.conversion \in {"d", "i"} ->
            IF x < 0 THEN <<"-">>
            ELSE IF "+" \in d.flags THEN <<"+">>
            ELSE IF Space \in d.flags THEN <<Space>> ELSE <<>>
      [] d.conversion \in {"x", "X"} ->
            IF "#" \in d.flags /\ x # 0 THEN <<"0", d.conversion>> ELSE <<>>
      [] d.conversion = "p" -> IF x # 0 THEN <<"0", "x">> ELSE <<>>
      [] d.conversion \in {"u", "o"} -> <<>>

Alphabet(d) ==
    CASE d.conversion \in {"d", "i", "u"} -> Digits
      [] d.conversion = "o" -> Digits \ {"8", "9"}
      [] d.conversion \in {"x", "p"} -> Range(Small)
      [] d.conversion = "X" -> Range(Capital)

ZeroPadded(d) == "0" \in d.flags /\ "-" \notin d.flags /\ d.precision < 0
OctalZero(d) == d.conversion = "o" /\ "#" \in d.flags

InField(text, d, x, begin, end) ==
    LET abs == IF x < 0 THEN -x ELSE x
        base == IF Cardinality(Alphabet(d)) > 10 THEN 16 ELSE Cardinality(Alphabet(d))
        core == SubSeq(text, begin, end)
        digits == SubSeq(core, Len(Lead(d, x)) + 1, Len(core))
    IN  /\ AllSpaces(SubSeq(text, 1, begin - 1))
        /\ AllSpaces(SubSeq(text, end + 1, Len(text)))
        /\ IF "-" \in d.flags THEN begin = 1 ELSE end = Len(text)
        /\ ZeroPadded(d) => begin = 1
        /\ IsPrefix(Lead(d, x), core)
        /\ digits # <<>> /\ Range(digits) \subseteq Alphabet(d)
        /\ Number(digits, base) = abs
        /\ Len(digits) >= d.precision
        /\ OctalZero(d) => Head(digits) = "0"
        /\ Head(digits) = "0" /\ Len(digits) > 1 =>
               \/ Len(digits) <= d.precision
               \/ ZeroPadded(d) /\ Len(text) = d.width
               \/ OctalZero(d) /\ digits[2] # "0"
        /\ Len(text) = IF Len(core) > d.width THEN Len(core) ELSE d.width

LEMMA StandsParts ==
    ASSUME NEW text, NEW d, NEW x,
           NEW begin \in 1 .. Len(text), NEW end \in 1 .. Len(text),
           InField(text, d, x, begin, end)
    PROVE  StandsFor(text, d, x)
  BY Zenon DEF StandsFor, InField, Lead, Alphabet, ZeroPadded, OctalZero

(* A directive's base and digits.                                          *)
StrOf(d) == IF d.conversion = "X" THEN Capital ELSE Small

LEMMA BaseIs ==
    ASSUME NEW d \in AnyDirective, d.conversion # "s"
    PROVE  /\ Base(d) \in 2 .. 16 /\ StrOf(d) \in {Small, Capital}
           /\ Numerals(StrOf(d), Base(d)) = Alphabet(d)
           /\ Base(d) = IF Cardinality(Alphabet(d)) > 10 THEN 16
                        ELSE Cardinality(Alphabet(d))
           /\ Alphabet(d) \subseteq Characters
<1>1. d.conversion \in {"d", "i", "u", "o", "x", "X", "p"}
  BY DEF AnyDirective
<1>2. CASE d.conversion \in {"d", "i", "u"}
  <2>1. Base(d) = 10 /\ StrOf(d) = Small /\ Alphabet(d) = Digits
    BY <1>2 DEF Base, StrOf, Alphabet
  <2>2. Digits \subseteq Range(Small)
    BY AlphabetIs DEF Numerals
  <2> QED
    BY <2>1, <2>2, AlphabetIs DEF Characters
<1>3. CASE d.conversion = "o"
  <2>1. Base(d) = 8 /\ StrOf(d) = Small /\ Alphabet(d) = Digits \ {"8", "9"}
    BY <1>3 DEF Base, StrOf, Alphabet
  <2>2. Digits \ {"8", "9"} \subseteq Range(Small)
    BY AlphabetIs DEF Numerals
  <2> QED
    BY <2>1, <2>2, AlphabetIs DEF Characters
<1>4. CASE d.conversion \in {"x", "p"}
  <2>1. Base(d) = 16 /\ StrOf(d) = Small /\ Alphabet(d) = Range(Small)
    BY <1>4 DEF Base, StrOf, Alphabet
  <2> QED
    BY <2>1, AlphabetIs DEF Characters
<1>5. CASE d.conversion = "X"
  <2>1. Base(d) = 16 /\ StrOf(d) = Capital /\ Alphabet(d) = Range(Capital)
    BY <1>5 DEF Base, StrOf, Alphabet
  <2> QED
    BY <2>1, AlphabetIs DEF Characters
<1> QED
  BY <1>1, <1>2, <1>3, <1>4, <1>5

LEMMA DigitsOf ==
    ASSUME NEW d \in AnyDirective, d.conversion # "s",
           NEW val \in 0 .. Power(2, LongBits) - 1,
           NEW digits, digits = valconv(val, Powers(Base(d)), StrOf(d))
    PROVE  /\ digits \in Seq(Alphabet(d)) /\ Len(digits) \in Nat /\ Len(digits) >= 1
           /\ val = 0 => digits = <<"0">>
           /\ val # 0 => digits[1] # "0"
           /\ \A z \in Int : Number(Repeat("0", z) \o digits, Base(d)) = val
           /\ "0" \in Alphabet(d)
<1>1. /\ Base(d) \in 2 .. 16 /\ StrOf(d) \in {Small, Capital}
      /\ Numerals(StrOf(d), Base(d)) = Alphabet(d)
  BY BaseIs
<1>2. Power(2, LongBits) \in Nat /\ Scale(Powers(Base(d)), Base(d), Power(2, LongBits))
  BY <1>1, PowersScale
<1>3. "0" \in Numerals(StrOf(d), Base(d))
  <2>1. StrOf(d)[1] = "0"
    BY <1>1, NumeralFacts
  <2> QED
    BY <1>1, <2>1 DEF Numerals
<1>4. PICK base \in 2 .. 16 : base = Base(d)
  BY <1>1
<1>5. PICK bound \in Nat : bound = Power(2, LongBits)
  BY <1>2
<1>6. PICK str \in {Small, Capital} : str = StrOf(d)
  BY <1>1
<1>7. PICK sub : sub = Powers(Base(d))
  OBVIOUS
<1>8. Scale(sub, base, bound) /\ val \in 0 .. bound - 1
  BY <1>2, <1>4, <1>5, <1>7
<1>9. /\ valconv(val, sub, str) \in Seq(Numerals(str, base))
      /\ Len(valconv(val, sub, str)) >= 1
      /\ val = 0 => valconv(val, sub, str) = <<"0">>
      /\ val # 0 => valconv(val, sub, str)[1] # "0"
      /\ \A z \in Int : Number(Repeat("0", z) \o valconv(val, sub, str), base) = val
  BY <1>8, ValconvIs, SMTT(30)
<1>10. digits = valconv(val, sub, str) /\ Numerals(str, base) = Alphabet(d)
  BY <1>1, <1>4, <1>6, <1>7
<1> QED
  BY <1>3, <1>1, <1>4, <1>9, <1>10, LenProperties

(* z zeros in front of a number's digits are what the directive asks for.  *)
Asked(d, val, z, len, all) ==
    /\ d.precision >= 0 => z + len >= d.precision
    /\ OctalZero(d) /\ val # 0 => z > 0
    /\ z > 0 => \/ z + len <= d.precision
                \/ ZeroPadded(d) /\ all = d.width
                \/ OctalZero(d) /\ z = 1 /\ val # 0
    /\ ZeroPadded(d) => all >= d.width

(* A text in its field, as StandsFor looks at it.                          *)
InSpaces(text, core, d, begin, end) ==
    /\ SubSeq(text, begin, end) = core
    /\ AllSpaces(SubSeq(text, 1, begin - 1))
    /\ AllSpaces(SubSeq(text, end + 1, Len(text)))
    /\ IF "-" \in d.flags THEN begin = 1 ELSE end = Len(text)
    /\ Len(text) = IF Len(core) > d.width THEN Len(core) ELSE d.width
    /\ Len(core) >= d.width => begin = 1

LEMMA InFieldIs ==
    ASSUME NEW d \in AnyDirective, NEW f, Follows(f, d), NEW core \in Seq(Characters)
    PROVE  /\ Field(core, f) \in Seq(Characters)
           /\ Len(core) >= 1 =>
                  \E begin \in 1 .. Len(Field(core, f)), end \in 1 .. Len(Field(core, f)) :
                      InSpaces(Field(core, f), core, d, begin, end)
<1>1. Space \in Characters
  BY DEF Characters, Flags
<1>2. d.width \in Nat /\ f.width = d.width /\ f.flags = d.flags
  BY DirectiveTypes DEF Follows
<1>3. /\ Field(core, f) \in Seq(Characters)
      /\ \E spaces \in Nat, begin \in Nat : Placed(Field(core, f), core, f, spaces, begin)
  BY <1>1, <1>2, FieldIs
<1>4. PICK text \in Seq(Characters) : text = Field(core, f)
  BY <1>3
<1>5. PICK spaces \in Nat, begin \in Nat : Placed(text, core, f, spaces, begin)
  BY <1>3, <1>4
<1>6. PICK n \in Nat : n = Len(core)
  BY LenProperties
<1>7. PICK w \in Nat : w = d.width
  BY <1>2
<1>8. /\ spaces = IF w > n THEN w - n ELSE 0
      /\ Len(text) = spaces + n
      /\ begin = IF "-" \in d.flags THEN 1 ELSE spaces + 1
  BY <1>2, <1>5, <1>6, <1>7 DEF Placed
<1>9. /\ SubSeq(text, begin, begin + n - 1) = core
      /\ AllSpaces(SubSeq(text, 1, begin - 1))
      /\ AllSpaces(SubSeq(text, begin + n, Len(text)))
  BY <1>5, <1>6 DEF Placed
<1>10. PICK end \in Int : end = begin + n - 1
  OBVIOUS
<1>11. end + 1 = begin + n
  BY <1>10
<1>12. /\ IF "-" \in d.flags THEN begin = 1 ELSE end = Len(text)
       /\ Len(text) = IF n > w THEN n ELSE w
       /\ n >= w => begin = 1
  BY <1>8, <1>10
<1>13. InSpaces(text, core, d, begin, end)
  BY <1>6, <1>7, <1>9, <1>10, <1>11, <1>12 DEF InSpaces
<1>14. n >= 1 => begin \in 1 .. Len(text) /\ end \in 1 .. Len(text)
  BY <1>8, <1>10
<1> QED
  BY <1>3, <1>4, <1>6, <1>13, <1>14

IsAbs(val, x) == val = IF x < 0 THEN -x ELSE x

(* A number in its field, with such zeros in front of its digits.          *)
LEMMA StandsIf ==
    ASSUME NEW d \in AnyDirective, d.conversion # "s", NEW f, Follows(f, d),
           NEW val \in 0 .. Power(2, LongBits) - 1, NEW x, IsAbs(val, x),
           Lead(d, x) \in Seq(Characters), NEW z \in Nat,
           NEW digits, digits = valconv(val, Powers(Base(d)), StrOf(d)),
           NEW core, core = Lead(d, x) \o (Repeat("0", z) \o digits),
           Asked(d, val, z, Len(digits), Len(core))
    PROVE  /\ Field(core, f) \in Seq(Characters)
           /\ StandsFor(Field(core, f), d, x)
<1> DEFINE lead == Lead(d, x)
           r == Repeat("0", z)
           D == r \o digits
           text == Field(core, f)
           n == Len(core)
           A == Alphabet(d)
<1>1. /\ digits \in Seq(A) /\ Len(digits) >= 1
      /\ val = 0 => digits = <<"0">>
      /\ val # 0 => digits[1] # "0"
      /\ Number(D, Base(d)) = val
      /\ "0" \in A
  <2>1. /\ digits \in Seq(A) /\ Len(digits) >= 1
        /\ val = 0 => digits = <<"0">>
        /\ val # 0 => digits[1] # "0"
        /\ \A y \in Int : Number(Repeat("0", y) \o digits, Base(d)) = val
        /\ "0" \in A
    BY DigitsOf
  <2>2. z \in Int
    OBVIOUS
  <2> HIDE DEF A
  <2> QED
    BY <2>1, <2>2
<1>2. /\ A \subseteq Characters
      /\ Base(d) = IF Cardinality(A) > 10 THEN 16 ELSE Cardinality(A)
  BY BaseIs
<1>3. d.width \in Nat /\ d.precision \in Int
  BY DirectiveTypes
<1> HIDE DEF A
<1>4. /\ r \in Seq(A) /\ Len(r) = z /\ \A k \in 1 .. Len(r) : r[k] = "0"
  <2>1. /\ r \in Seq(A) /\ Len(r) = (IF z > 0 THEN z ELSE 0)
        /\ \A k \in 1 .. Len(r) : r[k] = "0"
    <3>1. z \in Int /\ "0" \in A
      BY <1>1
    <3> QED
      BY <3>1, RepeatIs
  <2> HIDE DEF r
  <2> QED
    BY <2>1
<1> HIDE DEF r
<1>5. /\ D \in Seq(A) /\ Len(D) = z + Len(digits) /\ Len(digits) \in Nat
      /\ \A k \in 1 .. z + Len(digits) : D[k] = IF k <= z THEN "0" ELSE digits[k - z]
  <2>1. /\ D \in Seq(A) /\ Len(D) = Len(r) + Len(digits) /\ Len(digits) \in Nat
        /\ \A k \in 1 .. Len(r) + Len(digits) : D[k] = IF k <= Len(r) THEN r[k] ELSE digits[k - Len(r)]
    <3>1. r \in Seq(A) /\ digits \in Seq(A)
      BY <1>1, <1>4
    <3> QED
      BY <3>1, ConcatProperties, LenProperties
  <2> HIDE DEF D
  <2> QED
    BY <1>4, <2>1
<1>6. Range(D) \subseteq A
  BY <1>5, RangeOfSeq
<1>7. D \in Seq(Characters) /\ lead \in Seq(Characters)
  BY <1>2, <1>5, SeqMonotonic
<1> HIDE DEF D, lead
<1>8. core = lead \o D
  BY DEF D, lead, r
<1>9. /\ core \in Seq(Characters) /\ n = Len(lead) + Len(D)
      /\ Len(lead) \in Nat /\ Len(D) \in Nat
      /\ SubSeq(core, 1, Len(lead)) = lead
      /\ SubSeq(core, Len(lead) + 1, n) = D
  <2>1. LET both == lead \o D
        IN  /\ both \in Seq(Characters) /\ Len(both) = Len(lead) + Len(D)
            /\ Len(lead) \in Nat /\ Len(D) \in Nat
            /\ SubSeq(both, 1, Len(lead)) = lead
            /\ SubSeq(both, Len(lead) + 1, Len(lead) + Len(D)) = D
    BY <1>7, Parts
  <2> QED
    BY <1>8, <2>1, Zenon
<1>10. IsPrefix(lead, core)
  <2>1. SubSeq(lead, 1, Len(lead)) = lead
    BY <1>7, SubSeqFull
  <2>2. Len(lead) <= Len(core)
    BY <1>9
  <2> QED
    BY <1>9, <2>1, <2>2 DEF IsPrefix
<1>11. n \in Nat /\ n >= 1 /\ n = Len(core)
  BY <1>1, <1>5, <1>9
<1> HIDE DEF n
<1>12. /\ text \in Seq(Characters)
       /\ \E begin \in 1 .. Len(text), end \in 1 .. Len(text) :
             InSpaces(text, core, d, begin, end)
  <2>1. core \in Seq(Characters)
    BY <1>9
  <2>2. Len(core) >= 1
    BY <1>11
  <2> QED
    BY <2>1, <2>2, InFieldIs, Zenon DEF text
<1> HIDE DEF text
<1>13. PICK begin \in 1 .. Len(text), end \in 1 .. Len(text) :
           InSpaces(text, core, d, begin, end)
  BY <1>12
<1>14. Len(text) = IF n > d.width THEN n ELSE d.width
  BY <1>11, <1>13 DEF InSpaces
<1>16. ZeroPadded(d) => begin = 1
  BY <1>13 DEF Asked, InSpaces
<1>17. D # <<>> /\ Head(D) = D[1] /\ 1 \in 1 .. Len(D)
  BY <1>1, <1>5, EmptySeq
<1>18. OctalZero(d) => Head(D) = "0"
  <2>1. CASE val = 0
    BY <1>1, <1>5, <1>17, <2>1
  <2>2. CASE val # 0
    BY <1>1, <1>5, <1>17, <2>2 DEF Asked
  <2> QED
    BY <2>1, <2>2
<1>19. Len(D) >= d.precision
  BY <1>3, <1>5 DEF Asked
<1>20. Head(D) = "0" /\ Len(D) > 1 =>
           \/ Len(D) <= d.precision
           \/ ZeroPadded(d) /\ Len(text) = d.width
           \/ OctalZero(d) /\ D[2] # "0"
  <2>6. Len(D) > 1 => Len(D) # 1
    BY <1>5
  <2>1. SUFFICES ASSUME Head(D) = "0", Len(D) > 1
                 PROVE  \/ Len(D) <= d.precision
                        \/ ZeroPadded(d) /\ Len(text) = d.width
                        \/ OctalZero(d) /\ D[2] # "0"
    OBVIOUS
  <2>2. z > 0
    <3>1. SUFFICES ASSUME z = 0 PROVE FALSE
      OBVIOUS
    <3>2. D[1] = digits[1] /\ Len(D) = Len(digits)
      BY <1>5, <1>17, <3>1
    <3>3. val = 0
      BY <1>1, <1>17, <2>1, <3>2
    <3>4. Len(digits) = 1
      BY <1>1, <3>3
    <3> QED
      BY <2>1, <2>6, <3>2, <3>4, Zenon
  <2>3. CASE z + Len(digits) <= d.precision
    BY <1>5, <2>3
  <2>4. CASE ZeroPadded(d) /\ Len(core) = d.width
    BY <1>3, <1>11, <1>14, <2>4
  <2>5. CASE OctalZero(d) /\ z = 1 /\ val # 0
    <3>1. 2 \in 1 .. z + Len(digits) /\ ~(2 <= z) /\ 2 - z = 1
      BY <1>1, <1>5, <2>5
    <3>2. D[2] = digits[1]
      BY <1>5, <3>1
    <3> QED
      BY <1>1, <2>5, <3>2
  <2> QED
    BY <2>2, <2>3, <2>4, <2>5 DEF Asked
<1>21. Number(D, Base(d)) = IF x < 0 THEN -x ELSE x
  BY <1>1 DEF D, r, IsAbs
<1>22. InField(text, d, x, begin, end)
  BY <1>2, <1>6, <1>9, <1>10, <1>11, <1>13, <1>16, <1>17, <1>18, <1>19, <1>20,
     <1>21, Zenon DEF InField, InSpaces, lead, A
<1> QED
  BY <1>12, <1>22, StandsParts DEF text

(* What do_conversion_int puts before the zeros.                           *)
LEMMA LeadIs ==
    ASSUME NEW d \in AnyDirective, d.conversion # "s", NEW x
    PROVE  Lead(d, x) \in Seq(Characters)
<1>1. d.conversion \in {"d", "i", "u", "o", "x", "X", "p", "s"}
  BY DEF AnyDirective
<1>2. /\ "-" \in Characters /\ "+" \in Characters /\ Space \in Characters
      /\ "0" \in Characters /\ "x" \in Characters /\ "X" \in Characters
  BY DEF Characters, Flags
<1> HIDE DEF Characters
<1>3. /\ <<"-">> \in Seq(Characters) /\ <<"+">> \in Seq(Characters)
      /\ <<Space>> \in Seq(Characters) /\ <<>> \in Seq(Characters)
      /\ <<"0", "x">> \in Seq(Characters) /\ <<"0", "X">> \in Seq(Characters)
  BY <1>2
<1>4. CASE d.conversion \in {"d", "i"}
  BY <1>3, <1>4 DEF Lead
<1>5. CASE d.conversion \in {"x", "X"}
  BY <1>3, <1>5 DEF Lead
<1>6. CASE d.conversion = "p"
  BY <1>3, <1>6 DEF Lead
<1>7. CASE d.conversion \in {"u", "o"}
  BY <1>3, <1>7 DEF Lead
<1> QED
  BY <1>1, <1>4, <1>5, <1>6, <1>7

Minus(d, x, val, negative) ==
    /\ negative \in BOOLEAN /\ x \in Int /\ IsAbs(val, x)
    /\ negative <=> x < 0
    /\ negative => d.conversion \in {"d", "i"}

LEMMA LeftbufIs ==
    ASSUME NEW d \in AnyDirective, d.conversion # "s", NEW f, Follows(f, d),
           NEW x, NEW val, NEW negative, Minus(d, x, val, negative), NEW leftzero
    PROVE  Leftbuf(val, f, negative, leftzero) =
               IF OctalZero(d) /\ val # 0 /\ leftzero = 0 THEN <<"0">> ELSE Lead(d, x)
<1>1. d.conversion \in {"d", "i", "u", "o", "x", "X", "p"}
  BY DEF AnyDirective
<1>2. f.flags = d.flags /\ f.conversion = d.conversion
  BY DEF Follows
<1>3. negative \in BOOLEAN /\ (negative <=> x < 0) /\ x \in Int /\ val = IF x < 0 THEN -x ELSE x
  BY DEF Minus, IsAbs
<1>4. CASE d.conversion \in {"d", "i"}
  <2>1. CASE negative
    BY <1>2, <1>3, <1>4, <2>1 DEF Leftbuf, Lead, OctalZero
  <2>2. CASE ~negative
    BY <1>2, <1>3, <1>4, <2>2 DEF Leftbuf, Lead, OctalZero
  <2> QED
    BY <2>1, <2>2
<1>5. ASSUME d.conversion \notin {"d", "i"} PROVE val = x /\ (x = 0 <=> val = 0)
  BY <1>5 DEF Minus, IsAbs
<1>6. CASE d.conversion = "u"
  BY <1>2, <1>6 DEF Leftbuf, Lead, OctalZero
<1>7. CASE d.conversion = "o"
  BY <1>2, <1>7 DEF Leftbuf, Lead, OctalZero
<1>8. CASE d.conversion \in {"x", "X"}
  BY <1>2, <1>5, <1>8 DEF Leftbuf, Lead, OctalZero
<1>9. CASE d.conversion = "p"
  BY <1>2, <1>5, <1>9 DEF Leftbuf, Lead, OctalZero
<1> QED
  BY <1>1, <1>4, <1>6, <1>7, <1>8, <1>9

LEMMA OneMoreZero ==
    ASSUME NEW S, NEW c \in S, NEW z \in Nat
    PROVE  <<c>> \o Repeat(c, z) = Repeat(c, z + 1)
<1>1. /\ Repeat(c, z) \in Seq(S) /\ Len(Repeat(c, z)) = z
      /\ \A k \in 1 .. Len(Repeat(c, z)) : Repeat(c, z)[k] = c
  <2>1. z \in Int /\ (z > 0 \/ z = 0)
    OBVIOUS
  <2> QED
    BY <2>1, RepeatIs
<1>2. PICK m \in Nat : m = z + 1 /\ m \in Int /\ m > 0
  OBVIOUS
<1>3. /\ Repeat(c, m) \in Seq(S) /\ Len(Repeat(c, m)) = m
      /\ \A k \in 1 .. Len(Repeat(c, m)) : Repeat(c, m)[k] = c
  BY <1>2, RepeatIs
<1>4. <<c>> \in Seq(S) /\ Len(<<c>>) = 1 /\ <<c>>[1] = c
  OBVIOUS
<1>5. /\ <<c>> \o Repeat(c, z) \in Seq(S)
      /\ Len(<<c>> \o Repeat(c, z)) = Len(<<c>>) + Len(Repeat(c, z))
      /\ \A k \in 1 .. Len(<<c>>) + Len(Repeat(c, z)) :
            (<<c>> \o Repeat(c, z))[k] =
                IF k <= Len(<<c>>) THEN <<c>>[k] ELSE Repeat(c, z)[k - Len(<<c>>)]
  BY <1>1, <1>4, ConcatProperties
<1>6. Len(<<c>> \o Repeat(c, z)) = m
  BY <1>1, <1>2, <1>4, <1>5
<1>7. \A k \in 1 .. m : (<<c>> \o Repeat(c, z))[k] = c
  <2>1. TAKE k \in 1 .. m
  <2>2. (<<c>> \o Repeat(c, z))[k] = IF k <= 1 THEN <<c>>[k] ELSE Repeat(c, z)[k - 1]
    BY <1>1, <1>2, <1>4, <1>5
  <2>3. k = 1 \/ (k - 1 \in 1 .. z /\ ~(k <= 1))
    BY <1>2
  <2> QED
    BY <1>1, <1>4, <2>2, <2>3
<1>8. <<c>> \o Repeat(c, z) = Repeat(c, m)
  BY <1>3, <1>5, <1>6, <1>7, SeqEqual
<1> QED
  BY <1>2, <1>8

(* The zeros and the number of characters before and behind them are those *)
(* the directive asks for: first without the '0' of octal numbers, then    *)
(* with it.                                                                *)
Padding(d, len, m, leftzero, zeros, z) ==
    /\ leftzero = IF d.precision > len THEN d.precision - len ELSE 0
    /\ zeros = IF ZeroPadded(d) THEN d.width - m - len ELSE leftzero
    /\ z = IF zeros > 0 THEN zeros ELSE 0

LEMMA ZerosAsked ==
    ASSUME NEW d \in AnyDirective, NEW val, NEW len \in Nat, NEW m \in Nat,
           NEW leftzero, NEW zeros, NEW z, Padding(d, len, m, leftzero, zeros, z)
    PROVE  /\ zeros \in Int /\ z \in Nat
           /\ ~(OctalZero(d) /\ val # 0 /\ leftzero = 0) => Asked(d, val, z, len, m + (z + len))
           /\ OctalZero(d) /\ val # 0 /\ leftzero = 0 /\ m = 1 =>
                  Asked(d, val, z + 1, len, 0 + (z + 1 + len))
<1>1. d.width \in Nat /\ d.precision \in Int
  BY DirectiveTypes
<1>2. PICK w \in Nat, prec \in Int : w = d.width /\ prec = d.precision
  BY <1>1
<1>3. ZeroPadded(d) => prec < 0
  BY <1>2 DEF ZeroPadded
<1>4. /\ leftzero \in Nat
      /\ leftzero = IF prec > len THEN prec - len ELSE 0
      /\ zeros = IF ZeroPadded(d) THEN w - m - len ELSE leftzero
      /\ z = IF zeros > 0 THEN zeros ELSE 0
  BY <1>2 DEF Padding
<1>5. ZeroPadded(d) \in BOOLEAN /\ OctalZero(d) \in BOOLEAN
  BY DEF ZeroPadded, OctalZero
<1>6. CASE ZeroPadded(d)
  <2>1. zeros = w - m - len
    BY <1>4, <1>6
  <2>2. leftzero = 0 /\ prec < 0
    BY <1>3, <1>4, <1>6
  <2>3. zeros \in Int /\ z \in Nat /\ m + (z + len) >= w /\ (z > 0 => m + (z + len) = w)
    BY <1>4, <2>1
  <2>4. ~(OctalZero(d) /\ val # 0) => Asked(d, val, z, len, m + (z + len))
    BY <1>2, <1>6, <2>2, <2>3 DEF Asked
  <2>5. m = 1 => /\ 0 + (z + 1 + len) = m + (z + len)
                 /\ z + 1 > 0 /\ (z > 0 \/ z + 1 = 1)
    BY <2>3
  <2>6. OctalZero(d) /\ val # 0 /\ m = 1 => Asked(d, val, z + 1, len, 0 + (z + 1 + len))
    BY <1>2, <1>6, <2>2, <2>3, <2>5 DEF Asked
  <2> QED
    BY <2>2, <2>3, <2>4, <2>6
<1>7. CASE ~ZeroPadded(d)
  <2>1. zeros = leftzero /\ z = leftzero
    BY <1>4, <1>7
  <2>2. ~(OctalZero(d) /\ val # 0 /\ leftzero = 0) => Asked(d, val, z, len, m + (z + len))
    BY <1>2, <1>4, <1>7, <2>1 DEF Asked
  <2>3. OctalZero(d) /\ val # 0 /\ leftzero = 0 => Asked(d, val, z + 1, len, 0 + (z + 1 + len))
    BY <1>2, <1>4, <1>7, <2>1 DEF Asked
  <2> QED
    BY <1>4, <2>1, <2>2, <2>3
<1> QED
  BY <1>6, <1>7

(* Whatever the flags, the width and the precision are,                    *)
(* do_conversion_int prints what stands for its number.                    *)
LEMMA IntStands ==
    ASSUME NEW d \in AnyDirective, d.conversion # "s", NEW f, Follows(f, d),
           NEW val \in 0 .. Power(2, LongBits) - 1, NEW x, NEW negative,
           Minus(d, x, val, negative)
    PROVE  /\ do_conversion_int(val, f, negative) \in Seq(Characters)
           /\ ~(x = 0 /\ d.precision = 0) =>
                  StandsFor(do_conversion_int(val, f, negative), d, x)
<1>1. PICK digits : digits = valconv(val, Powers(Base(d)), StrOf(d))
  OBVIOUS
<1>2. PICK len \in Nat : len = Len(digits)
  BY <1>1, DigitsOf
<1>3. Base(f) = Base(d) /\ StrOf(d) = IF f.conversion = "X" THEN Capital ELSE Small
  BY DEF Follows, Base, StrOf
<1>4. PICK leftzero : leftzero = IF d.precision > len THEN d.precision - len ELSE 0
  OBVIOUS
<1>5. d.width \in Nat /\ d.precision \in Int /\ f.width = d.width
  BY DirectiveTypes DEF Follows
<1>6. leftzero = IF f.has_precision /\ f.precision > len THEN f.precision - len ELSE 0
  BY <1>4, <1>5 DEF Follows
<1>7. PICK leftbuf : leftbuf = Leftbuf(val, f, negative, leftzero)
  OBVIOUS
<1>8. leftbuf = IF OctalZero(d) /\ val # 0 /\ leftzero = 0 THEN <<"0">> ELSE Lead(d, x)
  BY <1>7, LeftbufIs
<1>9. ZeroPadded(d) <=> "0" \in f.flags /\ ~f.has_precision /\ "-" \notin f.flags
  BY <1>5 DEF Follows, ZeroPadded
<1>10. /\ Lead(d, x) \in Seq(Characters) /\ <<"0">> \in Seq(Characters)
       /\ Len(<<"0">>) = 1 /\ "0" \in Characters
  <2>1. "0" \in Characters
    BY DEF Characters, Flags
  <2>2. <<"0">> \in Seq(Characters)
    BY <2>1
  <2> QED
    BY <2>1, <2>2, LeadIs
<1>11. leftbuf \in Seq(Characters)
  BY <1>8, <1>10
<1>12. PICK m \in Nat : m = Len(leftbuf)
  BY <1>11, LenProperties
<1>13. PICK zeros : zeros = IF ZeroPadded(d) THEN d.width - m - len ELSE leftzero
  OBVIOUS
<1>14. PICK z : z = IF zeros > 0 THEN zeros ELSE 0
  OBVIOUS
<1>15. /\ zeros \in Int /\ z \in Nat
       /\ ~(OctalZero(d) /\ val # 0 /\ leftzero = 0) => Asked(d, val, z, len, m + (z + len))
       /\ OctalZero(d) /\ val # 0 /\ leftzero = 0 /\ m = 1 =>
              Asked(d, val, z + 1, len, 0 + (z + 1 + len))
  <2>1. Padding(d, len, m, leftzero, zeros, z)
    BY <1>4, <1>13, <1>14 DEF Padding
  <2> QED
    BY <2>1, ZerosAsked, ZenonT(40)
<1>16. PICK core : core = leftbuf \o Repeat("0", zeros) \o digits
  OBVIOUS
<1>17. do_conversion_int(val, f, negative) =
           IF f.has_precision /\ f.precision = 0 /\ val = 0 THEN <<>> ELSE Field(core, f)
  <2>1. do_conversion_int(val, f, negative) =
           IF f.has_precision /\ f.precision = 0 /\ val = 0 THEN <<>>
           ELSE Field(leftbuf \o Repeat("0", IF "0" \in f.flags /\ ~f.has_precision /\ "-" \notin f.flags
                                             THEN f.width - Len(leftbuf) - Len(digits)
                                             ELSE leftzero) \o digits, f)
    BY <1>1, <1>2, <1>3, <1>6, <1>7, Zenon DEF do_conversion_int
  <2> QED
    BY <1>2, <1>5, <1>9, <1>12, <1>13, <1>16, <2>1, Zenon
<1>18. Repeat("0", zeros) = Repeat("0", z)
  BY <1>14 DEF Repeat
<1>19. \E y \in Nat : /\ core = Lead(d, x) \o (Repeat("0", y) \o digits)
                      /\ Asked(d, val, y, len, Len(core))
  <2>1. /\ digits \in Seq(Characters) /\ Repeat("0", z) \in Seq(Characters)
        /\ Len(Repeat("0", z)) = z
    <3>1. digits \in Seq(Alphabet(d)) /\ Alphabet(d) \subseteq Characters
      BY <1>1, DigitsOf, BaseIs
    <3>2. z \in Int /\ (z > 0 \/ z = 0)
      BY <1>15
    <3>3. "0" \in Characters
      BY <1>10
    <3>4. Repeat("0", z) \in Seq(Characters) /\ Len(Repeat("0", z)) = z
      BY <3>2, <3>3, RepeatIs
    <3>5. digits \in Seq(Characters)
      BY <3>1, SeqMonotonic
    <3> QED
      BY <3>4, <3>5
  <2>2. core = leftbuf \o (Repeat("0", z) \o digits)
    <3>1. core = leftbuf \o Repeat("0", z) \o digits
      BY <1>16, <1>18, Zenon
    <3> QED
      BY <1>11, <2>1, <3>1, CharsAssociative, Zenon
  <2>3. Repeat("0", z) \o digits \in Seq(Characters)
        /\ Len(Repeat("0", z) \o digits) = z + len
    BY <1>2, <2>1, ConcatProperties, SMTT(30)
  <2>4. Len(core) = m + (z + len)
    BY <1>11, <1>12, <2>2, <2>3, ConcatProperties
  <2>5. CASE ~(OctalZero(d) /\ val # 0 /\ leftzero = 0)
    BY <1>8, <1>15, <2>2, <2>4, <2>5
  <2>6. CASE OctalZero(d) /\ val # 0 /\ leftzero = 0
    <3>1. leftbuf = <<"0">> /\ Lead(d, x) = <<>> /\ m = 1
      BY <1>8, <1>10, <1>12, <2>6 DEF Lead, OctalZero
    <3>2. z + 1 \in Nat /\ m + (z + len) = 0 + (z + 1 + len)
      BY <1>15, <3>1
    <3>3. core = (<<"0">> \o Repeat("0", z)) \o digits
      BY <1>16, <1>18, <3>1
    <3>4. core = Repeat("0", z + 1) \o digits
      BY <1>10, <1>15, <3>3, OneMoreZero
    <3>5. core \in Seq(Characters)
      BY <1>11, <2>2, <2>3, ConcatProperties
    <3>6. core = Lead(d, x) \o (Repeat("0", z + 1) \o digits)
      BY <3>1, <3>4, <3>5, ConcatEmptySeq
    <3>7. Asked(d, val, z + 1, len, Len(core))
      BY <1>15, <2>4, <2>6, <3>1, <3>2
    <3> QED
      BY <3>2, <3>6, <3>7
  <2> QED
    BY <2>5, <2>6
<1>20. Field(core, f) \in Seq(Characters) /\ StandsFor(Field(core, f), d, x)
  <2>1. PICK y \in Nat : /\ core = Lead(d, x) \o (Repeat("0", y) \o digits)
                         /\ Asked(d, val, y, Len(digits), Len(core))
    BY <1>2, <1>19
  <2>2. IsAbs(val, x)
    BY DEF Minus
  <2> QED
    BY <1>1, <1>10, <2>1, <2>2, StandsIf, Zenon
<1>21. ~(x = 0 /\ d.precision = 0) => ~(f.has_precision /\ f.precision = 0 /\ val = 0)
  BY <1>5 DEF Follows, Minus, IsAbs
<1>22. <<>> \in Seq(Characters)
  OBVIOUS
<1> QED
  BY <1>17, <1>20, <1>21, <1>22

(* What a directive takes of a string.                                     *)
LEMMA TakenIs ==
    ASSUME NEW S, NEW str \in Seq(S), NEW d \in AnyDirective
    PROVE  Taken(d, str) =
               SubSeq(str, 1, IF d.precision >= 0 /\ d.precision < Len(str)
                              THEN d.precision ELSE Len(str))
<1> DEFINE n == Len(str)
           len == IF d.precision >= 0 /\ d.precision < n THEN d.precision ELSE n
           first == SubSeq(str, 1, len)
           Fits(t) == IF d.precision < 0 THEN t = str
                      ELSE Len(t) <= d.precision /\ (t # str => Len(t) = d.precision)
<1>1. n \in Nat /\ d.precision \in Int
  BY LenProperties, DirectiveTypes
<1>2. len \in 0 .. n /\ (d.precision < 0 => len = n)
  BY <1>1
<1>3. SubSeq(str, 1, n) = str
  BY SubSeqFull
<1>4. \A l \in 0 .. n : Len(SubSeq(str, 1, l)) = l
  BY <1>1
<1>5. Prefixes(str) = {SubSeq(str, 1, l) : l \in 0 .. n}
  BY DEF Prefixes
<1>6. first \in Prefixes(str)
  BY <1>2, <1>5
<1> HIDE DEF n
<1>7. Fits(first)
  <2>1. CASE d.precision < 0
    BY <1>2, <1>3, <2>1
  <2>2. CASE d.precision >= 0 /\ d.precision < n
    BY <1>1, <1>2, <1>4, <2>2
  <2>3. CASE d.precision >= 0 /\ ~(d.precision < n)
    BY <1>1, <1>2, <1>3, <1>4, <2>3
  <2> QED
    BY <1>1, <2>1, <2>2, <2>3
<1>8. ASSUME NEW t \in Prefixes(str), Fits(t) PROVE t = first
  <2>1. PICK l \in 0 .. n : t = SubSeq(str, 1, l)
    BY <1>5
  <2>2. Len(t) = l
    BY <1>4, <2>1
  <2>3. CASE d.precision < 0
    BY <1>2, <1>3, <1>8, <2>3
  <2>4. CASE d.precision >= 0 /\ d.precision < n
    <3>1. l < n
      BY <1>1, <1>8, <2>2, <2>4
    <3>2. t # str
      BY <1>1, <1>3, <1>4, <2>2, <3>1
    <3>3. l = d.precision
      BY <1>1, <1>8, <2>2, <2>4, <3>2
    <3> QED
      BY <2>1, <2>4, <3>3
  <2>5. CASE d.precision >= 0 /\ ~(d.precision < n)
    <3>1. len = n /\ first = str
      BY <1>1, <1>3, <2>5
    <3>2. ASSUME t # str PROVE FALSE
      <4>1. l = d.precision
        BY <1>1, <1>8, <2>2, <2>5, <3>2
      <4>2. l = n
        BY <1>1, <2>5, <4>1
      <4> QED
        BY <1>3, <2>1, <3>2, <4>2
    <3> QED
      BY <3>1, <3>2
  <2> QED
    BY <1>1, <2>3, <2>4, <2>5
<1>9. Taken(d, str) = CHOOSE t \in Prefixes(str) : Fits(t)
  BY Zenon DEF Taken
<1> HIDE DEF Fits, first
<1>10. Taken(d, str) = first
  BY <1>6, <1>7, <1>8, <1>9
<1> QED
  BY <1>10 DEF first, n

(* Whatever the flags, the width and the precision are,                    *)
(* do_conversion_string prints what shows the part of the string.          *)
LEMMA StringShows ==
    ASSUME NEW d \in AnyDirective, NEW f, Follows(f, d), NEW str \in Seq(Characters)
    PROVE  /\ do_conversion_string(str, f) \in Seq(Characters)
           /\ Shows(do_conversion_string(str, f), d, Taken(d, str))
<1>1. PICK core : core = Taken(d, str)
  OBVIOUS
<1>2. Len(str) \in Nat /\ d.width \in Nat /\ d.precision \in Int
  BY LenProperties, DirectiveTypes
<1>3. PICK len \in 0 .. Len(str) :
          len = IF d.precision >= 0 /\ d.precision < Len(str) THEN d.precision ELSE Len(str)
  BY <1>2
<1>4. core = SubSeq(str, 1, len)
  BY <1>1, <1>3, TakenIs
<1>5. core \in Seq(Characters)
  BY <1>2, <1>3, <1>4
<1>6. len = IF f.has_precision /\ f.precision < Len(str) THEN f.precision ELSE Len(str)
  BY <1>2, <1>3 DEF Follows
<1>7. do_conversion_string(str, f) = Field(core, f)
  BY <1>4, <1>6 DEF do_conversion_string
<1>8. Space \in Characters
  BY DEF Characters, Flags
<1>9. f.width = d.width /\ f.flags = d.flags
  BY DEF Follows
<1>10. /\ Field(core, f) \in Seq(Characters)
       /\ \E spaces \in Nat, begin \in Nat : Placed(Field(core, f), core, f, spaces, begin)
  BY <1>2, <1>5, <1>8, <1>9, FieldIs
<1>11. PICK text \in Seq(Characters) : text = Field(core, f)
  BY <1>10
<1>12. PICK spaces \in Nat, begin \in Nat : Placed(text, core, f, spaces, begin)
  BY <1>10, <1>11
<1>13. PICK n \in Nat : n = Len(core)
  BY <1>5, LenProperties
<1>14. PICK w \in Nat : w = d.width
  BY <1>2
<1>15. /\ spaces = IF w > n THEN w - n ELSE 0
       /\ Len(text) = spaces + n
       /\ begin = IF "-" \in d.flags THEN 1 ELSE spaces + 1
  BY <1>9, <1>12, <1>13, <1>14 DEF Placed
<1>16. /\ SubSeq(text, begin, begin + n - 1) = core
       /\ AllSpaces(SubSeq(text, 1, begin - 1))
       /\ AllSpaces(SubSeq(text, begin + n, Len(text)))
  BY <1>12, <1>13 DEF Placed
<1>17. Len(text) = (IF n > w THEN n ELSE w) /\ Len(text) - n = spaces
  BY <1>15
<1>18. CASE "-" \in d.flags
  <2>1. begin = 1 /\ begin + n - 1 = n /\ begin + n = n + 1
    BY <1>15, <1>18
  <2>2. SubSeq(text, 1, n) = core /\ AllSpaces(SubSeq(text, n + 1, Len(text)))
    BY <1>16, <2>1
  <2>3. n <= Len(text)
    BY <1>15
  <2>4. IsPrefix(core, text)
    BY <1>5, <1>13, <2>2, <2>3, SubSeqFull DEF IsPrefix
  <2> QED
    BY <1>1, <1>7, <1>11, <1>13, <1>14, <1>17, <1>18, <2>2, <2>4 DEF Shows
<1>19. CASE "-" \notin d.flags
  <2>1. begin = spaces + 1 /\ begin + n - 1 = Len(text) /\ begin - 1 = spaces
    BY <1>15, <1>19
  <2>2. SubSeq(text, spaces + 1, Len(text)) = core /\ AllSpaces(SubSeq(text, 1, spaces))
    BY <1>16, <2>1
  <2> QED
    BY <1>1, <1>7, <1>11, <1>13, <1>14, <1>17, <1>19, <2>2 DEF Shows
<1> QED
  BY <1>10, <1>7, <1>18, <1>19

(* What parse_format makes of a directive.                                 *)
ParsedAs(f, d) ==
    /\ Follows(f, d)
    /\ f.long <=> Range(d.length) \cap {"l", "j", "z", "t"} # {}

LEMMA SignedIs ==
    ASSUME NEW word \in Nat, NEW bits \in {IntBits, LongBits}
    PROVE  /\ Power(2, bits) \in Nat \ {0} /\ Power(2, bits) <= Power(2, LongBits)
           /\ word % Power(2, bits) \in 0 .. Power(2, LongBits) - 1
           /\ Signed(word, bits) \in Int
           /\ Signed(word, bits) >= 0 => Signed(word, bits) \in 0 .. Power(2, LongBits) - 1
           /\ Signed(word, bits) < 0 => -Signed(word, bits) \in 0 .. Power(2, LongBits) - 1
<1>1. bits \in Nat \ {0} /\ bits <= LongBits /\ LongBits \in Nat
  BY PrintfAssumption
<1>2. PICK less \in Nat : less = bits - 1
  BY <1>1
<1>3. /\ \A n \in Nat : Power(2, n) \in Nat \ {0}
      /\ \A n \in Nat : n <= LongBits => Power(2, n) <= Power(2, LongBits)
  <2>1. 2 \in Nat /\ 2 >= 2
    OBVIOUS
  <2> QED
    BY <1>1, <2>1, PowerGrows
<1>4. PICK p \in Nat \ {0} : p = Power(2, bits)
  BY <1>1, <1>3
<1>5. PICK h \in Nat \ {0} : h = Power(2, less)
  BY <1>3
<1>6. PICK all \in Nat \ {0} : all = Power(2, LongBits)
  BY <1>1, <1>3
<1>7. p <= all
  BY <1>1, <1>3, <1>4, <1>6
<1>8. PICK w \in 0 .. p - 1 : w = word % p
  BY DivideIs
<1>9. Signed(word, bits) = IF w < h THEN w ELSE w - p
  BY <1>2, <1>4, <1>5, <1>8 DEF Signed
<1>10. PICK x \in Int : x = Signed(word, bits)
  BY <1>9
<1>11. /\ w \in 0 .. all - 1
       /\ x >= 0 => x \in 0 .. all - 1
       /\ x < 0 => -x \in 0 .. all - 1
  BY <1>7, <1>9, <1>10
<1> QED
  BY <1>4, <1>6, <1>7, <1>8, <1>10, <1>11

(* A directive for a number prints what stands for its argument.           *)
LEMMA NumberStands ==
    ASSUME NEW d \in AnyDirective, d.conversion # "s", NEW f, ParsedAs(f, d),
           NEW word \in Words
    PROVE  /\ Convert(f, word) \in Seq(Characters)
           /\ ~(ArgumentOf(d, word) = 0 /\ d.precision = 0) =>
                  StandsFor(Convert(f, word), d, ArgumentOf(d, word))
<1>1. d.conversion \in {"d", "i", "u", "o", "x", "X", "p"} /\ f.conversion = d.conversion
  BY DEF AnyDirective, ParsedAs, Follows
<1>2. word \in 0 .. Power(2, LongBits) - 1
  BY PrintfAssumption
<1>3. LongBits \in Nat /\ Power(2, LongBits) \in Nat \ {0}
  <2>1. 2 \in Nat /\ 2 >= 2 /\ LongBits \in Nat
    BY PrintfAssumption
  <2> QED
    BY <2>1, PowerGrows
<1>4. word \in Nat /\ word < Power(2, LongBits)
  BY <1>2, <1>3
<1>5. PICK whole \in BOOLEAN :
          whole <=> d.conversion = "p" \/ Range(d.length) \cap {"l", "j", "z", "t"} # {}
  OBVIOUS
<1>6. PICK bits \in {IntBits, LongBits} : bits = IF whole THEN LongBits ELSE IntBits
  OBVIOUS
<1>7. ArgumentOf(d, word) = IF d.conversion \in {"d", "i"} THEN Signed(word, bits)
                                                           ELSE word % Power(2, bits)
  BY <1>5, <1>6, Zenon DEF ArgumentOf
<1>8. PICK x : x = ArgumentOf(d, word)
  OBVIOUS
<1>9. /\ word % Power(2, bits) \in 0 .. Power(2, LongBits) - 1
      /\ Signed(word, bits) \in Int
      /\ Signed(word, bits) >= 0 => Signed(word, bits) \in 0 .. Power(2, LongBits) - 1
      /\ Signed(word, bits) < 0 => -Signed(word, bits) \in 0 .. Power(2, LongBits) - 1
  BY <1>4, SignedIs
<1>11. \E val \in 0 .. Power(2, LongBits) - 1, negative \in BOOLEAN :
           /\ Convert(f, word) = do_conversion_int(val, f, negative)
           /\ Minus(d, x, val, negative)
  <2>1. CASE d.conversion \in {"d", "i"}
    <3>1. Width(f) = bits /\ x = Signed(word, bits)
      BY <1>5, <1>6, <1>7, <1>8, <2>1 DEF ParsedAs, Width
    <3>2. Convert(f, word) = IF x < 0 THEN do_conversion_int(-x, f, TRUE)
                                      ELSE do_conversion_int(x, f, FALSE)
      BY <1>1, <2>1, <3>1 DEF Convert
    <3>3. x \in Int /\ (x < 0 \/ x >= 0)
      BY <1>9, <3>1
    <3>4. CASE x < 0
      <4>1. -x \in 0 .. Power(2, LongBits) - 1 /\ Minus(d, x, -x, TRUE)
        BY <1>9, <2>1, <3>1, <3>3, <3>4 DEF Minus, IsAbs
      <4>2. Convert(f, word) = do_conversion_int(-x, f, TRUE)
        BY <3>2, <3>4
      <4> QED
        BY <4>1, <4>2
    <3>5. CASE x >= 0
      <4>1. x \in 0 .. Power(2, LongBits) - 1 /\ Minus(d, x, x, FALSE)
        BY <1>9, <2>1, <3>1, <3>3, <3>5 DEF Minus, IsAbs
      <4>2. ~(x < 0)
        BY <3>3, <3>5
      <4>3. Convert(f, word) = do_conversion_int(x, f, FALSE)
        BY <3>2, <4>2, Zenon
      <4> QED
        BY <4>1, <4>3
    <3> QED
      BY <3>3, <3>4, <3>5
  <2>2. CASE d.conversion \in {"u", "o", "x", "X", "p"}
    <3>1. x = word % Power(2, bits)
      BY <1>7, <1>8, <2>2
    <3>2. word % Power(2, LongBits) = word
      BY <1>3, <1>4, DivideSmall
    <3>3. Unsigned(word, f) = x
      BY <1>1, <1>5, <1>6, <3>1, <3>2 DEF Unsigned, ParsedAs
    <3>4. Convert(f, word) = do_conversion_int(x, f, FALSE)
      BY <1>1, <2>2, <3>3 DEF Convert
    <3>5. x \in 0 .. Power(2, LongBits) - 1 /\ Minus(d, x, x, FALSE)
      <4>1. x \in 0 .. Power(2, LongBits) - 1
        BY <1>9, <3>1
      <4>2. x \in Int /\ ~(x < 0)
        BY <4>1
      <4> QED
        BY <4>1, <4>2 DEF Minus, IsAbs
    <3> QED
      BY <3>4, <3>5
  <2> QED
    BY <1>1, <2>1, <2>2
<1>12. PICK val \in 0 .. Power(2, LongBits) - 1, negative \in BOOLEAN :
           /\ Convert(f, word) = do_conversion_int(val, f, negative)
           /\ Minus(d, x, val, negative)
  BY <1>11
<1>13. Follows(f, d)
  BY DEF ParsedAs
<1>14. /\ do_conversion_int(val, f, negative) \in Seq(Characters)
       /\ ~(x = 0 /\ d.precision = 0) => StandsFor(do_conversion_int(val, f, negative), d, x)
  BY <1>12, <1>13, IntStands
<1> QED
  BY <1>8, <1>12, <1>14

(* A directive for a string prints what shows its argument.                *)
LEMMA ConvertShows ==
    ASSUME NEW d \in AnyDirective, d.conversion = "s", NEW f, ParsedAs(f, d),
           NEW str \in Strings
    PROVE  /\ Convert(f, str) \in Seq(Characters)
           /\ Shows(Convert(f, str), d, Taken(d, str))
<1>1. str \in Seq(StringChars) /\ str # NULL
  BY PrintfAssumption
<1>2. str \in Seq(Characters)
  <2>1. StringChars \subseteq Characters
    BY DEF Characters
  <2> QED
    BY <1>1, <2>1, SeqMonotonic
<1>3. f.conversion = "s" /\ Follows(f, d)
  BY DEF ParsedAs, Follows
<1>4. Convert(f, str) = do_conversion_string(str, f)
  BY <1>1, <1>3 DEF Convert
<1> QED
  BY <1>2, <1>3, <1>4, StringShows

(* A run of characters ends at one place only.                             *)
LEMMA PastUnique ==
    ASSUME NEW format, Len(format) \in Nat, NEW k \in Nat, NEW S,
           NEW j \in k .. Len(format) + 1,
           \A h \in k .. j - 1 : format[h] \in S,
           j <= Len(format) => format[j] \notin S
    PROVE  Past(format, k, S) = j
<1> DEFINE Ends(x) == /\ \A h \in k .. x - 1 : format[h] \in S
                      /\ x <= Len(format) => format[x] \notin S
<1>1. Past(format, k, S) = CHOOSE x \in k .. Len(format) + 1 : Ends(x)
  BY DEF Past
<1>2. ASSUME NEW x \in k .. Len(format) + 1, Ends(x) PROVE x = j
  <2>1. CASE x < j
    <3>1. x \in k .. j - 1 /\ x <= Len(format)
      BY <2>1
    <3> QED
      BY <1>2, <3>1
  <2>2. CASE j < x
    <3>1. j \in k .. x - 1 /\ j <= Len(format)
      BY <2>2
    <3> QED
      BY <1>2, <3>1
  <2> QED
    BY <2>1, <2>2
<1>3. Ends(j)
  OBVIOUS
<1> HIDE DEF Ends
<1> QED
  BY <1>1, <1>2, <1>3

(* A sequence stands in a format from place k on.                          *)
Stands(format, k, s) ==
    /\ k + Len(s) <= Len(format) + 1
    /\ \A x \in 1 .. Len(s) : format[k + x - 1] = s[x]

LEMMA StandsConcat ==
    ASSUME NEW S, NEW s \in Seq(S), NEW t \in Seq(S), NEW format, Len(format) \in Nat,
           NEW k \in Nat, Stands(format, k, s \o t)
    PROVE  /\ Stands(format, k, s) /\ Stands(format, k + Len(s), t)
           /\ Len(s) \in Nat /\ Len(t) \in Nat /\ k + Len(s) \in Nat
           /\ s \o t \in Seq(S)
<1>1. /\ s \o t \in Seq(S) /\ Len(s \o t) = Len(s) + Len(t)
      /\ \A x \in 1 .. Len(s) + Len(t) :
             (s \o t)[x] = IF x <= Len(s) THEN s[x] ELSE t[x - Len(s)]
      /\ Len(s) \in Nat /\ Len(t) \in Nat
  BY LenProperties, ConcatProperties
<1>2. PICK m \in Nat, n \in Nat : m = Len(s) /\ n = Len(t)
  BY <1>1
<1>3. PICK all \in Nat : all = Len(format)
  OBVIOUS
<1>4. /\ k + (m + n) <= all + 1
      /\ \A x \in 1 .. m + n : format[k + x - 1] = (s \o t)[x]
  BY <1>1, <1>2, <1>3 DEF Stands
<1>5. \A x \in 1 .. m : format[k + x - 1] = s[x]
  <2>1. TAKE x \in 1 .. m
  <2>2. x \in 1 .. m + n /\ x <= m
    OBVIOUS
  <2> QED
    BY <1>1, <1>2, <1>4, <2>2
<1>6. \A x \in 1 .. n : format[k + m + x - 1] = t[x]
  <2>1. TAKE x \in 1 .. n
  <2>2. PICK y \in 1 .. m + n : y = m + x /\ ~(y <= m) /\ y - m = x /\ k + y - 1 = k + m + x - 1
    OBVIOUS
  <2> QED
    BY <1>1, <1>2, <1>4, <2>2
<1>7. k + m <= all + 1 /\ k + m + n <= all + 1 /\ k + m \in Nat
  BY <1>4
<1> QED
  BY <1>1, <1>2, <1>3, <1>5, <1>6, <1>7 DEF Stands

LEMMA StandsSub ==
    ASSUME NEW S, NEW s \in Seq(S), NEW C, NEW format \in Seq(C),
           NEW k \in Nat \ {0}, Stands(format, k, s)
    PROVE  SubSeq(format, k, k + Len(s) - 1) = s
<1>1. Len(s) \in Nat /\ Len(format) \in Nat
  BY LenProperties
<1>2. PICK n \in Nat : n = Len(s)
  BY <1>1
<1>3. PICK last \in Int : last = k + n - 1 /\ last - k + 1 = n /\ last <= Len(format)
  BY <1>1, <1>2 DEF Stands
<1>4. \A x \in k .. last : format[x] \in C
  <2>1. TAKE x \in k .. last
  <2>2. x \in 1 .. Len(format)
    BY <1>1, <1>3
  <2> QED
    BY <2>2, ElementOfSeq
<1>5. k \in Int
  OBVIOUS
<1>6. /\ SubSeq(format, k, last) \in Seq(C)
      /\ Len(SubSeq(format, k, last)) = IF k <= last THEN last - k + 1 ELSE 0
      /\ \A x \in 1 .. last - k + 1 : SubSeq(format, k, last)[x] = format[k + x - 1]
  BY <1>3, <1>4, <1>5, SubSeqProperties
<1>7. Len(SubSeq(format, k, last)) = n
  BY <1>3, <1>6
<1>8. \A x \in 1 .. n : SubSeq(format, k, last)[x] = s[x]
  BY <1>2, <1>3, <1>6 DEF Stands
<1>9. SubSeq(format, k, last) \in Seq(C \cup S) /\ s \in Seq(C \cup S)
  <2>1. C \subseteq C \cup S /\ S \subseteq C \cup S
    OBVIOUS
  <2> QED
    BY <1>6, <2>1, SeqMonotonic
<1>10. SubSeq(format, k, last) = s
  BY <1>2, <1>7, <1>8, <1>9, SeqEqual
<1> QED
  BY <1>2, <1>3, <1>10

LEMMA StandsWhole ==
    ASSUME NEW S, NEW a \in Seq(S), NEW s \in Seq(S), NEW b \in Seq(S)
    PROVE  /\ Stands(a \o (s \o b), Len(a) + 1, s)
           /\ a \o (s \o b) \in Seq(S)
           /\ Len(a \o (s \o b)) = Len(a) + (Len(s) + Len(b))
<1>1. /\ s \o b \in Seq(S) /\ Len(s \o b) = Len(s) + Len(b)
      /\ \A x \in 1 .. Len(s) + Len(b) :
             (s \o b)[x] = IF x <= Len(s) THEN s[x] ELSE b[x - Len(s)]
      /\ Len(s) \in Nat /\ Len(b) \in Nat /\ Len(a) \in Nat
  BY LenProperties, ConcatProperties
<1>2. PICK r \in Seq(S) : r = s \o b
  BY <1>1
<1>3. /\ a \o r \in Seq(S) /\ Len(a \o r) = Len(a) + Len(r)
      /\ \A x \in 1 .. Len(a) + Len(r) :
             (a \o r)[x] = IF x <= Len(a) THEN a[x] ELSE r[x - Len(a)]
  BY ConcatProperties
<1>4. PICK m \in Nat, n \in Nat, l \in Nat : m = Len(s) /\ n = Len(b) /\ l = Len(a)
  BY <1>1
<1>5. Len(r) = m + n /\ Len(a \o r) = l + (m + n)
  BY <1>1, <1>2, <1>3, <1>4
<1>6. \A x \in 1 .. m : (a \o r)[l + 1 + x - 1] = s[x]
  <2>1. TAKE x \in 1 .. m
  <2>2. PICK y \in 1 .. l + (m + n) : y = l + x /\ l + 1 + x - 1 = y /\ ~(y <= l) /\ y - l = x
    OBVIOUS
  <2>3. (a \o r)[y] = r[x]
    BY <1>3, <1>4, <1>5, <2>2
  <2>4. x \in 1 .. m + n /\ x <= m
    OBVIOUS
  <2>5. r[x] = s[x]
    BY <1>1, <1>2, <1>4, <2>4
  <2> QED
    BY <2>2, <2>3, <2>5
<1>7. l + 1 + m <= Len(a \o r) + 1
  BY <1>5
<1> QED
  BY <1>2, <1>3, <1>4, <1>5, <1>6, <1>7 DEF Stands

(* The decimal digits of a width or a precision.                           *)
LEMMA DecimalIs ==
    ASSUME NEW n \in 0 .. 99
    PROVE  /\ Decimal(n) \in Seq(Digits) /\ Len(Decimal(n)) >= 1
           /\ n > 0 => Decimal(n)[1] # "0"
           /\ Number(Decimal(n), 10) = n
<1>1. /\ \A k \in 1 .. 16 : ValueOf(Small[k]) = k - 1
      /\ \A k \in 2 .. 16 : Small[k] # "0"
  BY NumeralFacts
<1>2. \A k \in 1 .. 10 : Small[k] \in Digits
  <2>1. \A k \in 1 .. 10 : Small[k] \in Numerals(Small, 10)
    BY DEF Numerals
  <2> QED
    BY <2>1, AlphabetIs
<1>3. CASE n < 10
  <2>1. PICK k \in 1 .. 10 : k = n + 1
    BY <1>3
  <2>2. PICK c \in Digits : c = Small[k] /\ ValueOf(c) = n /\ (n > 0 => c # "0")
    BY <1>1, <1>2, <2>1
  <2>3. Decimal(n) = <<c>>
    BY <1>3, <2>1, <2>2 DEF Decimal
  <2>4. <<c>> \in Seq(Digits) /\ Len(<<c>>) = 1 /\ <<c>>[1] = c
    OBVIOUS
  <2> DEFINE h == [j \in 0 .. 1 |-> IF j = 0 THEN 0 ELSE n]
  <2>5. Reads(h, <<c>>, 10)
    <3>1. h[0] = 0 /\ h[1] = n
      OBVIOUS
    <3>2. h = [j \in 0 .. 1 |-> IF j = 0 THEN 0 ELSE h[j - 1] * 10 + ValueOf(<<c>>[j])]
      <4>1. \A j \in 0 .. 1 : h[j] = IF j = 0 THEN 0 ELSE h[j - 1] * 10 + ValueOf(<<c>>[j])
        <5>1. TAKE j \in 0 .. 1
        <5>2. CASE j = 0
          BY <5>2
        <5>3. CASE j = 1
          <6>1. j - 1 = 0 /\ h[0] * 10 + ValueOf(<<c>>[1]) = n
            BY <2>2, <2>4, <3>1, <5>3
          <6> QED
            BY <3>1, <5>3, <6>1
        <5> QED
          BY <5>2, <5>3
      <4>2. h = [j \in 0 .. 1 |-> h[j]]
        OBVIOUS
      <4> HIDE DEF h
      <4> QED
        BY <4>1, <4>2
    <3> HIDE DEF h
    <3> QED
      BY <2>4, <3>2 DEF Reads
  <2>6. Number(<<c>>, 10) = h[1]
    <3> HIDE DEF h
    <3> QED
      BY <2>4, <2>5, NumberIs
  <2>7. h[1] = n
    OBVIOUS
  <2> QED
    BY <2>2, <2>3, <2>4, <2>6, <2>7
<1>4. CASE n >= 10
  <2>1. PICK q \in 1 .. 9, r \in 0 .. 9 : q = n \div 10 /\ r = n % 10 /\ n = q * 10 + r
    BY <1>4
  <2>2. PICK c \in Digits : c = Small[q + 1] /\ ValueOf(c) = q /\ c # "0"
    <3>1. q + 1 \in 1 .. 10 /\ q + 1 \in 2 .. 16 /\ q + 1 \in 1 .. 16 /\ q + 1 - 1 = q
      OBVIOUS
    <3> QED
      BY <1>1, <1>2, <3>1
  <2>3. PICK e \in Digits : e = Small[r + 1] /\ ValueOf(e) = r
    <3>1. r + 1 \in 1 .. 10 /\ r + 1 \in 1 .. 16 /\ r + 1 - 1 = r
      OBVIOUS
    <3> QED
      BY <1>1, <1>2, <3>1
  <2>4. Decimal(n) = <<c, e>>
    <3>1. ~(n < 10)
      BY <1>4
    <3> QED
      BY <2>1, <2>2, <2>3, <3>1 DEF Decimal
  <2>5. <<c, e>> \in Seq(Digits) /\ Len(<<c, e>>) = 2 /\ <<c, e>>[1] = c /\ <<c, e>>[2] = e
    OBVIOUS
  <2> DEFINE h == [j \in 0 .. 2 |-> IF j = 0 THEN 0 ELSE IF j = 1 THEN q ELSE n]
  <2>6. Reads(h, <<c, e>>, 10)
    <3>1. h[0] = 0 /\ h[1] = q /\ h[2] = n
      OBVIOUS
    <3>2. h = [j \in 0 .. 2 |-> IF j = 0 THEN 0 ELSE h[j - 1] * 10 + ValueOf(<<c, e>>[j])]
      <4>2. h = [j \in 0 .. 2 |-> h[j]]
        OBVIOUS
      <4> HIDE DEF h
      <4>1. \A j \in 0 .. 2 : h[j] = IF j = 0 THEN 0 ELSE h[j - 1] * 10 + ValueOf(<<c, e>>[j])
        <5>1. TAKE j \in 0 .. 2
        <5>2. CASE j = 0
          BY <3>1, <5>2
        <5>3. CASE j = 1
          <6>1. j - 1 = 0 /\ h[0] * 10 + ValueOf(<<c, e>>[1]) = q
            BY <2>2, <2>5, <3>1, <5>3
          <6> QED
            BY <3>1, <5>3, <6>1
        <5>4. CASE j = 2
          <6>1. j - 1 = 1 /\ h[1] * 10 + ValueOf(<<c, e>>[2]) = n
            BY <2>1, <2>3, <2>5, <3>1, <5>4
          <6> QED
            BY <3>1, <5>4, <6>1
        <5> QED
          BY <5>2, <5>3, <5>4
      <4> QED
        BY <4>1, <4>2
    <3> HIDE DEF h
    <3> QED
      BY <2>5, <3>2 DEF Reads
  <2>7. Number(<<c, e>>, 10) = h[2]
    <3> HIDE DEF h
    <3> QED
      BY <2>5, <2>6, NumberIs
  <2>8. h[2] = n
    OBVIOUS
  <2> QED
    BY <2>2, <2>4, <2>5, <2>7, <2>8
<1> QED
  BY <1>3, <1>4

LEMMA NumberOfNone == Number(<<>>, 10) = 0
<1> DEFINE h == [j \in 0 .. 0 |-> 0]
<1>1. Reads(h, <<>>, 10)
  <2>1. Len(<<>>) = 0
    OBVIOUS
  <2>2. \A j \in 0 .. 0 : 0 = IF j = 0 THEN 0 ELSE h[j - 1] * 10 + ValueOf(<<>>[j])
    OBVIOUS
  <2>3. h = [j \in 0 .. 0 |-> IF j = 0 THEN 0 ELSE h[j - 1] * 10 + ValueOf(<<>>[j])]
    BY <2>2
  <2> HIDE DEF h
  <2> QED
    BY <2>1, <2>3 DEF Reads
<1>2. h[0] = 0
  OBVIOUS
<1>3. <<>> \in Seq(Digits) /\ Len(<<>>) = 0
  OBVIOUS
<1> HIDE DEF h
<1> QED
  BY <1>1, <1>2, <1>3, NumberIs

(* The flags of a directive, as they stand in its format.                  *)
LEMMA FlagsSeq ==
    ASSUME NEW S, IsFiniteSet(S)
    PROVE  SetToSeq(S) \in Seq(S) /\ Range(SetToSeq(S)) = S
<1> DEFINE n == Cardinality(S)
           f == SetToSeq(S)
<1>1. n \in Nat /\ ExistsBijection(1 .. n, S)
  BY FS_CardinalityType
<1>2. \E g \in [1 .. n -> S] : IsInjective(g)
  <2>1. PICK g : g \in Bijection(1 .. n, S)
    BY <1>1 DEF ExistsBijection
  <2> QED
    BY <2>1 DEF Bijection, Injection
<1>3. f \in [1 .. n -> S] /\ IsInjective(f)
  BY <1>2 DEF SetToSeq
<1>4. Cardinality(1 .. n) = n
  BY <1>1, FS_Interval
<1> HIDE DEF f
<1>5. f \in Injection(1 .. n, S)
  BY <1>3 DEF Injection
<1>6. f \in Surjection(1 .. n, S)
  BY <1>4, <1>5, FS_Injection
<1>7. \A c \in S : \E k \in 1 .. n : f[k] = c
  BY <1>6 DEF Surjection
<1>8. f \in Seq(S)
  BY <1>1, <1>3
<1>9. Range(f) = S
  BY <1>3, <1>7 DEF Range
<1> QED
  BY <1>8, <1>9 DEF f

Modifiers == {"h", "l", "j", "z", "t"}
Conversions == {"d", "i", "u", "o", "x", "X", "p", "s"}

(* The parts of a directive are of characters of their own.                *)
LEMMA Distinct ==
    /\ Digits \cap Modifiers = {} /\ Digits \cap Conversions = {}
    /\ Modifiers \cap Conversions = {} /\ Modifiers \cap Flags = {}
    /\ Conversions \cap Flags = {}
    /\ "." \notin Digits /\ "." \notin Modifiers /\ "." \notin Conversions /\ "." \notin Flags
    /\ \A c \in Digits : c \in Flags => c = "0"
    /\ "%" \notin Flags
<1>1. \A c \in Digits \cup Modifiers \cup Conversions \cup {".", "%"} : c # Space
  BY Zenon DEF Digits, Modifiers, Conversions, Space
<1>2. Digits \cap Modifiers = {} /\ Digits \cap Conversions = {}
  BY DEF Digits, Modifiers, Conversions
<1>3. Modifiers \cap Conversions = {}
  BY DEF Modifiers, Conversions
<1>4. Modifiers \cap Flags = {} /\ Conversions \cap Flags = {}
  BY <1>1 DEF Modifiers, Conversions, Flags
<1>5. "." \notin Digits /\ "." \notin Modifiers /\ "." \notin Conversions
  BY DEF Digits, Modifiers, Conversions
<1>6. "." \notin Flags /\ "%" \notin Flags
  BY <1>1 DEF Flags
<1>7. \A c \in Digits : c \in Flags => c = "0"
  BY <1>1 DEF Digits, Flags
<1> QED
  BY <1>2, <1>3, <1>4, <1>5, <1>6, <1>7

LEMMA LengthIs ==
    ASSUME NEW s \in Lengths
    PROVE  /\ s \in Seq(Modifiers)
           /\ Range(s) # {} /\ "h" \notin Range(s) <=> Range(s) \cap {"l", "j", "z", "t"} # {}
<1>1. /\ "h" \in Modifiers /\ "l" \in Modifiers /\ "j" \in Modifiers /\ "z" \in Modifiers
      /\ "t" \in Modifiers
  BY DEF Modifiers
<1>2. \A c : Range(<<c>>) = {c} /\ Range(<<c, c>>) = {c}
  <2>1. TAKE c
  <2>2. DOMAIN <<c>> = 1 .. 1 /\ DOMAIN <<c, c>> = 1 .. 2
    OBVIOUS
  <2> QED
    BY <2>2 DEF Range
<1>3. Range(<<>>) = {}
  BY DEF Range
<1>4. CASE s = <<>>
  BY <1>3, <1>4
<1>5. ASSUME NEW c \in Modifiers, s = <<c>> \/ s = <<c, c>>
      PROVE  /\ s \in Seq(Modifiers)
             /\ Range(s) # {} /\ "h" \notin Range(s) <=> Range(s) \cap {"l", "j", "z", "t"} # {}
  <2>1. s \in Seq(Modifiers)
    <3>1. <<c>> \in Seq(Modifiers)
      OBVIOUS
    <3>2. <<c, c>> \in Seq(Modifiers)
      OBVIOUS
    <3> QED
      BY <1>5, <3>1, <3>2
  <2>2. Range(s) = {c}
    BY <1>2, <1>5
  <2>3. c = "h" <=> c \notin {"l", "j", "z", "t"}
    BY DEF Modifiers
  <2> QED
    BY <2>1, <2>2, <2>3
<1>6. s = <<>> \/ \E c \in Modifiers : s = <<c>> \/ s = <<c, c>>
  BY <1>1 DEF Lengths
<1> QED
  BY <1>4, <1>5, <1>6

(* The parts of a directive's format.                                      *)
WidthOf(d) == IF d.width > 0 THEN Decimal(d.width) ELSE <<>>
PrecisionOf(d) == IF d.precision >= 0 THEN <<".">> \o Decimal(d.precision) ELSE <<>>

LEMMA FormatParts ==
    ASSUME NEW d \in AnyDirective
    PROVE  /\ SetToSeq(d.flags) \in Seq(Flags) /\ Range(SetToSeq(d.flags)) = d.flags
           /\ WidthOf(d) \in Seq(Digits) /\ Number(WidthOf(d), 10) = d.width
           /\ WidthOf(d) # <<>> => WidthOf(d)[1] # "0"
           /\ PrecisionOf(d) \in Seq(Digits \cup {"."})
           /\ d.length \in Seq(Modifiers)
           /\ FormatOf(d) = ((((<<"%">> \o SetToSeq(d.flags)) \o WidthOf(d))
                              \o PrecisionOf(d)) \o d.length) \o <<d.conversion>>
<1>1. /\ d.width \in 0 .. 99 /\ d.precision \in -1 .. 99 /\ d.flags \subseteq Flags
      /\ d.length \in Lengths
  BY DirectiveTypes
<1>2. SetToSeq(d.flags) \in Seq(Flags) /\ Range(SetToSeq(d.flags)) = d.flags
  <2>1. IsFiniteSet(Flags)
    <3>1. IsFiniteSet({"#"} \cup {"0"})
      BY FS_Singleton, FS_Union
    <3>2. IsFiniteSet(({"#"} \cup {"0"}) \cup {"-"})
      BY <3>1, FS_Singleton, FS_Union
    <3>3. IsFiniteSet((({"#"} \cup {"0"}) \cup {"-"}) \cup {Space})
      BY <3>2, FS_Singleton, FS_Union
    <3>4. IsFiniteSet(((({"#"} \cup {"0"}) \cup {"-"}) \cup {Space}) \cup {"+"})
      BY <3>3, FS_Singleton, FS_Union
    <3>5. Flags = ((({"#"} \cup {"0"}) \cup {"-"}) \cup {Space}) \cup {"+"}
      BY DEF Flags
    <3> QED
      BY <3>4, <3>5
  <2>2. IsFiniteSet(d.flags)
    BY <1>1, <2>1, FS_Subset
  <2>3. SetToSeq(d.flags) \in Seq(d.flags) /\ Range(SetToSeq(d.flags)) = d.flags
    BY <2>2, FlagsSeq
  <2> QED
    BY <1>1, <2>3, SeqMonotonic
<1>7. (d.width > 0 \/ d.width = 0) /\ ~(d.width > 0 /\ d.width = 0)
  BY <1>1
<1>8. d.precision >= 0 => d.precision \in 0 .. 99
  BY <1>1
<1>3. /\ WidthOf(d) \in Seq(Digits) /\ Number(WidthOf(d), 10) = d.width
      /\ WidthOf(d) # <<>> => WidthOf(d)[1] # "0"
  <2>1. CASE d.width > 0
    BY <1>1, <2>1, DecimalIs DEF WidthOf
  <2>2. CASE d.width = 0
    BY <2>2, NumberOfNone DEF WidthOf
  <2> QED
    BY <1>7, <2>1, <2>2
<1>4. PrecisionOf(d) \in Seq(Digits \cup {"."})
  <2>1. CASE d.precision >= 0
    <3>1. Decimal(d.precision) \in Seq(Digits)
      BY <1>8, <2>1, DecimalIs
    <3>2. Decimal(d.precision) \in Seq(Digits \cup {"."})
      BY <3>1, SeqMonotonic
    <3>3. <<".">> \in Seq(Digits \cup {"."})
      OBVIOUS
    <3> QED
      BY <2>1, <3>2, <3>3, ConcatProperties DEF PrecisionOf
  <2>2. CASE ~(d.precision >= 0)
    <3>1. PrecisionOf(d) = <<>>
      BY <2>2 DEF PrecisionOf
    <3> QED
      BY <3>1
  <2> QED
    BY <2>1, <2>2
<1>5. d.length \in Seq(Modifiers)
  BY <1>1, LengthIs
<1>6. FormatOf(d) = ((((<<"%">> \o SetToSeq(d.flags)) \o WidthOf(d))
                       \o PrecisionOf(d)) \o d.length) \o <<d.conversion>>
  BY Zenon DEF FormatOf, WidthOf, PrecisionOf
<1> QED
  BY <1>2, <1>3, <1>4, <1>5, <1>6

(* Where these parts stand.                                                *)
Places(format, d, k, p1, p2, p3, p4, p5) ==
    /\ Stands(format, k, <<"%">>) /\ p1 = k + 1
    /\ Stands(format, p1, SetToSeq(d.flags)) /\ p2 = p1 + Len(SetToSeq(d.flags))
    /\ Stands(format, p2, WidthOf(d)) /\ p3 = p2 + Len(WidthOf(d))
    /\ Stands(format, p3, PrecisionOf(d)) /\ p4 = p3 + Len(PrecisionOf(d))
    /\ Stands(format, p4, d.length) /\ p5 = p4 + Len(d.length)
    /\ Stands(format, p5, <<d.conversion>>)

(* Each part is of the characters of a format.                             *)
LEMMA FormatSeq ==
    ASSUME NEW d \in AnyDirective, NEW s0, NEW s1, NEW s2, NEW s3, NEW s4, NEW s5,
           s0 = <<"%">>, s1 = SetToSeq(d.flags), s2 = WidthOf(d), s3 = PrecisionOf(d),
           s4 = d.length, s5 = <<d.conversion>>
    PROVE  /\ s0 \in Seq(Characters) /\ s1 \in Seq(Characters) /\ s2 \in Seq(Characters)
           /\ s3 \in Seq(Characters) /\ s4 \in Seq(Characters) /\ s5 \in Seq(Characters)
           /\ FormatOf(d) = ((((s0 \o s1) \o s2) \o s3) \o s4) \o s5
           /\ Len(s0) = 1 /\ Len(s5) = 1
           /\ s0 \o s1 \in Seq(Characters) /\ (s0 \o s1) \o s2 \in Seq(Characters)
           /\ ((s0 \o s1) \o s2) \o s3 \in Seq(Characters)
           /\ (((s0 \o s1) \o s2) \o s3) \o s4 \in Seq(Characters)
           /\ FormatOf(d) \in Seq(Characters)
<1>1. /\ s0 \in Seq(Characters) /\ s1 \in Seq(Characters) /\ s2 \in Seq(Characters)
      /\ s3 \in Seq(Characters) /\ s4 \in Seq(Characters) /\ s5 \in Seq(Characters)
  <2>1. /\ Flags \subseteq Characters /\ Modifiers \subseteq Characters
        /\ Conversions \subseteq Characters /\ "%" \in Characters /\ "." \in Characters
    BY DEF Characters, Modifiers, Conversions
  <2>2. Digits \subseteq Characters
    <3>1. Digits \subseteq Range(Small)
      BY AlphabetIs DEF Numerals
    <3> QED
      BY <3>1 DEF Characters
  <2>3. /\ s1 \in Seq(Flags) /\ s2 \in Seq(Digits) /\ s3 \in Seq(Digits \cup {"."})
        /\ s4 \in Seq(Modifiers)
    BY FormatParts
  <2>4. Digits \cup {"."} \subseteq Characters
    BY <2>1, <2>2
  <2>5. d.conversion \in Characters
    BY <2>1, DirectiveTypes DEF Conversions
  <2>6. s0 \in Seq(Characters) /\ s5 \in Seq(Characters)
    BY <2>1, <2>5
  <2> QED
    BY <2>1, <2>2, <2>3, <2>4, <2>6, SeqMonotonic
<1>2. FormatOf(d) = ((((s0 \o s1) \o s2) \o s3) \o s4) \o s5
  BY FormatParts
<1>3. Len(s0) = 1 /\ Len(s5) = 1
  OBVIOUS
<1>4. /\ s0 \o s1 \in Seq(Characters) /\ (s0 \o s1) \o s2 \in Seq(Characters)
      /\ ((s0 \o s1) \o s2) \o s3 \in Seq(Characters)
      /\ (((s0 \o s1) \o s2) \o s3) \o s4 \in Seq(Characters)
      /\ ((((s0 \o s1) \o s2) \o s3) \o s4) \o s5 \in Seq(Characters)
  BY <1>1, ConcatProperties
<1> QED
  BY <1>1, <1>2, <1>3, <1>4

LEMMA PlacesAre ==
    ASSUME NEW d \in AnyDirective, NEW format, Len(format) \in Nat,
           NEW k \in Nat, Stands(format, k, FormatOf(d))
    PROVE  /\ FormatOf(d) \in Seq(Characters)
           /\ \E p1, p2, p3, p4, p5 \in Nat :
                  /\ Places(format, d, k, p1, p2, p3, p4, p5)
                  /\ k + Len(FormatOf(d)) = p5 + 1
<1> DEFINE s0 == <<"%">>
           s1 == SetToSeq(d.flags)
           s2 == WidthOf(d)
           s3 == PrecisionOf(d)
           s4 == d.length
           s5 == <<d.conversion>>
<1>1. /\ s0 \in Seq(Characters) /\ s1 \in Seq(Characters) /\ s2 \in Seq(Characters)
      /\ s3 \in Seq(Characters) /\ s4 \in Seq(Characters) /\ s5 \in Seq(Characters)
      /\ FormatOf(d) = ((((s0 \o s1) \o s2) \o s3) \o s4) \o s5
      /\ Len(s0) = 1 /\ Len(s5) = 1
      /\ s0 \o s1 \in Seq(Characters) /\ (s0 \o s1) \o s2 \in Seq(Characters)
      /\ ((s0 \o s1) \o s2) \o s3 \in Seq(Characters)
      /\ (((s0 \o s1) \o s2) \o s3) \o s4 \in Seq(Characters)
      /\ FormatOf(d) \in Seq(Characters)
  BY FormatSeq, Zenon
<1> HIDE DEF s0, s1, s2, s3, s4, s5
<1>5. PICK q4 \in Seq(Characters) : q4 = (((s0 \o s1) \o s2) \o s3) \o s4
  BY <1>1
<1>6. PICK q3 \in Seq(Characters) : q3 = ((s0 \o s1) \o s2) \o s3
  BY <1>1
<1>7. PICK q2 \in Seq(Characters) : q2 = (s0 \o s1) \o s2
  BY <1>1
<1>8. PICK q1 \in Seq(Characters) : q1 = s0 \o s1
  BY <1>1
<1>9. FormatOf(d) = q4 \o s5 /\ q4 = q3 \o s4 /\ q3 = q2 \o s3 /\ q2 = q1 \o s2
  BY <1>1, <1>5, <1>6, <1>7, <1>8
<1>10. /\ Stands(format, k, q4) /\ Stands(format, k + Len(q4), s5)
       /\ Len(FormatOf(d)) = Len(q4) + 1
  <2>1. Stands(format, k, q4) /\ Stands(format, k + Len(q4), s5)
    <3>1. Stands(format, k, q4 \o s5)
      BY <1>9
    <3> QED
      BY <1>1, <3>1, StandsConcat
  <2>2. Len(q4 \o s5) = Len(q4) + Len(s5)
    BY <1>1, CharsConcat, Zenon
  <2> QED
    BY <1>1, <1>9, <2>1, <2>2
<1>11. Stands(format, k, q3) /\ Stands(format, k + Len(q3), s4)
  BY <1>1, <1>9, <1>10, StandsConcat
<1>12. Stands(format, k, q2) /\ Stands(format, k + Len(q2), s3)
  BY <1>1, <1>9, <1>11, StandsConcat
<1>13. Stands(format, k, q1) /\ Stands(format, k + Len(q1), s2)
  BY <1>1, <1>9, <1>12, StandsConcat
<1>14. Stands(format, k, s0) /\ Stands(format, k + Len(s0), s1)
  BY <1>1, <1>8, <1>13, StandsConcat
<1>15. /\ Len(s1) \in Nat /\ Len(s2) \in Nat /\ Len(s3) \in Nat /\ Len(s4) \in Nat
       /\ Len(q1) = 1 + Len(s1) /\ Len(q2) = Len(q1) + Len(s2)
       /\ Len(q3) = Len(q2) + Len(s3) /\ Len(q4) = Len(q3) + Len(s4)
  <2>1. /\ Len(s0 \o s1) = Len(s0) + Len(s1) /\ Len(q1 \o s2) = Len(q1) + Len(s2)
        /\ Len(q2 \o s3) = Len(q2) + Len(s3) /\ Len(q3 \o s4) = Len(q3) + Len(s4)
    BY <1>1, CharsConcat, Zenon
  <2>2. Len(s1) \in Nat /\ Len(s2) \in Nat /\ Len(s3) \in Nat /\ Len(s4) \in Nat
    BY <1>1, LenProperties
  <2> QED
    BY <1>1, <1>8, <1>9, <2>1, <2>2
<1>16. PICK l1 \in Nat, l2 \in Nat, l3 \in Nat, l4 \in Nat :
           l1 = Len(q1) /\ l2 = Len(q2) /\ l3 = Len(q3) /\ l4 = Len(q4)
  BY <1>15, SMTT(30)
<1>17. PICK p1 \in Nat, p2 \in Nat, p3 \in Nat, p4 \in Nat, p5 \in Nat :
           p1 = k + 1 /\ p2 = k + l1 /\ p3 = k + l2 /\ p4 = k + l3 /\ p5 = k + l4
  OBVIOUS
<1>18. /\ p2 = p1 + Len(s1) /\ p3 = p2 + Len(s2) /\ p4 = p3 + Len(s3) /\ p5 = p4 + Len(s4)
       /\ k + Len(FormatOf(d)) = p5 + 1
  BY <1>10, <1>15, <1>16, <1>17
<1>19. /\ Stands(format, k, s0) /\ Stands(format, p1, s1) /\ Stands(format, p2, s2)
       /\ Stands(format, p3, s3) /\ Stands(format, p4, s4) /\ Stands(format, p5, s5)
  BY <1>1, <1>10, <1>11, <1>12, <1>13, <1>14, <1>16, <1>17
<1>20. Places(format, d, k, p1, p2, p3, p4, p5)
  BY <1>17, <1>18, <1>19, Zenon DEF Places, s0, s1, s2, s3, s4, s5
<1>21. FormatOf(d) \in Seq(Characters)
  BY <1>1
<1> QED
  BY <1>18, <1>20, <1>21

(* What stands between two places.                                         *)
LEMMA Between ==
    ASSUME NEW S, NEW s \in Seq(S), NEW C, NEW format \in Seq(C), NEW p \in Nat \ {0},
           NEW q, q = p + Len(s), Stands(format, p, s)
    PROVE  /\ q \in Nat \ {0} /\ p <= q /\ q <= Len(format) + 1
           /\ SubSeq(format, p, q - 1) = s
           /\ \A x \in p .. q - 1 : format[x] \in S
           /\ p < q \/ (p = q /\ s = <<>>)
           /\ p < q => p \in p .. q - 1 /\ format[p] = s[1] /\ s # <<>>
<1>1. Len(s) \in Nat /\ Len(format) \in Nat /\ (s = <<>> <=> Len(s) = 0)
  BY LenProperties, EmptySeq
<1>2. PICK n \in Nat : n = Len(s)
  BY <1>1
<1>3. /\ q = p + n /\ q <= Len(format) + 1
      /\ \A x \in 1 .. n : format[p + x - 1] = s[x] /\ s[x] \in S
  BY <1>1, <1>2, ElementOfSeq DEF Stands
<1>4. SubSeq(format, p, q - 1) = s
  BY <1>2, <1>3, StandsSub
<1>5. \A x \in p .. q - 1 : format[x] \in S
  <2>1. TAKE x \in p .. q - 1
  <2>2. PICK y \in 1 .. n : y = x - p + 1 /\ p + y - 1 = x
    BY <1>3
  <2> QED
    BY <1>3, <2>2
<1>6. p < q => p \in p .. q - 1 /\ format[p] = s[1] /\ s # <<>>
  <2>1. SUFFICES ASSUME p < q PROVE p \in p .. q - 1 /\ format[p] = s[1] /\ s # <<>>
    OBVIOUS
  <2>2. 1 \in 1 .. n /\ p + 1 - 1 = p /\ p \in p .. q - 1 /\ n # 0
    BY <1>3, <2>1
  <2> QED
    BY <1>1, <1>2, <1>3, <2>2
<1>7. q \in Nat \ {0} /\ p <= q /\ (p < q \/ (p = q /\ n = 0))
  BY <1>3
<1> QED
  BY <1>1, <1>2, <1>3, <1>4, <1>5, <1>6, <1>7

(* parse_format reads a directive as it is written, and where it ends.     *)
LEMMA ParseIs ==
    ASSUME NEW d \in AnyDirective, NEW format \in Seq(Characters), NEW k \in Nat \ {0},
           Stands(format, k, FormatOf(d))
    PROVE  /\ ParsedAs(parse_format(format, k + 1), d)
           /\ parse_format(format, k + 1).next = k + Len(FormatOf(d))
           /\ k + Len(FormatOf(d)) <= Len(format) + 1
           /\ format[k] = "%" /\ Len(FormatOf(d)) >= 2 /\ Len(FormatOf(d)) \in Nat
<1>1. PICK all \in Nat : all = Len(format)
  BY LenProperties
<1>2. PICK p1, p2, p3, p4, p5 \in Nat :
          /\ Places(format, d, k, p1, p2, p3, p4, p5)
          /\ k + Len(FormatOf(d)) = p5 + 1
  BY <1>1, PlacesAre
<1>3. /\ SetToSeq(d.flags) \in Seq(Flags) /\ Range(SetToSeq(d.flags)) = d.flags
      /\ WidthOf(d) \in Seq(Digits) /\ Number(WidthOf(d), 10) = d.width
      /\ WidthOf(d) # <<>> => WidthOf(d)[1] # "0"
      /\ d.length \in Seq(Modifiers)
  BY FormatParts
<1>13. /\ p1 = k + 1 /\ p2 = p1 + Len(SetToSeq(d.flags)) /\ p3 = p2 + Len(WidthOf(d))
       /\ p4 = p3 + Len(PrecisionOf(d)) /\ p5 = p4 + Len(d.length)
       /\ Stands(format, k, <<"%">>) /\ Stands(format, p1, SetToSeq(d.flags))
       /\ Stands(format, p2, WidthOf(d)) /\ Stands(format, p3, PrecisionOf(d))
       /\ Stands(format, p4, d.length) /\ Stands(format, p5, <<d.conversion>>)
  BY <1>2, Zenon DEF Places
<1>14. PrecisionOf(d) \in Seq(Digits \cup {"."})
  BY FormatParts
<1>15. p1 \in Nat \ {0}
  BY <1>13
<1>16. p2 \in Nat \ {0}
  BY <1>3, <1>13, <1>15, Between
<1>17. p3 \in Nat \ {0}
  BY <1>3, <1>13, <1>16, Between
<1>18. p4 \in Nat \ {0}
  BY <1>13, <1>14, <1>17, Between
(* Each part, and the character where it begins.                           *)
<1>4. p5 <= all /\ format[p5] = d.conversion /\ d.conversion \in Conversions
  <2>1. Stands(format, p5, <<d.conversion>>)
    BY <1>13
  <2>2. Len(<<d.conversion>>) = 1 /\ <<d.conversion>>[1] = d.conversion /\ 1 \in 1 .. 1
    OBVIOUS
  <2>3. p5 + 1 <= all + 1 /\ format[p5 + 1 - 1] = d.conversion
    BY <1>1, <2>1, <2>2 DEF Stands
  <2>4. d.conversion \in Conversions
    BY DirectiveTypes DEF Conversions
  <2> QED
    BY <2>3, <2>4
<1>5. /\ p4 <= p5 /\ SubSeq(format, p4, p5 - 1) = d.length
      /\ \A x \in p4 .. p5 - 1 : format[x] \in Modifiers
      /\ p4 < p5 \/ p4 = p5
      /\ p4 < p5 => p4 \in p4 .. p5 - 1
  <2>1. PICK s \in Seq(Modifiers) : s = d.length
    BY <1>3
  <2>2. p5 = p4 + Len(s) /\ Stands(format, p4, s)
    BY <1>13, <2>1
  <2>3. /\ p4 <= p5 /\ SubSeq(format, p4, p5 - 1) = s
        /\ \A x \in p4 .. p5 - 1 : format[x] \in Modifiers
        /\ p4 < p5 \/ (p4 = p5 /\ s = <<>>)
        /\ p4 < p5 => p4 \in p4 .. p5 - 1 /\ format[p4] = s[1] /\ s # <<>>
    BY <1>18, <2>2, Between
  <2> QED
    BY <2>1, <2>3
<1>6. format[p4] \in Modifiers \cup Conversions
  BY <1>4, <1>5
<1>7. /\ p3 <= p4
      /\ d.precision >= 0 =>
             /\ p3 < p4 /\ format[p3] = "."
             /\ SubSeq(format, p3 + 1, p4 - 1) = Decimal(d.precision)
             /\ \A x \in p3 + 1 .. p4 - 1 : format[x] \in Digits
             /\ Number(Decimal(d.precision), 10) = d.precision
      /\ ~(d.precision >= 0) => p3 = p4
  <2>1. CASE d.precision >= 0
    <3>1. d.precision \in 0 .. 99
      BY <2>1, DirectiveTypes, Zenon
    <3>2. PICK digits \in Seq(Digits) : /\ digits = Decimal(d.precision)
                                        /\ Number(digits, 10) = d.precision
      BY <3>1, DecimalIs
    <3>3. PrecisionOf(d) = <<".">> \o digits
      BY <2>1, <3>2 DEF PrecisionOf
    <3>4. PICK dot \in Seq(Digits \cup {"."}) : dot = <<".">> /\ Len(dot) = 1 /\ dot[1] = "."
      <4>1. "." \in Digits \cup {"."}
        OBVIOUS
      <4>2. <<".">> \in Seq(Digits \cup {"."}) /\ Len(<<".">>) = 1 /\ <<".">>[1] = "."
        BY <4>1
      <4> QED
        BY <4>2
    <3>5. digits \in Seq(Digits \cup {"."})
      <4>1. Digits \subseteq Digits \cup {"."}
        OBVIOUS
      <4> QED
        BY <4>1, SeqMonotonic
    <3>6. Stands(format, p3, dot \o digits)
      BY <1>13, <3>3, <3>4
    <3>7. Stands(format, p3, dot) /\ Stands(format, p3 + Len(dot), digits)
      BY <1>1, <1>17, <3>5, <3>6, StandsConcat
    <3>8. Len(PrecisionOf(d)) = Len(dot) + Len(digits) /\ Len(digits) \in Nat
      BY <3>3, <3>4, <3>5, ConcatProperties, LenProperties
    <3>9. PICK n \in Nat : n = Len(digits)
      BY <3>8
    <3>10. PICK at \in Nat \ {0} : at = p3 + 1
      BY <1>17
    <3>11. p4 = at + Len(digits) /\ Stands(format, at, digits)
      BY <1>13, <3>4, <3>7, <3>8, <3>9, <3>10
    <3>12. /\ at <= p4 /\ SubSeq(format, at, p4 - 1) = digits
           /\ \A x \in at .. p4 - 1 : format[x] \in Digits
      BY <3>11, Between
    <3>13. format[p3] = "."
      <4>1. p3 + 1 - 1 = p3 /\ 1 \in 1 .. 1
        BY <1>17
      <4> QED
        BY <3>4, <3>7, <4>1 DEF Stands
    <3>14. p3 < p4
      BY <3>10, <3>12
    <3> QED
      BY <2>1, <3>2, <3>10, <3>12, <3>13, <3>14
  <2>2. CASE ~(d.precision >= 0)
    <3>1. Len(PrecisionOf(d)) = 0
      BY <2>2 DEF PrecisionOf
    <3>2. p4 = p3
      BY <1>13, <1>17, <3>1
    <3> QED
      BY <1>17, <2>2, <3>2
  <2> QED
    BY <2>1, <2>2
<1>8. format[p3] \in Modifiers \cup Conversions \cup {"."}
  BY <1>6, <1>7
<1>9. /\ p2 <= p3 /\ SubSeq(format, p2, p3 - 1) = WidthOf(d)
      /\ \A x \in p2 .. p3 - 1 : format[x] \in Digits
      /\ p2 < p3 \/ p2 = p3
      /\ p2 < p3 => p2 \in p2 .. p3 - 1 /\ format[p2] = WidthOf(d)[1] /\ WidthOf(d) # <<>>
  <2>1. WidthOf(d) \in Seq(Digits) /\ p3 = p2 + Len(WidthOf(d)) /\ Stands(format, p2, WidthOf(d))
    BY <1>3, <1>13
  <2>2. /\ p2 <= p3 /\ SubSeq(format, p2, p3 - 1) = WidthOf(d)
        /\ \A x \in p2 .. p3 - 1 : format[x] \in Digits
        /\ p2 < p3 \/ (p2 = p3 /\ WidthOf(d) = <<>>)
        /\ p2 < p3 => p2 \in p2 .. p3 - 1 /\ format[p2] = WidthOf(d)[1] /\ WidthOf(d) # <<>>
    BY <1>16, <2>1, Between
  <2> QED
    BY <2>2
<1>10. format[p2] \in Modifiers \cup Conversions \cup {"."} \cup (Digits \ {"0"})
  BY <1>3, <1>8, <1>9
<1>11. /\ p1 <= p2 /\ SubSeq(format, p1, p2 - 1) = SetToSeq(d.flags)
       /\ \A x \in p1 .. p2 - 1 : format[x] \in Flags
  <2>1. SetToSeq(d.flags) \in Seq(Flags) /\ p2 = p1 + Len(SetToSeq(d.flags)) /\ Stands(format, p1, SetToSeq(d.flags))
    BY <1>3, <1>13
  <2>2. /\ p1 <= p2 /\ SubSeq(format, p1, p2 - 1) = SetToSeq(d.flags)
        /\ \A x \in p1 .. p2 - 1 : format[x] \in Flags
        /\ p1 < p2 \/ (p1 = p2 /\ SetToSeq(d.flags) = <<>>)
        /\ p1 < p2 => p1 \in p1 .. p2 - 1 /\ format[p1] = SetToSeq(d.flags)[1] /\ SetToSeq(d.flags) # <<>>
    BY <1>15, <2>1, Between, SMTT(30)
  <2> QED
    BY <2>2
<1>12. format[k] = "%"
  <2>1. Len(<<"%">>) = 1 /\ <<"%">>[1] = "%" /\ k + 1 - 1 = k /\ 1 \in 1 .. 1
    OBVIOUS
  <2> QED
    BY <1>13, <2>1 DEF Stands
(* Where parse_format finds their ends.                                    *)
<1>19. /\ p2 \in p1 .. all + 1 /\ p3 \in p2 .. all + 1 /\ p5 \in p4 .. all + 1
       /\ p3 <= all /\ p4 \in p3 .. all + 1
       /\ d.precision >= 0 => p4 \in p3 + 1 .. all + 1
  BY <1>4, <1>5, <1>7, <1>9, <1>11, <1>18, <1>17, <1>16, <1>15
<1>20. Past(format, p1, Flags) = p2
  <2>1. format[p2] \notin Flags
    BY <1>10, Distinct
  <2> QED
    BY <1>1, <1>11, <1>15, <1>19, <2>1, PastUnique
<1>21. Past(format, p2, Digits) = p3
  <2>1. format[p3] \notin Digits
    BY <1>8, Distinct
  <2> QED
    BY <1>1, <1>9, <1>16, <1>19, <2>1, PastUnique
<1>22. p3 <= Len(format) /\ format[p3] = "." <=> d.precision >= 0
  <2>1. ~(d.precision >= 0) => format[p3] # "."
    BY <1>6, <1>7, Distinct
  <2> QED
    BY <1>1, <1>7, <1>19, <2>1
<1>23. d.precision >= 0 => Past(format, p3 + 1, Digits) = p4
  <2>1. SUFFICES ASSUME d.precision >= 0 PROVE Past(format, p3 + 1, Digits) = p4
    OBVIOUS
  <2>2. format[p4] \notin Digits
    BY <1>6, Distinct
  <2>3. PICK at \in Nat : at = p3 + 1
    BY <1>17
  <2>4. p4 \in at .. all + 1 /\ \A x \in at .. p4 - 1 : format[x] \in Digits
    BY <1>7, <1>19, <2>1, <2>3
  <2> QED
    BY <1>1, <2>2, <2>3, <2>4, PastUnique
<1>24. Past(format, p4, Modifiers) = p5
  <2>1. format[p5] \notin Modifiers
    BY <1>4, Distinct
  <2> QED
    BY <1>1, <1>5, <1>18, <1>19, <2>1, PastUnique
(* What it makes of them.                                                  *)
<1>25. PICK f : f = parse_format(format, k + 1)
  OBVIOUS
<1> DEFINE width_at == Past(format, k + 1, Flags)
           dot_at == Past(format, width_at, Digits)
           has == dot_at <= Len(format) /\ format[dot_at] = "."
           precision_at == IF has THEN dot_at + 1 ELSE dot_at
           length_at == IF has THEN Past(format, precision_at, Digits) ELSE dot_at
           conversion_at == Past(format, length_at, Modifiers)
           long == Range(SubSeq(format, length_at, conversion_at - 1))
<1>26. f = [flags |-> Range(SubSeq(format, k + 1, width_at - 1)),
            width |-> Number(SubSeq(format, width_at, dot_at - 1), 10),
            has_precision |-> has,
            precision |-> Number(SubSeq(format, precision_at, length_at - 1), 10),
            long |-> long # {} /\ "h" \notin long,
            conversion |-> IF conversion_at <= Len(format) THEN format[conversion_at]
                                                           ELSE EndString,
            next |-> conversion_at + 1]
  BY <1>25, Zenon DEF parse_format, Past, Modifiers
<1>40. width_at = p2
  BY <1>13, <1>20
<1> HIDE DEF width_at
<1>41. dot_at = p3
  BY <1>21, <1>40
<1> HIDE DEF dot_at
<1>27. has <=> d.precision >= 0
  BY <1>22, <1>41
<1>28. length_at = p4
  BY <1>7, <1>22, <1>23, <1>41
<1>29. has => precision_at = p3 + 1
  BY <1>41
<1> HIDE DEF has, precision_at, length_at
<1>30. conversion_at = p5
  BY <1>24, <1>28
<1> HIDE DEF conversion_at
<1>31. long = Range(d.length)
  BY <1>5, <1>28, <1>30
<1> HIDE DEF long
<1>32. /\ f.flags = Range(SubSeq(format, k + 1, width_at - 1))
       /\ f.width = Number(SubSeq(format, width_at, dot_at - 1), 10)
       /\ f.precision = Number(SubSeq(format, precision_at, length_at - 1), 10)
       /\ f.conversion = IF conversion_at <= Len(format) THEN format[conversion_at] ELSE EndString
       /\ f.next = conversion_at + 1
  BY <1>26
<1>33. (f.has_precision <=> has) /\ (f.long <=> long # {} /\ "h" \notin long)
  BY <1>26, Zenon
<1>34. f.flags = d.flags /\ f.width = d.width
  BY <1>3, <1>9, <1>11, <1>13, <1>32, <1>40, <1>41
<1>35. f.has_precision => f.precision = d.precision
  BY <1>7, <1>27, <1>28, <1>29, <1>32, <1>33
<1>36. f.conversion = d.conversion /\ f.next = p5 + 1
  BY <1>1, <1>4, <1>30, <1>32
<1>37. f.long <=> Range(d.length) \cap {"l", "j", "z", "t"} # {}
  BY <1>31, <1>33, LengthIs, DirectiveTypes
<1>38. ParsedAs(f, d)
  BY <1>27, <1>33, <1>34, <1>35, <1>36, <1>37 DEF ParsedAs, Follows
<1>39. Len(FormatOf(d)) \in Nat /\ Len(FormatOf(d)) >= 2
  <2>1. FormatOf(d) \in Seq(Characters)
    BY <1>1, PlacesAre
  <2>2. PICK n \in Nat : n = Len(FormatOf(d))
    BY <2>1, LenProperties
  <2>3. n >= 2
    <3>1. p1 <= p2 /\ p2 <= p3 /\ p3 <= p4 /\ p4 <= p5 /\ p1 = k + 1
      BY <1>5, <1>7, <1>9, <1>11, <1>13
    <3>2. k + n = p5 + 1
      BY <1>2, <2>2
    <3> QED
      BY <3>1, <3>2
  <2> QED
    BY <2>2, <2>3
<1> QED
  BY <1>1, <1>2, <1>4, <1>12, <1>25, <1>36, <1>38, <1>39

(* A round of do_printf's loop for the console at a plain character, and   *)
(* at a directive.                                                         *)
At(k, args, text) == [at |-> k, args |-> args, p |-> Shown(text)]

LEMMA PlainRound ==
    ASSUME NEW format \in Seq(Characters), NEW k \in Nat, k <= Len(format), format[k] # "%",
           NEW args, NEW text \in Seq(Characters), NEW c \in Characters, c = format[k]
    PROVE  /\ Round(format, At(k, args, text)) = At(k + 1, args, text \o <<c>>)
           /\ GivesText(format, At(k, args, text), Characters)
<1> DEFINE s == At(k, args, text)
<1>1. s.at = k /\ s.args = args /\ s.p = Shown(text)
  BY DEF At
<1> HIDE DEF s
<1>2. ~Full(Shown(text))
  BY DEF Full, Shown
<1>3. do_snputchar(Shown(text), c) = Shown(Append(text, c))
  <2>1. 0 \in Nat
    OBVIOUS
  <2> QED
    BY <2>1, OneMore
<1>4. Append(text, c) = text \o <<c>>
  BY AppendIsConcat
<1>5. Round(format, s) = Plain(format, s)
  <2>1. ~(k > Len(format)) /\ Len(format) \in Nat
    BY LenProperties
  <2> QED
    BY <1>1, <2>1, Zenon DEF Round
<1>6. Plain(format, s) = [at |-> k + 1, args |-> args, p |-> do_snputchar(Shown(text), c)]
  BY <1>1, <1>2, Zenon DEF Plain
<1>7. ~AsksFor(format, s)
  BY <1>1 DEF AsksFor
<1> QED
  BY <1>3, <1>4, <1>5, <1>6, <1>7, Zenon DEF At, GivesText, s

LEMMA DirectiveRound ==
    ASSUME NEW format \in Seq(Characters), NEW k \in Nat, k <= Len(format), format[k] = "%",
           NEW args, NEW text \in Seq(Characters),
           NEW f, f = parse_format(format, k + 1), f.conversion # EndString,
           NEW arg, arg = (IF TakesArgument(f) THEN Head(args) ELSE 0),
           Convert(f, arg) \in Seq(Characters)
    PROVE  /\ Round(format, At(k, args, text)) =
                  At(f.next, IF TakesArgument(f) THEN Tail(args) ELSE args,
                     text \o Convert(f, arg))
           /\ GivesText(format, At(k, args, text), Characters)
<1> DEFINE s == At(k, args, text)
<1>1. s.at = k /\ s.args = args /\ s.p = Shown(text)
  BY DEF At
<1> HIDE DEF s
<1>2. ~Full(Shown(text))
  BY DEF Full, Shown
<1>3. put(Shown(text), Convert(f, arg)) = Shown(text \o Convert(f, arg))
  <2>1. 0 \in Nat
    OBVIOUS
  <2>2. PICK more \in Seq(Characters) : more = Convert(f, arg)
    OBVIOUS
  <2>3. put(Shown(text), more) = Shown(text \o more)
    BY <2>1, PutAppends
  <2> QED
    BY <2>2, <2>3, Zenon
<1>4. Round(format, s) = Directive(format, s, f)
  <2>1. ~(k > Len(format)) /\ Len(format) \in Nat
    BY LenProperties
  <2> QED
    BY <1>1, <2>1, Zenon DEF Round
<1>5. Directive(format, s, f) =
          [at |-> f.next, args |-> IF TakesArgument(f) THEN Tail(args) ELSE args,
           p |-> put(Shown(text), Convert(f, arg))]
  BY <1>1, <1>2, Zenon DEF Directive
<1>6. Converted(format, s) = Convert(f, arg)
  BY <1>1, Zenon DEF Converted
<1>7. GivesText(format, s, Characters)
  BY <1>6, Zenon DEF GivesText
<1> QED
  BY <1>3, <1>4, <1>5, <1>7, Zenon DEF At, s

(* What a piece of a format prints does not depend on where it stands and  *)
(* on what has been printed.                                               *)
Args == Words \cup Strings \cup {NULL, "e"}

OneRound(piece, args, text) ==
    \A format \in Seq(Characters), k \in Nat \ {0}, rest \in Seq(Args), t \in Seq(Characters) :
        Stands(format, k, piece) =>
            /\ Round(format, At(k, args \o rest, t)) = At(k + Len(piece), rest, t \o text)
            /\ GivesText(format, At(k, args \o rest, t), Characters)

IsPiece(piece, args, text) ==
    /\ piece \in Seq(Characters) /\ Len(piece) \in Nat \ {0}
    /\ args \in Seq(Args) /\ text \in Seq(Characters)
    /\ OneRound(piece, args, text)

LEMMA HeadTailOfArgs ==
    ASSUME NEW arg \in Args, NEW rest \in Seq(Args)
    PROVE  Head(<<arg>> \o rest) = arg /\ Tail(<<arg>> \o rest) = rest
<1>1. <<arg>> \in Seq(Args) /\ Len(<<arg>>) = 1 /\ <<arg>>[1] = arg
  OBVIOUS
<1>2. PICK one \in Seq(Args) : one = <<arg>>
  BY <1>1
<1>3. PICK n \in Nat : n = Len(rest)
  BY LenProperties
<1>4. /\ one \o rest \in Seq(Args) /\ Len(one \o rest) = 1 + n
      /\ \A x \in 1 .. 1 + n : (one \o rest)[x] = IF x <= 1 THEN one[x] ELSE rest[x - 1]
  BY <1>1, <1>2, <1>3, ConcatProperties
<1>5. PICK both \in Seq(Args) : both = one \o rest
  BY <1>4
<1>6. both # <<>> /\ Head(both) = both[1] /\ both[1] = arg
  <2>1. 1 \in 1 .. 1 + n /\ 1 <= 1
    OBVIOUS
  <2>2. Len(both) # 0
    BY <1>4, <1>5
  <2> QED
    BY <1>1, <1>2, <1>4, <1>5, <2>1, <2>2, EmptySeq
<1>7. Tail(both) \in Seq(Args) /\ Len(Tail(both)) = n
      /\ \A x \in 1 .. n : Tail(both)[x] = both[x + 1]
  BY <1>4, <1>5, <1>6, HeadTailProperties
<1>8. \A x \in 1 .. n : Tail(both)[x] = rest[x]
  <2>1. TAKE x \in 1 .. n
  <2>2. PICK y \in 1 .. 1 + n : y = x + 1 /\ ~(y <= 1) /\ y - 1 = x
    OBVIOUS
  <2> QED
    BY <1>4, <1>5, <1>7, <2>2
<1>9. Tail(both) = rest
  BY <1>3, <1>7, <1>8, SeqEqual
<1> QED
  BY <1>2, <1>5, <1>6, <1>9

(* What a conversion prints depends on the directive, not on where it was  *)
(* read.                                                                   *)
LEMMA SameText ==
    ASSUME NEW d \in AnyDirective, NEW f, NEW g, ParsedAs(f, d), ParsedAs(g, d), NEW arg
    PROVE  Convert(f, arg) = Convert(g, arg)
<1>1. /\ f.flags = g.flags /\ f.width = g.width /\ f.conversion = g.conversion
      /\ f.has_precision <=> g.has_precision
      /\ f.has_precision => f.precision = g.precision
      /\ f.long <=> g.long
  BY DEF ParsedAs, Follows
<1>2. /\ \A text : Field(text, f) = Field(text, g)
      /\ Base(f) = Base(g)
      /\ \A val, negative, leftzero :
             Leftbuf(val, f, negative, leftzero) = Leftbuf(val, g, negative, leftzero)
      /\ Width(f) = Width(g)
  <2>1. \A text : Field(text, f) = Field(text, g)
    BY <1>1, Zenon DEF Field
  <2>2. Base(f) = Base(g)
    BY <1>1, Zenon DEF Base
  <2>3. \A val, negative, leftzero :
             Leftbuf(val, f, negative, leftzero) = Leftbuf(val, g, negative, leftzero)
    <3>1. TAKE val, negative, leftzero
    <3> QED
      BY <1>1 DEF Leftbuf
  <2>4. Width(f) = Width(g)
    BY <1>1, Zenon DEF Width
  <2> QED
    BY <2>1, <2>2, <2>3, <2>4
<1>3. ASSUME NEW val, NEW negative
      PROVE  do_conversion_int(val, f, negative) = do_conversion_int(val, g, negative)
  <2> DEFINE digits == valconv(val, Powers(Base(g)),
                               IF g.conversion = "X" THEN Capital ELSE Small)
             Leftzero(e) == IF e.has_precision /\ e.precision > Len(digits)
                            THEN e.precision - Len(digits) ELSE 0
             Zeros(e) == IF "0" \in e.flags /\ ~e.has_precision /\ "-" \notin e.flags
                         THEN e.width - Len(Leftbuf(val, e, negative, Leftzero(e))) - Len(digits)
                         ELSE Leftzero(e)
             Text(e) == IF e.has_precision /\ e.precision = 0 /\ val = 0 THEN <<>>
                        ELSE Field(Leftbuf(val, e, negative, Leftzero(e))
                                   \o Repeat("0", Zeros(e)) \o digits, e)
  <2>1. do_conversion_int(val, g, negative) = Text(g)
    BY Zenon DEF do_conversion_int
  <2>2. do_conversion_int(val, f, negative) = Text(f)
    BY <1>1, <1>2, Zenon DEF do_conversion_int
  <2> HIDE DEF digits
  <2>3. Leftzero(f) = Leftzero(g)
    BY <1>1, Zenon
  <2> HIDE DEF Leftzero
  <2>4. Leftbuf(val, f, negative, Leftzero(f)) = Leftbuf(val, g, negative, Leftzero(g))
    BY <1>2, <2>3, Zenon
  <2>5. Zeros(f) = Zeros(g)
    BY <1>1, <2>3, <2>4, Zenon
  <2> HIDE DEF Zeros
  <2>6. Text(f) = Text(g)
    BY <1>1, <1>2, <2>4, <2>5, Zenon
  <2> HIDE DEF Text
  <2> QED
    BY <2>1, <2>2, <2>6, Zenon
<1>4. ASSUME NEW str PROVE do_conversion_string(str, f) = do_conversion_string(str, g)
  <2> DEFINE Part(e) == IF e.has_precision /\ e.precision < Len(str) THEN e.precision
                                                                     ELSE Len(str)
  <2>1. Part(f) = Part(g)
    BY <1>1, Zenon
  <2>2. /\ do_conversion_string(str, f) = Field(SubSeq(str, 1, Part(f)), f)
        /\ do_conversion_string(str, g) = Field(SubSeq(str, 1, Part(g)), g)
    BY Zenon DEF do_conversion_string
  <2> HIDE DEF Part
  <2> QED
    BY <1>2, <2>1, <2>2, Zenon
<1>5. Unsigned(arg, f) = Unsigned(arg, g)
  BY <1>1, Zenon DEF Unsigned
<1> QED
  BY <1>1, <1>2, <1>3, <1>4, <1>5 DEF Convert

LEMMA AnyDirectiveIs == Directives \subseteq AnyDirective
<1>1. Flags = {"#", "0", "-", Space, "+"}
  BY Zenon DEF Flags
<1> QED
  BY <1>1, PrintfAssumption, Zenon DEF AnyDirective

(* The text of a directive.                                                *)
TextOf(d, arg) == Convert(parse_format(FormatOf(d), 2), arg)

LEMMA FormatStands ==
    ASSUME NEW d \in AnyDirective
    PROVE  /\ FormatOf(d) \in Seq(Characters) /\ Stands(FormatOf(d), 1, FormatOf(d))
           /\ ParsedAs(parse_format(FormatOf(d), 2), d)
           /\ Len(FormatOf(d)) \in Nat /\ Len(FormatOf(d)) >= 2
<1>1. FormatOf(d) \in Seq(Characters)
  BY FormatSeq, Zenon
<1>2. PICK s \in Seq(Characters) : s = FormatOf(d)
  BY <1>1
<1>3. Stands(s, 1, s)
  BY LenProperties DEF Stands
<1>4. 1 \in Nat \ {0} /\ 1 + 1 = 2
  OBVIOUS
<1>5. ParsedAs(parse_format(s, 1 + 1), d) /\ Len(s) \in Nat /\ Len(s) >= 2
  BY <1>2, <1>3, <1>4, ParseIs
<1> QED
  BY <1>2, <1>3, <1>4, <1>5

(* A directive is a piece with a text of its own.                          *)
LEMMA DirectivePiece ==
    ASSUME NEW d \in AnyDirective, NEW arg \in Args, TextOf(d, arg) \in Seq(Characters)
    PROVE  IsPiece(FormatOf(d), <<arg>>, TextOf(d, arg))
<1>1. /\ FormatOf(d) \in Seq(Characters) /\ ParsedAs(parse_format(FormatOf(d), 2), d)
      /\ Len(FormatOf(d)) \in Nat /\ Len(FormatOf(d)) >= 2
  BY FormatStands
<1>2. PICK n \in Nat : n = Len(FormatOf(d)) /\ n >= 2
  BY <1>1
<1>3. ASSUME NEW format \in Seq(Characters), NEW k \in Nat \ {0}, NEW rest \in Seq(Args),
             NEW t \in Seq(Characters), Stands(format, k, FormatOf(d))
      PROVE  /\ Round(format, At(k, <<arg>> \o rest, t)) = At(k + n, rest, t \o TextOf(d, arg))
             /\ GivesText(format, At(k, <<arg>> \o rest, t), Characters)
  <2>1. PICK f : f = parse_format(format, k + 1)
    OBVIOUS
  <2>2. /\ ParsedAs(f, d) /\ f.next = k + n /\ k + n <= Len(format) + 1 /\ format[k] = "%"
    BY <1>2, <1>3, <2>1, ParseIs
  <2>3. k \in Nat /\ k <= Len(format)
    BY <1>2, <2>2, LenProperties
  <2>4. f.conversion \in {"d", "i", "u", "o", "x", "X", "p", "s"}
    BY <2>2, DirectiveTypes DEF ParsedAs, Follows
  <2>5. f.conversion # EndString /\ TakesArgument(f)
    BY <2>4 DEF EndString, TakesArgument
  <2>6. Head(<<arg>> \o rest) = arg /\ Tail(<<arg>> \o rest) = rest
    BY HeadTailOfArgs
  <2>7. Convert(f, arg) = TextOf(d, arg)
    BY <1>1, <2>2, SameText DEF TextOf
  <2>8. PICK args : args = <<arg>> \o rest
    OBVIOUS
  <2>9. /\ arg = IF TakesArgument(f) THEN Head(args) ELSE 0
        /\ Convert(f, arg) \in Seq(Characters)
    BY <2>5, <2>6, <2>7, <2>8
  <2>11. format[k] = "%"
    BY <2>2
  <2>10. /\ Round(format, At(k, args, t)) =
                At(f.next, IF TakesArgument(f) THEN Tail(args) ELSE args, t \o Convert(f, arg))
         /\ GivesText(format, At(k, args, t), Characters)
    BY <2>1, <2>3, <2>5, <2>9, <2>11, DirectiveRound
  <2> QED
    BY <2>2, <2>5, <2>6, <2>7, <2>8, <2>10, Zenon
<1>4. <<arg>> \in Seq(Args)
  OBVIOUS
<1>5. OneRound(FormatOf(d), <<arg>>, TextOf(d, arg))
  BY <1>2, <1>3, Zenon DEF OneRound
<1>6. Len(FormatOf(d)) \in Nat \ {0}
  BY <1>1
<1> QED
  BY <1>1, <1>4, <1>5, <1>6 DEF IsPiece

(* So is one with nothing between the '%' and its conversion.              *)
IsShort(f, c) ==
    f.flags = {} /\ f.width = 0 /\ ~f.has_precision /\ f.conversion = c

LEMMA ParseShort ==
    ASSUME NEW c, c \notin Flags \cup Digits \cup Modifiers \cup {"."},
           NEW format \in Seq(Characters), NEW k \in Nat \ {0}, Stands(format, k, <<"%", c>>)
    PROVE  /\ IsShort(parse_format(format, k + 1), c)
           /\ parse_format(format, k + 1).next = k + 2
           /\ k <= Len(format) /\ format[k] = "%"
<1>1. PICK all \in Nat : all = Len(format)
  BY LenProperties
<1>2. PICK at \in Nat : at = k + 1
  OBVIOUS
<1>3. format[k] = "%" /\ format[at] = c /\ at <= all /\ k <= all
  <2>1. /\ Len(<<"%", c>>) = 2 /\ <<"%", c>>[1] = "%" /\ <<"%", c>>[2] = c
        /\ 1 \in 1 .. 2 /\ 2 \in 1 .. 2
    OBVIOUS
  <2>2. format[k + 1 - 1] = "%" /\ format[k + 2 - 1] = c /\ k + 2 <= all + 1
    BY <1>1, <2>1 DEF Stands
  <2>3. k + 1 - 1 = k /\ k + 2 - 1 = at
    BY <1>2
  <2> QED
    BY <1>2, <2>2, <2>3
<1>4. at \in at .. all + 1 /\ \A S : \A h \in at .. at - 1 : format[h] \in S
  BY <1>3
<1>5. \A S : format[at] \notin S => Past(format, at, S) = at
  BY <1>1, <1>4, PastUnique
<1>6. PICK f : f = parse_format(format, k + 1)
  OBVIOUS
<1> DEFINE width_at == Past(format, k + 1, Flags)
           dot_at == Past(format, width_at, Digits)
           has == dot_at <= Len(format) /\ format[dot_at] = "."
           precision_at == IF has THEN dot_at + 1 ELSE dot_at
           length_at == IF has THEN Past(format, precision_at, Digits) ELSE dot_at
           conversion_at == Past(format, length_at, Modifiers)
           long == Range(SubSeq(format, length_at, conversion_at - 1))
<1>7. f = [flags |-> Range(SubSeq(format, k + 1, width_at - 1)),
           width |-> Number(SubSeq(format, width_at, dot_at - 1), 10),
           has_precision |-> has,
           precision |-> Number(SubSeq(format, precision_at, length_at - 1), 10),
           long |-> long # {} /\ "h" \notin long,
           conversion |-> IF conversion_at <= Len(format) THEN format[conversion_at]
                                                          ELSE EndString,
           next |-> conversion_at + 1]
  BY <1>6, Zenon DEF parse_format, Past, Modifiers
<1>8. width_at = at
  BY <1>2, <1>3, <1>5
<1> HIDE DEF width_at
<1>9. dot_at = at
  BY <1>3, <1>5, <1>8
<1> HIDE DEF dot_at
<1>10. ~has
  BY <1>3, <1>9
<1>11. length_at = at
  BY <1>9, <1>10
<1> HIDE DEF has, precision_at, length_at
<1>12. conversion_at = at
  BY <1>3, <1>5, <1>11
<1> HIDE DEF conversion_at, long
<1>13. /\ f.flags = Range(SubSeq(format, k + 1, width_at - 1))
       /\ f.width = Number(SubSeq(format, width_at, dot_at - 1), 10)
       /\ f.conversion = IF conversion_at <= Len(format) THEN format[conversion_at] ELSE EndString
       /\ f.next = conversion_at + 1
  BY <1>7
<1>14. ~f.has_precision
  BY <1>7, <1>10, Zenon
<1>15. SubSeq(format, at, at - 1) = <<>>
  <2>1. at \in Int /\ at - 1 \in Int /\ at - 1 < at
    OBVIOUS
  <2> QED
    BY <2>1, SubSeqEmpty
<1>16. f.flags = {} /\ f.width = 0
  <2>1. Range(<<>>) = {}
    BY DEF Range
  <2> QED
    BY <1>2, <1>8, <1>9, <1>13, <1>15, <2>1, NumberOfNone
<1>17. f.conversion = c /\ f.next = k + 2
  BY <1>1, <1>2, <1>3, <1>12, <1>13
<1> QED
  BY <1>1, <1>3, <1>6, <1>14, <1>16, <1>17 DEF IsShort

LEMMA ShortPiece ==
    ASSUME NEW c \in Characters, c \notin Flags \cup Digits \cup Modifiers \cup {"."},
           c # EndString, NEW arg, NEW text \in Seq(Characters), NEW args \in Seq(Args),
           \A f : IsShort(f, c) =>
               /\ Convert(f, arg) = text
               /\ \/ TakesArgument(f) /\ arg \in Args /\ args = <<arg>>
                  \/ ~TakesArgument(f) /\ arg = 0 /\ args = <<>>
    PROVE  IsPiece(<<"%", c>>, args, text)
<1> DEFINE piece == <<"%", c>>
<1>1. piece \in Seq(Characters) /\ Len(piece) = 2
  <2>1. "%" \in Characters
    BY DEF Characters
  <2> QED
    BY <2>1
<1>5. PICK n \in Nat : n = Len(piece) /\ n = 2
  BY <1>1
<1>2. ASSUME NEW format \in Seq(Characters), NEW k \in Nat \ {0}, NEW rest \in Seq(Args),
             NEW t \in Seq(Characters), Stands(format, k, piece)
      PROVE  /\ Round(format, At(k, args \o rest, t)) = At(k + n, rest, t \o text)
             /\ GivesText(format, At(k, args \o rest, t), Characters)
  <2>1. PICK f : f = parse_format(format, k + 1)
    OBVIOUS
  <2>2. IsShort(f, c) /\ f.next = k + n /\ k <= Len(format) /\ format[k] = "%"
    BY <1>2, <1>5, <2>1, ParseShort
  <2>3. f.conversion # EndString /\ k \in Nat
    BY <2>2 DEF IsShort
  <2>4. /\ Convert(f, arg) = text
        /\ \/ TakesArgument(f) /\ arg \in Args /\ args = <<arg>>
           \/ ~TakesArgument(f) /\ arg = 0 /\ args = <<>>
    BY <2>2
  <2>5. PICK both : both = args \o rest
    OBVIOUS
  <2>6. /\ arg = IF TakesArgument(f) THEN Head(both) ELSE 0
        /\ rest = IF TakesArgument(f) THEN Tail(both) ELSE both
    <3>1. CASE TakesArgument(f)
      BY <2>4, <2>5, <3>1, HeadTailOfArgs
    <3>2. CASE ~TakesArgument(f)
      BY <2>4, <2>5, <3>2, ConcatEmptySeq
    <3> QED
      BY <3>1, <3>2
  <2>7. /\ Round(format, At(k, both, t)) =
                At(f.next, IF TakesArgument(f) THEN Tail(both) ELSE both, t \o Convert(f, arg))
         /\ GivesText(format, At(k, both, t), Characters)
    BY <2>1, <2>2, <2>3, <2>4, <2>6, DirectiveRound
  <2> QED
    BY <2>2, <2>4, <2>5, <2>6, <2>7, Zenon
<1> HIDE DEF piece
<1>3. OneRound(piece, args, text)
  BY <1>2, <1>5 DEF OneRound
<1>4. IsPiece(piece, args, text)
  BY <1>1, <1>3 DEF IsPiece
<1> QED
  BY <1>4 DEF piece

LEMMA PlainPiece ==
    ASSUME NEW c \in Characters, c # "%"
    PROVE  IsPiece(<<c>>, <<>>, <<c>>)
<1> DEFINE piece == <<c>>
<1>1. piece \in Seq(Characters) /\ Len(piece) = 1 /\ piece[1] = c
  OBVIOUS
<1> HIDE DEF piece
<1>2. ASSUME NEW format \in Seq(Characters), NEW k \in Nat \ {0}, NEW rest \in Seq(Args),
             NEW t \in Seq(Characters), Stands(format, k, piece)
      PROVE  /\ Round(format, At(k, <<>> \o rest, t)) = At(k + 1, rest, t \o piece)
             /\ GivesText(format, At(k, <<>> \o rest, t), Characters)
  <2>1. k \in Nat /\ k <= Len(format) /\ format[k] = c
    <3>1. /\ Len(format) \in Nat /\ k + 1 <= Len(format) + 1 /\ 1 \in 1 .. 1
          /\ k + 1 - 1 = k /\ format[k + 1 - 1] = c
      BY <1>1, <1>2, LenProperties DEF Stands
    <3> QED
      BY <3>1
  <2>2. <<>> \o rest = rest
    BY ConcatEmptySeq
  <2>3. /\ Round(format, At(k, rest, t)) = At(k + 1, rest, t \o <<c>>)
        /\ GivesText(format, At(k, rest, t), Characters)
    BY <2>1, PlainRound
  <2> QED
    BY <2>2, <2>3, Zenon DEF piece
<1>3. OneRound(piece, <<>>, piece)
  BY <1>1, <1>2 DEF OneRound
<1>4. <<>> \in Seq(Args)
  OBVIOUS
<1>5. IsPiece(piece, <<>>, piece)
  BY <1>1, <1>3, <1>4 DEF IsPiece
<1> QED
  BY <1>5 DEF piece

(* What has no NUL in it.                                                  *)
LEMMA Shorts ==
    /\ "a" \in Characters /\ "e" \in Characters /\ "%" \in Characters /\ "q" \in Characters
    /\ "c" \in Characters /\ "s" \in Characters
    /\ \A c \in {"%", "q", "c", "s"} :
           c \notin Flags \cup Digits \cup Modifiers \cup {"."} /\ c # EndString
    /\ Null \in Seq(Characters) /\ Len(Null) = 6 /\ FormatError \in Seq(Characters)
<1>1. /\ "a" \in Characters /\ "%" \in Characters /\ "q" \in Characters
      /\ "c" \in Characters /\ "s" \in Characters
  BY DEF Characters
<1>2. "e" \in Characters
  <2>1. Small[15] = "e" /\ 15 \in DOMAIN Small
    BY DEF Small
  <2>2. "e" \in Range(Small)
    BY <2>1 DEF Range
  <2> QED
    BY <2>2 DEF Characters
<1>3. \A c \in {"%", "q", "c", "s"} : c \notin Flags
  <2>1. \A c \in {"%", "q", "c", "s"} : c # Space
    BY Zenon DEF Space
  <2> QED
    BY <2>1 DEF Flags
<1>4. \A c \in {"%", "q", "c", "s"} :
          c \notin Digits /\ c \notin Modifiers /\ c # "." /\ c # EndString
  BY DEF Digits, Modifiers, EndString
<1>5. Null \in Seq(Characters) /\ Len(Null) = 6
  <2>1. Null \in Seq({Open, "n", "u", "l", Close}) /\ Len(Null) = 6
    BY DEF Null
  <2>2. Null \in Seq(Range(Null))
    BY <2>1, SeqOfRange
  <2>3. Range(Null) \subseteq Characters
    BY DEF Characters
  <2> QED
    BY <2>1, <2>2, <2>3, SeqMonotonic
<1>6. FormatError \in Seq(Characters)
  <2>1. FormatError \in Seq({"F", "O", "R", "M", "A", "T", Space, "E"}) /\ Len(FormatError) = 12
    BY DEF FormatError
  <2>2. FormatError \in Seq(Range(FormatError))
    BY <2>1, SeqOfRange
  <2>3. Range(FormatError) \subseteq Characters
    BY DEF Characters
  <2> QED
    BY <2>2, <2>3, SeqMonotonic
<1> QED
  BY <1>1, <1>2, <1>3, <1>4, <1>5, <1>6

LEMMA NullShort ==
    ASSUME NEW f, IsShort(f, "s")
    PROVE  Convert(f, NULL) = Null
<1>1. f.flags = {} /\ f.width = 0 /\ ~f.has_precision /\ f.conversion = "s"
  BY DEF IsShort
<1>2. Convert(f, NULL) = do_conversion_string(Null, f)
  BY <1>1 DEF Convert
<1>3. PICK str \in Seq(Characters) : str = Null /\ Len(str) = 6
  BY Shorts
<1>4. do_conversion_string(str, f) = Field(SubSeq(str, 1, Len(str)), f)
  BY <1>1, Zenon DEF do_conversion_string
<1>5. SubSeq(str, 1, Len(str)) = str
  BY SubSeqFull
<1>6. Field(str, f) = Repeat(Space, f.width - Len(str)) \o str
  BY <1>1, Zenon DEF Field
<1>7. Repeat(Space, f.width - Len(str)) = <<>>
  <2>1. PICK n \in Int : n = f.width - Len(str) /\ ~(n > 0)
    BY <1>1, <1>3
  <2>2. Space \in {Space}
    OBVIOUS
  <2>3. Repeat(Space, n) \in Seq({Space}) /\ Len(Repeat(Space, n)) = 0
    BY <2>1, <2>2, RepeatIs
  <2>4. Repeat(Space, n) = <<>>
    BY <2>3, EmptySeq
  <2> QED
    BY <2>1, <2>4
<1>8. <<>> \o str = str
  BY ConcatEmptySeq
<1> QED
  BY <1>2, <1>3, <1>4, <1>5, <1>6, <1>7, <1>8

(* Each of Pieces is one, and so is each directive.                        *)
LEMMA NumberPiece ==
    ASSUME NEW d \in Directives, d.conversion # "s", NEW word \in Words
    PROVE  /\ IsPiece(FormatOf(d), <<word>>, TextOf(d, word))
           /\ ~(ArgumentOf(d, word) = 0 /\ d.precision = 0) =>
                  StandsFor(TextOf(d, word), d, ArgumentOf(d, word))
<1>1. d \in AnyDirective /\ word \in Args
  BY AnyDirectiveIs DEF Args
<1>2. PICK f : f = parse_format(FormatOf(d), 2)
  OBVIOUS
<1>3. ParsedAs(f, d)
  BY <1>1, <1>2, FormatStands
<1>4. /\ Convert(f, word) \in Seq(Characters)
      /\ ~(ArgumentOf(d, word) = 0 /\ d.precision = 0) =>
             StandsFor(Convert(f, word), d, ArgumentOf(d, word))
  BY <1>1, <1>3, NumberStands
<1>5. TextOf(d, word) = Convert(f, word)
  BY <1>2 DEF TextOf
<1> QED
  BY <1>1, <1>4, <1>5, DirectivePiece

LEMMA StringPiece ==
    ASSUME NEW d \in Directives, d.conversion = "s", NEW str \in Strings
    PROVE  /\ IsPiece(FormatOf(d), <<str>>, TextOf(d, str))
           /\ Shows(TextOf(d, str), d, Taken(d, str))
<1>1. d \in AnyDirective /\ str \in Args
  BY AnyDirectiveIs DEF Args
<1>2. PICK f : f = parse_format(FormatOf(d), 2)
  OBVIOUS
<1>3. ParsedAs(f, d)
  BY <1>1, <1>2, FormatStands
<1>4. Convert(f, str) \in Seq(Characters) /\ Shows(Convert(f, str), d, Taken(d, str))
  BY <1>1, <1>3, ConvertShows
<1>5. TextOf(d, str) = Convert(f, str)
  BY <1>2 DEF TextOf
<1> QED
  BY <1>1, <1>4, <1>5, DirectivePiece

LEMMA PiecesAre ==
    ASSUME NEW piece \in Pieces
    PROVE  \E text : IsPiece(piece.format, piece.args, text)
<1>1. /\ "e" \in Args /\ NULL \in Args /\ <<>> \in Seq(Args)
      /\ <<"e">> \in Seq(Args) /\ <<NULL>> \in Seq(Args)
  <2>1. "e" \in Args /\ NULL \in Args
    BY DEF Args
  <2> QED
    BY <2>1
<1>2. CASE piece = [format |-> <<"a">>, args |-> <<>>]
  <2>1. IsPiece(<<"a">>, <<>>, <<"a">>)
    BY Shorts, PlainPiece
  <2> QED
    BY <1>2, <2>1
<1>3. CASE piece = [format |-> <<"%", "%">>, args |-> <<>>]
  <2>1. \A f : IsShort(f, "%") => Convert(f, 0) = <<"%">> /\ ~TakesArgument(f)
    BY DEF IsShort, Convert, TakesArgument
  <2>2. PICK text \in Seq(Characters) : text = <<"%">>
    <3>1. "%" \in Characters
      BY Shorts
    <3>2. <<"%">> \in Seq(Characters)
      BY <3>1
    <3> QED
      BY <3>2
  <2>3. IsPiece(<<"%", "%">>, <<>>, text)
    BY <1>1, <2>1, <2>2, Shorts, ShortPiece
  <2> QED
    BY <1>3, <2>3
<1>4. CASE piece = [format |-> <<"%", "q">>, args |-> <<>>]
  <2>1. \A f : IsShort(f, "q") => Convert(f, 0) = FormatError /\ ~TakesArgument(f)
    BY DEF IsShort, Convert, TakesArgument
  <2>2. IsPiece(<<"%", "q">>, <<>>, FormatError)
    BY <1>1, <2>1, Shorts, ShortPiece
  <2> QED
    BY <1>4, <2>2
<1>5. CASE piece = [format |-> <<"%", "c">>, args |-> <<"e">>]
  <2>1. \A f : IsShort(f, "c") => Convert(f, "e") = <<"e">> /\ TakesArgument(f)
    BY DEF IsShort, Convert, TakesArgument
  <2>2. PICK text \in Seq(Characters) : text = <<"e">>
    <3>1. "e" \in Characters
      BY Shorts
    <3>2. <<"e">> \in Seq(Characters)
      BY <3>1
    <3> QED
      BY <3>2
  <2>3. IsPiece(<<"%", "c">>, <<"e">>, text)
    BY <1>1, <2>1, <2>2, Shorts, ShortPiece
  <2> QED
    BY <1>5, <2>3
<1>6. CASE piece = [format |-> <<"%", "s">>, args |-> <<NULL>>]
  <2>1. \A f : IsShort(f, "s") => Convert(f, NULL) = Null /\ TakesArgument(f)
    <3>1. \A f : IsShort(f, "s") => TakesArgument(f)
      BY DEF IsShort, TakesArgument
    <3> QED
      BY <3>1, NullShort
  <2>2. IsPiece(<<"%", "s">>, <<NULL>>, Null)
    BY <1>1, <2>1, Shorts, ShortPiece
  <2> QED
    BY <1>6, <2>2
<1>7. CASE \E d \in Directives, word \in Words :
               d.conversion # "s" /\ piece = [format |-> FormatOf(d), args |-> <<word>>]
  <2>1. PICK d \in Directives, word \in Words :
            d.conversion # "s" /\ piece = [format |-> FormatOf(d), args |-> <<word>>]
    BY <1>7
  <2>2. IsPiece(FormatOf(d), <<word>>, TextOf(d, word))
    BY <2>1, NumberPiece
  <2> QED
    BY <2>1, <2>2
<1>8. CASE \E d \in Directives, str \in Strings :
               d.conversion = "s" /\ piece = [format |-> FormatOf(d), args |-> <<str>>]
  <2>1. PICK d \in Directives, str \in Strings :
            d.conversion = "s" /\ piece = [format |-> FormatOf(d), args |-> <<str>>]
    BY <1>8
  <2>2. IsPiece(FormatOf(d), <<str>>, TextOf(d, str))
    BY <2>1, StringPiece
  <2> QED
    BY <2>1, <2>2
<1>9. \/ piece \in {[format |-> <<"a">>, args |-> <<>>], [format |-> <<"%", "%">>, args |-> <<>>],
                    [format |-> <<"%", "q">>, args |-> <<>>], [format |-> <<"%", "c">>, args |-> <<"e">>],
                    [format |-> <<"%", "s">>, args |-> <<NULL>>]}
      \/ \E d \in NumberDirectives, word \in Words :
             piece = [format |-> FormatOf(d), args |-> <<word>>]
      \/ \E d \in StringDirectives, str \in Strings :
             piece = [format |-> FormatOf(d), args |-> <<str>>]
  <2> DEFINE short == {[format |-> <<"a">>, args |-> <<>>],
                       [format |-> <<"%", "%">>, args |-> <<>>],
                       [format |-> <<"%", "q">>, args |-> <<>>],
                       [format |-> <<"%", "c">>, args |-> <<"e">>],
                       [format |-> <<"%", "s">>, args |-> <<NULL>>]}
             above == {word \in Words : word > 9}
             least == {word \in above : \A w \in above : word <= w}
             numbers == {d \in NumberDirectives :
                            d.width = 5 /\ d.flags = {} /\ d.precision < 0}
             strings == {d \in StringDirectives : d.width = 0 /\ d.flags = {}}
  <2>1. least \subseteq Words /\ numbers \subseteq NumberDirectives
        /\ strings \subseteq StringDirectives
    OBVIOUS
  <2>2. Pieces = (short \cup {[format |-> FormatOf(d), args |-> <<word>>] :
                                 d \in numbers, word \in least})
                 \cup {[format |-> FormatOf(d), args |-> <<str>>] : d \in strings, str \in Strings}
    BY DEF Pieces
  <2> HIDE DEF short, least, numbers, strings
  <2>3. \/ piece \in short
        \/ piece \in {[format |-> FormatOf(d), args |-> <<word>>] :
                         d \in numbers, word \in least}
        \/ piece \in {[format |-> FormatOf(d), args |-> <<str>>] :
                         d \in strings, str \in Strings}
    BY <2>2
  <2>4. \/ piece \in short
        \/ \E d \in numbers, word \in least :
               piece = [format |-> FormatOf(d), args |-> <<word>>]
        \/ \E d \in strings, str \in Strings :
               piece = [format |-> FormatOf(d), args |-> <<str>>]
    BY <2>3
  <2> QED
    BY <2>1, <2>4, Zenon DEF short
<1>10. /\ \A d \in NumberDirectives : d \in Directives /\ d.conversion # "s"
       /\ \A d \in StringDirectives : d \in Directives /\ d.conversion = "s"
  BY DEF NumberDirectives, StringDirectives
<1> QED
  BY <1>2, <1>3, <1>4, <1>5, <1>6, <1>7, <1>8, <1>9, <1>10, Zenon

(* The rounds of do_printf, one after the other.                           *)
IsRun(h, format, args, p) ==
    /\ print_all(format, args, p) = h[Len(format)].p
    /\ h[0] = [at |-> 1, args |-> args, p |-> p]
    /\ \A k \in 1 .. Len(format) : h[k] = Round(format, h[k - 1])

LEMMA RoundsOf ==
    ASSUME NEW format \in Seq(Characters), NEW args, NEW p
    PROVE  IsRun(Rounds(format, args, p), format, args, p)
<1>1. /\ print_all(format, args, p) = Rounds(format, args, p)[Len(format)].p
      /\ Rounds(format, args, p)[0] = [at |-> 1, args |-> args, p |-> p]
      /\ \A k \in 1 .. Len(format) :
             Rounds(format, args, p)[k] = Round(format, Rounds(format, args, p)[k - 1])
  BY RoundsAre
<1> QED
  BY <1>1, Zenon DEF IsRun

LEMMA RunSteps ==
    ASSUME NEW h, NEW format, NEW args, NEW p, IsRun(h, format, args, p),
           NEW n, n = Len(format)
    PROVE  /\ print_all(format, args, p) = h[n].p
           /\ \A k \in 1 .. n : h[k] = Round(format, h[k - 1])
  BY Zenon DEF IsRun

(* Behind the end of the format nothing happens any more.                  *)
LEMMA RoundsStay ==
    ASSUME NEW format \in Seq(Characters), NEW args, NEW p,
           NEW j \in 0 .. Len(format), Rounds(format, args, p)[j].at \in Nat,
           Rounds(format, args, p)[j].at > Len(format)
    PROVE  \A k \in j .. Len(format) :
               Rounds(format, args, p)[k] = Rounds(format, args, p)[j]
<1> DEFINE n == Len(format)
           h == Rounds(format, args, p)
           T == {k \in j .. n : h[k] # h[j]}
<1>1. n \in Nat
  BY LenProperties
<1>2. \A k \in 1 .. n : h[k] = Round(format, h[k - 1])
  <2> HIDE DEF n, h
  <2>1. n = Len(format)
    BY DEF n
  <2>2. IsRun(h, format, args, p)
    BY RoundsOf, Zenon DEF h
  <2> QED
    BY <2>1, <2>2, RunSteps, Zenon
<1>3. h[j].at > n /\ h[j].at \in Nat
  OBVIOUS
<1> HIDE DEF n, h
<1>4. ASSUME T # {} PROVE FALSE
  <2>1. PICK x \in T : \A y \in T : x <= y
    <3>1. T \subseteq Nat
      BY <1>1
    <3> HIDE DEF T
    <3> QED
      BY <1>4, <3>1, LeastOf
  <2>2. x \in j .. n /\ h[x] # h[j]
    BY <2>1
  <2>3. PICK y \in j .. n : y = x - 1 /\ y < x /\ x \in 1 .. n
    BY <1>1, <2>2 DEF n
  <2>4. h[y] = h[j]
    BY <2>1, <2>2, <2>3
  <2>5. h[x] = Round(format, h[j])
    BY <1>2, <2>3, <2>4
  <2>6. Round(format, h[j]) = h[j]
    <3>1. h[j].at > Len(format) /\ ~(h[j].at <= Len(format))
      BY <1>1, <1>3 DEF n
    <3> QED
      BY <3>1 DEF Round
  <2> QED
    BY <2>2, <2>5, <2>6
<1> QED
  BY <1>4 DEF n, h

(* What printf writes for a piece, and for two pieces one after the other. *)
LEMMA FirstRound ==
    ASSUME NEW format \in Seq(Characters), NEW args
    PROVE  Rounds(format, args, Console)[0] = At(1, args, <<>>)
<1>1. Console = Shown(<<>>)
  BY DEF Console, Shown
<1>2. Rounds(format, args, Console)[0] = [at |-> 1, args |-> args, p |-> Console]
  BY RoundsAre
<1> QED
  BY <1>1, <1>2, Zenon DEF At

LEMMA PrintsOne ==
    ASSUME NEW piece, NEW args, NEW text, IsPiece(piece, args, text)
    PROVE  vprintf(piece, args) = text
<1>1. /\ piece \in Seq(Characters) /\ Len(piece) \in Nat \ {0}
      /\ args \in Seq(Args) /\ text \in Seq(Characters) /\ OneRound(piece, args, text)
  BY DEF IsPiece
<1>2. PICK n \in Nat \ {0} : n = Len(piece)
  BY <1>1
<1>3. PICK h : h = Rounds(piece, args, Console) /\ IsRun(h, piece, args, Console)
  BY <1>1, RoundsOf
<1>4. h[0] = At(1, args, <<>>)
  BY <1>1, <1>3, FirstRound
<1>5. <<>> \in Seq(Args) /\ <<>> \in Seq(Characters) /\ args \o <<>> = args /\ <<>> \o text = text
  BY <1>1, ConcatEmptySeq
<1>6. Stands(piece, 1, piece) /\ 1 \in Nat \ {0}
  BY <1>1 DEF Stands
<1>7. Round(piece, At(1, args, <<>>)) = At(1 + n, <<>>, text)
  <2>1. Round(piece, At(1, args \o <<>>, <<>>)) = At(1 + Len(piece), <<>>, <<>> \o text)
    BY <1>1, <1>5, <1>6, ZenonT(40) DEF OneRound
  <2> QED
    BY <1>2, <1>5, <2>1, Zenon
<1>8. h[1] = At(1 + n, <<>>, text)
  <2>1. 1 \in 1 .. n /\ 1 - 1 = 0
    OBVIOUS
  <2>2. h[1] = Round(piece, h[1 - 1])
    BY <1>2, <1>3, <2>1, RunSteps
  <2> QED
    BY <1>4, <1>7, <2>1, <2>2
<1>9. At(1 + n, <<>>, text).at = 1 + n /\ At(1 + n, <<>>, text).p = Shown(text)
  BY DEF At
<1>10. h[n] = h[1]
  <2>1. 1 \in 0 .. n /\ 1 + n \in Nat /\ 1 + n > n /\ n \in 1 .. n
    OBVIOUS
  <2>2. \A k \in 1 .. n : h[k] = h[1]
    BY <1>1, <1>2, <1>3, <1>8, <1>9, <2>1, RoundsStay
  <2> QED
    BY <2>1, <2>2
<1>11. print_all(piece, args, Console) = Shown(text)
  BY <1>2, <1>3, <1>8, <1>9, <1>10, RunSteps
<1>12. Shown(text).buf = text
  BY DEF Shown
<1> QED
  BY <1>11, <1>12, Zenon DEF vprintf

LEMMA PrintsTwo ==
    ASSUME NEW first, NEW args1, NEW text1, IsPiece(first, args1, text1),
           NEW second, NEW args2, NEW text2, IsPiece(second, args2, text2)
    PROVE  /\ first \o second \in Seq(Characters)
           /\ vprintf(first \o second, args1 \o args2) = text1 \o text2
           /\ PrintsText(first \o second, args1 \o args2, Characters)
<1>1. /\ first \in Seq(Characters) /\ Len(first) \in Nat \ {0}
      /\ args1 \in Seq(Args) /\ text1 \in Seq(Characters) /\ OneRound(first, args1, text1)
  BY DEF IsPiece
<1>2. /\ second \in Seq(Characters) /\ Len(second) \in Nat \ {0}
      /\ args2 \in Seq(Args) /\ text2 \in Seq(Characters) /\ OneRound(second, args2, text2)
  BY DEF IsPiece
<1>3. PICK format \in Seq(Characters) : format = first \o second
  BY <1>1, <1>2, ConcatProperties
<1>4. PICK args : args = args1 \o args2
  OBVIOUS
<1>5. PICK m \in Nat \ {0}, l \in Nat \ {0} : m = Len(first) /\ l = Len(second)
  BY <1>1, <1>2
<1>6. PICK n \in Nat \ {0} : n = m + l /\ n = Len(format) /\ n >= 2
  BY <1>1, <1>2, <1>3, <1>5, ConcatProperties
<1>7. PICK h : h = Rounds(format, args, Console) /\ IsRun(h, format, args, Console)
  BY RoundsOf
<1>8. Stands(format, 1, first) /\ Stands(format, 1 + m, second)
  <2>1. Stands(format, 1, first \o second) /\ 1 \in Nat /\ Len(format) \in Nat
    BY <1>3, <1>6 DEF Stands
  <2> QED
    BY <1>1, <1>2, <1>5, <2>1, StandsConcat
<1>9. h[0] = At(1, args, <<>>)
  BY <1>7, FirstRound
<1>10. /\ <<>> \in Seq(Args) /\ <<>> \in Seq(Characters)
       /\ args2 \o <<>> = args2 /\ <<>> \o text1 = text1
  BY <1>1, <1>2, ConcatEmptySeq
<1>11. 1 \in Nat \ {0} /\ 1 + m \in Nat \ {0} /\ 1 + m + l = 1 + n
  BY <1>6
<1>12. /\ Round(format, At(1, args, <<>>)) = At(1 + m, args2, text1)
       /\ GivesText(format, At(1, args, <<>>), Characters)
  <2>1. /\ Round(format, At(1, args1 \o args2, <<>>)) = At(1 + Len(first), args2, <<>> \o text1)
        /\ GivesText(format, At(1, args1 \o args2, <<>>), Characters)
    BY <1>1, <1>2, <1>8, <1>10, <1>11, Zenon DEF OneRound
  <2> QED
    BY <1>4, <1>5, <1>10, <2>1, Zenon
<1>13. /\ Round(format, At(1 + m, args2, text1)) = At(1 + n, <<>>, text1 \o text2)
       /\ GivesText(format, At(1 + m, args2, text1), Characters)
  <2>1. /\ Round(format, At(1 + m, args2 \o <<>>, text1)) =
               At(1 + m + Len(second), <<>>, text1 \o text2)
        /\ GivesText(format, At(1 + m, args2 \o <<>>, text1), Characters)
    BY <1>1, <1>2, <1>8, <1>10, <1>11, Zenon DEF OneRound
  <2> QED
    BY <1>5, <1>10, <1>11, <2>1, Zenon
<1>14. h[1] = At(1 + m, args2, text1) /\ h[2] = At(1 + n, <<>>, text1 \o text2)
  <2>1. \A k \in 1 .. n : h[k] = Round(format, h[k - 1])
    BY <1>6, <1>7, RunSteps
  <2>2. 1 \in 1 .. n /\ 2 \in 1 .. n /\ 1 - 1 = 0 /\ 2 - 1 = 1
    BY <1>6
  <2>3. h[1] = Round(format, h[0])
    BY <2>1, <2>2
  <2>4. h[2] = Round(format, h[1])
    BY <2>1, <2>2
  <2> QED
    BY <1>9, <1>12, <1>13, <2>3, <2>4, Zenon
<1>15. PICK text : text = text1 \o text2
  OBVIOUS
<1>16. At(1 + n, <<>>, text).at = 1 + n /\ At(1 + n, <<>>, text).p = Shown(text)
  BY DEF At
<1>17. \A k \in 2 .. n : h[k] = At(1 + n, <<>>, text)
  <2>1. 2 \in 0 .. n /\ 1 + n \in Nat /\ 1 + n > n
    BY <1>6
  <2>2. h[2].at = 1 + n
    BY <1>14, <1>15, <1>16
  <2>3. \A k \in 2 .. n : h[k] = h[2]
    BY <1>6, <1>7, <2>1, <2>2, RoundsStay
  <2> QED
    BY <1>14, <1>15, <2>3
<1>18. vprintf(format, args) = text
  <2>1. n \in 2 .. n
    BY <1>6
  <2>2. print_all(format, args, Console) = Shown(text)
    BY <1>6, <1>7, <1>16, <1>17, <2>1, RunSteps
  <2>3. Shown(text).buf = text
    BY DEF Shown
  <2> QED
    BY <2>2, <2>3, Zenon DEF vprintf
<1>19. PrintsText(format, args, Characters)
  <2>1. ASSUME NEW k \in 1 .. n PROVE GivesText(format, h[k - 1], Characters)
    <3>1. CASE k = 1
      BY <1>9, <1>12, <3>1
    <3>2. CASE k = 2
      BY <1>14, <1>13, <3>2
    <3>3. CASE k > 2
      <4>1. k - 1 \in 2 .. n
        BY <3>3
      <4>2. h[k - 1].at = 1 + n
        BY <1>16, <1>17, <4>1
      <4>3. ~(h[k - 1].at <= Len(format))
        BY <1>6, <4>2
      <4> QED
        BY <4>3 DEF GivesText, AsksFor
    <3> QED
      BY <3>1, <3>2, <3>3
  <2> QED
    BY <1>6, <1>7, <2>1 DEF PrintsText
<1> QED
  BY <1>3, <1>4, <1>15, <1>18, <1>19

(* No character of a format or of a text is a NUL.                         *)
LEMMA NoNul == NUL \notin Characters
<1>1. NUL \notin Flags
  BY Zenon DEF NUL, Flags, Space
<1>2. NUL \notin Range(Small)
  <2>1. Range(Small) = {"0", "1", "2", "3", "4", "5", "6", "7",
                        "8", "9", "a", "b", "c", "d", "e", "f"}
    BY DEF Range, Small
  <2> QED
    BY <2>1, Zenon DEF NUL
<1>3. NUL \notin Range(Capital)
  <2>1. Range(Capital) = {"0", "1", "2", "3", "4", "5", "6", "7",
                          "8", "9", "A", "B", "C", "D", "E", "F"}
    BY DEF Range, Capital
  <2> QED
    BY <2>1, Zenon DEF NUL
<1>4. NUL \notin Range(Null)
  <2>1. Range(Null) = {Open, "n", "u", "l", Close}
    BY DEF Range, Null
  <2> QED
    BY <2>1, Zenon DEF NUL, Open, Close
<1>5. NUL \notin Range(FormatError)
  <2>1. Range(FormatError) = {"F", "O", "R", "M", "A", "T", Space, "E"}
    BY DEF Range, FormatError
  <2> QED
    BY <2>1, Zenon DEF NUL, Space
<1>6. NUL \notin StringChars
  BY PrintfAssumption
<1>7. NUL \notin {"%", ".", "h", "l", "j", "z", "t", "d", "i", "u", "o", "x", "X", "p", "s",
                  "q", "c", "a"}
  BY Zenon DEF NUL
<1> QED
  BY <1>1, <1>2, <1>3, <1>4, <1>5, <1>6, <1>7, Zenon DEF Characters

(* A number or string that a directive of PrintfAssumption prints alone.   *)
LEMMA AsInC == TextAsInC
<1>1. ASSUME NEW d \in NumberDirectives, NEW word \in Words,
             ~(ArgumentOf(d, word) = 0 /\ d.precision = 0)
      PROVE  StandsFor(vprintf(FormatOf(d), <<word>>), d, ArgumentOf(d, word))
  <2>1. d \in Directives /\ d.conversion # "s"
    BY DEF NumberDirectives
  <2>2. /\ IsPiece(FormatOf(d), <<word>>, TextOf(d, word))
        /\ StandsFor(TextOf(d, word), d, ArgumentOf(d, word))
    BY <1>1, <2>1, NumberPiece
  <2>3. vprintf(FormatOf(d), <<word>>) = TextOf(d, word)
    BY <2>2, PrintsOne, Zenon
  <2> QED
    BY <2>2, <2>3, Zenon
<1>2. ASSUME NEW d \in StringDirectives, NEW str \in Strings
      PROVE  Shows(vprintf(FormatOf(d), <<str>>), d, Taken(d, str))
  <2>1. d \in Directives /\ d.conversion = "s"
    BY DEF StringDirectives, NumberDirectives
  <2>2. /\ IsPiece(FormatOf(d), <<str>>, TextOf(d, str))
        /\ Shows(TextOf(d, str), d, Taken(d, str))
    BY <2>1, StringPiece
  <2>3. vprintf(FormatOf(d), <<str>>) = TextOf(d, str)
    BY <2>2, PrintsOne, Zenon
  <2> QED
    BY <2>2, <2>3, Zenon
<1> QED
  BY <1>1, <1>2, Zenon DEF TextAsInC

(* Two pieces, one after the other, in a buffer of any size.               *)
LEMMA StaysInside == TextStaysInside
<1>1. ASSUME NEW x \in Pieces, NEW y \in Pieces, NEW size \in Sizes
      PROVE  Holds(vsnprintf(size, x.format \o y.format, x.args \o y.args), size,
                   vprintf(x.format, x.args) \o vprintf(y.format, y.args))
  <2>1. PICK text1 : IsPiece(x.format, x.args, text1)
    BY PiecesAre, Zenon
  <2>2. PICK text2 : IsPiece(y.format, y.args, text2)
    BY PiecesAre, Zenon
  <2>3. vprintf(x.format, x.args) = text1
    BY <2>1, PrintsOne, Zenon
  <2>4. vprintf(y.format, y.args) = text2
    BY <2>2, PrintsOne, Zenon
  <2>5. /\ x.format \o y.format \in Seq(Characters)
        /\ vprintf(x.format \o y.format, x.args \o y.args) = text1 \o text2
        /\ PrintsText(x.format \o y.format, x.args \o y.args, Characters)
    BY <2>1, <2>2, PrintsTwo, Zenon
  <2>6. size \in Nat
    BY PrintfAssumption
  <2>7. Holds(vsnprintf(size, x.format \o y.format, x.args \o y.args), size,
              vprintf(x.format \o y.format, x.args \o y.args))
    BY <2>5, <2>6, NoNul, SnprintfCutsOff, Zenon
  <2> QED
    BY <2>3, <2>4, <2>5, <2>7, Zenon
<1> QED
  BY <1>1, Zenon DEF TextStaysInside

(* Whatever flags, width, precision and length a directive has, and        *)
(* whatever the widths of an int and a long are: printf writes what C says *)
(* of each number and string.                                              *)
THEOREM PrintedAsInC == SmpSpec => []PrintsAsInC
<1>1. PrintsAsInC
  BY AsInC DEF PrintsAsInC
<1> QED
  BY <1>1, PTL

(* In a buffer of any size snprintf leaves what two pieces of a format     *)
(* print one after the other, or the beginning of that.                    *)
THEOREM SnprintfInside == SmpSpec => []SnprintfStaysInside
<1>1. SnprintfStaysInside
  BY StaysInside DEF SnprintfStaysInside
<1> QED
  BY <1>1, PTL
=============================================================================

----------------------------- MODULE Allocator -----------------------------
(***************************************************************************)
(* What malloc, calloc, realloc and free of include/alloc.h promise to the *)
(* code that calls them: a block that is handed out has an address of its  *)
(* own, shares no byte with another block in use, and keeps its address    *)
(* and its length until the call that frees it.                            *)
(***************************************************************************)
EXTENDS Integers

VARIABLE allocated   \* the blocks in use: the pointer malloc returned, the size asked for

Block == [ptr : Nat \ {0}, len : Nat]

Apart(a, b) ==
    /\ a.ptr # b.ptr
    /\ a.ptr + a.len <= b.ptr \/ b.ptr + b.len <= a.ptr

Init == allocated = {}

Allocate ==
    \E b \in allocated' :
        /\ b \in Block \ allocated
        /\ \A a \in allocated : Apart(a, b)
        /\ allocated' = allocated \cup {b}

Free == \E b \in allocated : allocated' = allocated \ {b}

Next == Allocate \/ Free

Spec == Init /\ [][Next]_allocated
=============================================================================

----------------------------- MODULE InitOrder -----------------------------
(***************************************************************************)
(* init (src/init.c): the linker gathers a record for every init and every *)
(* deinit function, in the order of the object files; init sorts both      *)
(* arrays by id, calls the init functions stage by stage, then main, then  *)
(* the deinit functions from the last stage to the first.                  *)
(* A function is named by its file, which has one init and one deinit      *)
(* function at most; what a function does is the composing module's.       *)
(***************************************************************************)
EXTENDS Integers, Sequences, FiniteSets, Functions

CONSTANTS
    Files,      \* the files that register an init and a deinit function
    Id,         \* the id of each, a sequence of characters
    FileName,   \* __FILE__, a sequence of characters
    init_list,  \* the stages: the ids' beginnings, without the NULL
    Needs,      \* the files whose init function each one's relies on
    None        \* no function is running

N == Cardinality(Files)
Stages == 1 .. Len(init_list)

(* strcmp (s, t) > 0: at the first difference s is greater, or longer.     *)
strcmp_greater(s, t) ==
    \E k \in 1 .. Len(s) :
        /\ \A j \in 1 .. k - 1 : j <= Len(t) /\ s[j] = t[j]
        /\ k <= Len(t) => s[k] > t[k]

(* The id decides, and for the same id the file's name.                    *)
init_cmp(f, g) ==
    \/ strcmp_greater(Id[f], Id[g])
    \/ Id[f] = Id[g] /\ strcmp_greater(FileName[f], FileName[g])

(* memcmp of the first strlen (id) characters.                             *)
Matches(f, id) == Len(id) <= Len(Id[f]) /\ SubSeq(Id[f], 1, Len(id)) = id

(* No two records are alike.                                               *)
ASSUME RecordsAssumption ==
    /\ IsFiniteSet(Files) /\ None \notin Files
    /\ \A f, g, h \in Files :
           /\ f # g => init_cmp(f, g) \/ init_cmp(g, f)
           /\ ~(init_cmp(f, g) /\ init_cmp(g, f))
           /\ init_cmp(f, g) /\ init_cmp(g, h) => init_cmp(f, h)

(* The ids the files chose: one stage each, and after what they need.      *)
ASSUME StagesAssumption ==
    /\ init_list \in Seq(Seq(Nat))
    /\ \A f \in Files :
           /\ \E k \in Stages : Matches(f, init_list[k])
           /\ \A j, k \in Stages :
                  Matches(f, init_list[j]) /\ Matches(f, init_list[k]) => j = k
    /\ \A f \in Files : \A g \in Needs[f] :
           /\ g \in Files
           /\ \E j, k \in Stages :
                  /\ Matches(g, init_list[j]) /\ Matches(f, init_list[k])
                  /\ j < k \/ (j = k /\ init_cmp(f, g))

VARIABLES
    stage,        \* where init is
    init_func,    \* the records from __init_begin to __init_end
    deinit_func,  \* the records from __deinit_begin to __deinit_end
    p, q,         \* the loops' pointers
    i,            \* the index of the stage
    empty_string, \* the string at address 0 is empty
    running,      \* whose function is running
    called,       \* history: whose init functions were called
    undone        \* history: whose deinit functions were called

arrays == <<init_func, deinit_func>>
history == <<called, undone>>
initVars == <<stage, arrays, p, q, i, empty_string, running, history>>

InitTypeOK ==
    /\ stage \in {"sort", "resort", "init", "main", "deinit", "stopped"}
    /\ init_func \in Bijection(1 .. N, Files)
    /\ deinit_func \in Bijection(1 .. N, Files)
    /\ p \in 1 .. N + 1
    /\ q \in 1 .. N + 2
    /\ i \in 0 .. Len(init_list) + 1
    /\ empty_string \in BOOLEAN
    /\ running \in Files \cup {None}
    /\ called \in Seq(Files) /\ undone \in Seq(Files)
-----------------------------------------------------------------------------
(* The object files are linked in some order, the same for both arrays.    *)
InitInit ==
    /\ stage = "sort"
    /\ init_func \in Bijection(1 .. N, Files) /\ deinit_func = init_func
    /\ p = 1 /\ q = 2 /\ i = 1
    /\ empty_string = FALSE
    /\ running = None /\ called = <<>> /\ undone = <<>>

init_swap(list) == [list EXCEPT ![p] = list[q], ![q] = list[p]]

(* Variant: a pair is swapped when it is in order.                         *)
Downwards ==
    /\ stage = "sort" /\ p <= N /\ q <= N
    /\ init_func' = IF init_cmp(init_func[q], init_func[p])
                    THEN init_swap(init_func) ELSE init_func
    /\ q' = q + 1
    /\ UNCHANGED <<stage, deinit_func, p, i, empty_string, running, history>>

(* One round of init_init's inner loops.                                   *)
init_init_pair ==
    /\ stage = "sort" /\ p <= N /\ q <= N
    /\ init_func' = IF init_cmp(init_func[p], init_func[q])
                    THEN init_swap(init_func) ELSE init_func
    /\ q' = q + 1
    /\ UNCHANGED <<stage, deinit_func, p, i, empty_string, running, history>>

(* Variant: the deinit records are sorted like the init records.           *)
SameDirection ==
    /\ stage = "resort" /\ p <= N /\ q <= N
    /\ deinit_func' = IF init_cmp(deinit_func[p], deinit_func[q])
                      THEN init_swap(deinit_func) ELSE deinit_func
    /\ q' = q + 1
    /\ UNCHANGED <<stage, init_func, p, i, empty_string, running, history>>

init_deinit_pair ==
    /\ stage = "resort" /\ p <= N /\ q <= N
    /\ deinit_func' = IF init_cmp(deinit_func[q], deinit_func[p])
                      THEN init_swap(deinit_func) ELSE deinit_func
    /\ q' = q + 1
    /\ UNCHANGED <<stage, init_func, p, i, empty_string, running, history>>

init_init_next ==
    /\ stage \in {"sort", "resort"} /\ p <= N /\ q > N
    /\ p' = p + 1 /\ q' = p + 2
    /\ UNCHANGED <<stage, arrays, i, empty_string, running, history>>

init_init_end ==
    /\ stage \in {"sort", "resort"} /\ p > N
    /\ stage' = IF stage = "sort" THEN "resort" ELSE "init"
    /\ p' = 1 /\ q' = 2
    /\ UNCHANGED <<arrays, i, empty_string, running, history>>

(* init_scan, for init_list[i], calls the functions of the records that    *)
(* match.                                                                  *)
init_call ==
    /\ stage = "init" /\ running = None /\ i \in Stages /\ p <= N
    /\ IF Matches(init_func[p], init_list[i])
       THEN /\ running' = init_func[p]
            /\ called' = Append(called, init_func[p])
       ELSE UNCHANGED <<running, called>>
    /\ p' = p + 1
    /\ UNCHANGED <<stage, arrays, q, i, empty_string, undone>>

init_next_stage ==
    /\ stage = "init" /\ running = None /\ i \in Stages /\ p > N
    /\ i' = i + 1 /\ p' = 1
    /\ UNCHANGED <<stage, arrays, q, empty_string, running, history>>

(* init_list[i] is NULL: main is next.                                     *)
init_main ==
    /\ stage = "init" /\ running = None /\ i \notin Stages
    /\ stage' = "main"
    /\ UNCHANGED <<arrays, p, q, i, empty_string, running, history>>

(* The loop back begins with the NULL: strlen is that of whatever string   *)
(* is at address 0, where every record matches an empty one.               *)
main_returns ==
    /\ stage = "main" /\ running = None
    /\ stage' = "deinit" /\ p' = 1
    /\ empty_string' \in BOOLEAN
    /\ UNCHANGED <<arrays, q, i, running, history>>

MatchesBack(f) == IF i \in Stages THEN Matches(f, init_list[i]) ELSE empty_string

deinit_call ==
    /\ stage = "deinit" /\ running = None /\ i > 0 /\ p <= N
    /\ IF MatchesBack(deinit_func[p])
       THEN /\ running' = deinit_func[p]
            /\ undone' = Append(undone, deinit_func[p])
       ELSE UNCHANGED <<running, undone>>
    /\ p' = p + 1
    /\ UNCHANGED <<stage, arrays, q, i, empty_string, called>>

deinit_next_stage ==
    /\ stage = "deinit" /\ running = None /\ i > 0 /\ p > N
    /\ i' = i - 1 /\ p' = 1
    /\ UNCHANGED <<stage, arrays, q, empty_string, running, history>>

init_returns ==
    /\ stage = "deinit" /\ running = None /\ i = 0
    /\ stage' = "stopped"
    /\ UNCHANGED <<arrays, p, q, i, empty_string, running, history>>

func_returns ==
    /\ running # None
    /\ running' = None
    /\ UNCHANGED <<stage, arrays, p, q, i, empty_string, history>>

(* init's own steps.                                                       *)
InitStep ==
    \/ init_init_pair \/ init_deinit_pair \/ init_init_next \/ init_init_end
    \/ init_call \/ init_next_stage \/ init_main \/ main_returns
    \/ deinit_call \/ deinit_next_stage \/ init_returns

InitNext == InitStep \/ func_returns

InitSpec == InitInit /\ [][InitNext]_initVars
-----------------------------------------------------------------------------
(* Whatever the order of the object files, an init function is called once *)
(* at most, after all it needs have returned, and before main all have     *)
(* been called (init_init, init_scan).                                     *)
InitsAfterWhatTheyNeed ==
    /\ \A j, k \in 1 .. Len(called) : called[j] = called[k] => j = k
    /\ \A k \in 1 .. Len(called) : \A g \in Needs[called[k]] :
           \E j \in 1 .. k - 1 : called[j] = g
    /\ stage \in {"main", "deinit", "stopped"} => Range(called) = Files

(* At the end each deinit function has been called after those of all that *)
(* need it, though all may have been called once before in another order   *)
(* (init's loop back over init_list).                                      *)
DeinitsMirrorInits ==
    stage = "stopped" =>
        /\ Len(undone) \in {N, 2 * N}
        /\ \A k \in 1 .. N :
               undone[Len(undone) + 1 - k] = called[k]
=============================================================================

----------------------------- MODULE MCSmpBoot -----------------------------
(***************************************************************************)
(* SmpBoot with a boot processor and two others: MADTs with the boot       *)
(* processor first and in the middle, with an entry of another type among  *)
(* them, and one that lists a disabled processor before the others.  Of    *)
(* printf, directives, words, strings and sizes.                           *)
(***************************************************************************)
EXTENDS SmpBoot

Cpu(id, on) == [entry_type |-> 0, apic_id |-> id, enabled |-> on]
IoApic == [entry_type |-> 1, apic_id |-> None, enabled |-> TRUE]

Spare == CHOOSE a \in APs : TRUE
Other == CHOOSE a \in APs \ {Spare} : TRUE

MCMadts == { <<Cpu(BSP, TRUE), Cpu(Spare, TRUE), Cpu(Other, TRUE), IoApic>>,
             <<Cpu(Spare, TRUE), IoApic, Cpu(BSP, TRUE), Cpu(Other, TRUE)>>,
             <<Cpu(BSP, TRUE), Cpu(None, FALSE), Cpu(Spare, TRUE), Cpu(Other, TRUE)>> }

(* Directives with all flags, fields narrower and wider than their text,   *)
(* all precisions that differ and both sizes of a number.                  *)
MCDirectives ==
    [flags : SUBSET {"#", "0", "-", " ", "+"}, width : {0, 5, 10},
     precision : {-1, 0, 3}, length : {<<>>, <<"l", "l">>},
     conversion : {"d", "u", "o", "x", "X"}]
    \cup [flags : SUBSET {"0", "-"}, width : {0, 5, 10}, precision : {-1},
          length : {<<>>}, conversion : {"p"}]
    \cup [flags : {{}, {"0"}}, width : {0, 5}, precision : {-1},
          length : {<<"h">>, <<"h", "h">>, <<"l">>, <<"j">>, <<"z">>, <<"t">>},
          conversion : {"i", "x"}]
    \cup [flags : SUBSET {"-"}, width : {0, 5}, precision : {-1, 0, 2},
          length : {<<>>}, conversion : {"s"}]

(* Among the words are the least and the greatest number of both sizes.    *)
MCWords == {0, 1, 9, 10, 15, 16, 63, 64, 100, 127}
MCStrings == {<<>>, <<"b">>, <<"b", "c", "d">>}
MCSizes == 0 .. 9
=============================================================================

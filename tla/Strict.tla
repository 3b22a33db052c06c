---------------------------------- MODULE Strict ----------------------------------
(***************************************************************************)
(* Loops as values: the elements of a sequence and the states of a loop,     *)
(* each computed once, as the program does.                                  *)
(***************************************************************************)
EXTENDS Integers, Sequences

\* The sequence s itself, its elements computed once
Evaluated(s) == <<>> \o s

\* The state of a loop after n rounds from s, the rounds numbered from 0; after i rounds there is one state.
Rounds(round(_, _), s, n) ==
    LET after[i \in 0 .. n] == IF i = 0 THEN {s} ELSE {round(t, i - 1) : t \in after[i - 1]}
    IN CHOOSE t \in after[n] : TRUE
================================================================================

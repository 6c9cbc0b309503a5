----------------------------- MODULE MCMemoria ------------------------------
(***************************************************************************)
(* Small instances of Memoria.                                             *)
(***************************************************************************)
EXTENDS Memoria, TLC

TodosLosAlgoritmos == {"FIRST", "BEST", "WORST"}
SoloFirst == {"FIRST"}
Simetria == Permutations(Pid) \cup Permutations(Descriptor \ {Compartido})

=============================================================================

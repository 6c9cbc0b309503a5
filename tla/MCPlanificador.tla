--------------------------- MODULE MCPlanificador ---------------------------
(* Instances of Planificador for TLC: programs in the shape of the ones in   *)
(* consola/, cut down to the instructions that reach the kernel.             *)
EXTENDS Planificador, TLC

Ins(c) == [codigo |-> c, nombre |-> ""]
Con(c, n) == [codigo |-> c, nombre |-> n]

InstanciasUna == [r \in Recurso |-> 1]

\* BASE_1, MEMORIA_*, and a program with an I/O
ProgramasSueltos ==
    {<<Ins("YIELD"), Ins("MOV"), Ins("EXIT")>>,
     <<Ins("IO"), Ins("DELETE_SEGMENT"), Ins("EXIT")>>}

\* DEADLOCK_4 and the ERROR programs beside one that takes and releases
ProgramasConRecursos ==
    {<<Con("WAIT", "DISCO"), Ins("IO"), Con("SIGNAL", "DISCO"), Ins("EXIT")>>,
     <<Con("WAIT", "OTRO"), Ins("EXIT")>>,
     <<Ins("SET"), Con("SIGNAL", "OTRO"), Ins("EXIT")>>}

\* DEADLOCK_1 to DEADLOCK_3: two resources taken in different orders; the second ends
\* like the ERROR programs, with one that does not exist
ProgramasCruzados ==
    {<<Con("WAIT", "RA"), Ins("IO"), Con("WAIT", "RB"), Con("SIGNAL", "RB"),
       Con("SIGNAL", "RA"), Ins("EXIT")>>,
     <<Con("WAIT", "RB"), Con("WAIT", "RA"), Con("SIGNAL", "RA"), Con("SIGNAL", "RB"),
       Con("SIGNAL", "OTRO")>>}

\* A resource held across an I/O, and a program that calls Memoria, yields and ends
\* with a resource that does not exist
ProgramasMixtos ==
    {<<Con("WAIT", "DISCO"), Ins("IO"), Con("SIGNAL", "DISCO"), Ins("EXIT")>>,
     <<Ins("MOV"), Ins("DELETE_SEGMENT"), Ins("YIELD"), Con("WAIT", "OTRO")>>}

Simetria == Permutations(Proc)
=============================================================================

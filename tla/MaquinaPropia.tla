---------------------------- MODULE MaquinaPropia ----------------------------
(***************************************************************************)
(* What a process may believe of the machine: it runs its file line by     *)
(* line, and its registers change only when a line of its own changes them,*)
(* whoever else uses the CPU in between.                                   *)
(***************************************************************************)
EXTENDS Naturals, Sequences

CONSTANTS Proc, Archivos, ANCHO

VARIABLES
    archivo,     \* the file each process runs, none yet if it is empty
    contador,    \* how many of its lines it has run
    valores      \* the string in each of its registers
vars == <<archivo, contador, valores>>

Truncar(s, n) == SubSeq(s, 1, IF Len(s) < n THEN Len(s) ELSE n)

Init == /\ archivo = [p \in Proc |-> <<>>]
        /\ contador = [p \in Proc |-> 0]
        /\ valores = [p \in Proc |-> [r \in DOMAIN ANCHO |-> <<>>]]

Empieza(p) ==
    /\ archivo[p] = <<>>
    /\ \E a \in Archivos[p] : archivo' = [archivo EXCEPT ![p] = a]
    /\ UNCHANGED <<contador, valores>>

\* SET truncates to the register; MOV_IN brings what is in memory, in as much as fits.
Ejecuta(p) ==
    /\ contador[p] < Len(archivo[p])
    /\ contador' = [contador EXCEPT ![p] = @ + 1]
    /\ LET linea == archivo[p][contador[p] + 1]
           r == linea.palabras[1][1]
       IN \/ /\ linea.funcion \notin {"SET", "MOV_IN"}
             /\ UNCHANGED valores
          \/ /\ linea.funcion = "SET"
             /\ valores' = [valores EXCEPT ![p][r] = Truncar(linea.palabras[2], ANCHO[r])]
          \/ /\ linea.funcion = "MOV_IN"
             /\ Len(valores'[p][r]) <= ANCHO[r]
             /\ valores' = [valores EXCEPT ![p][r] = valores'[p][r]]
          \/ /\ linea.funcion = "MOV_IN"     \* the address is out of the segment
             /\ UNCHANGED valores
    /\ UNCHANGED archivo

Next == \E p \in Proc : Empieza(p) \/ Ejecuta(p)

SpecMaquina == Init /\ [][Next]_vars

=============================================================================

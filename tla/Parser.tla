------------------------------- MODULE Parser -------------------------------
(***************************************************************************)
(* How a console reads a file of pseudo-code: a line is a word that names  *)
(* an instruction and the words after it.  The splitting of a line into    *)
(* words is abstracted; words the instruction has no use for are dropped.  *)
(***************************************************************************)
EXTENDS Serializacion

\* How many words each instruction takes from its line.
Cantidad(funcion) ==
    CASE funcion \in {"YIELD", "EXIT"} -> 0
      [] funcion \in {"I/O", "WAIT", "SIGNAL", "F_OPEN", "F_CLOSE", "DELETE_SEGMENT"} -> 1
      [] funcion \in {"F_READ", "F_WRITE"} -> 3
      [] OTHER -> 2

Desconocida(linea) == linea.funcion \notin Range(NombresDeInstruccion)

\* strdup of a word that is not in the line: the console dies.
LeFalta(linea) == Len(linea.palabras) < Cantidad(linea.funcion)

ParsearInstrucciones(linea) ==
    [codigo |-> Codigo(linea.funcion),
     parametros |-> SubSeq(linea.palabras, 1, Cantidad(linea.funcion))]

\* parsear: one line it does not know, or that is short, and there is no program.
SeParsea(archivo) ==
    \A i \in DOMAIN archivo : ~Desconocida(archivo[i]) /\ ~LeFalta(archivo[i])

ParsearPrograma(archivo) ==
    [i \in DOMAIN archivo |-> ParsearInstrucciones(archivo[i])]

=============================================================================

---------------------------- MODULE Serializacion ----------------------------
(***************************************************************************)
(* What the processes of the system send to each other: the instructions of*)
(* a program, a table of segments, the context of a process, and the frame *)
(* around them.  Each message is written field by field at an offset, and  *)
(* read back by another program that knows the order by heart.             *)
(*                                                                         *)
(* Data.  A buffer is a sequence of cells: a cell is an int or a byte, so  *)
(* sizes and offsets are counted in cells.  A string is a sequence of bytes*)
(* other than NUL; in memory, and on the wire, NUL ends it.                *)
(***************************************************************************)
EXTENDS Integers, Sequences, SequencesExt, Functions

CONSTANTS
    NUL,         \* the byte that ends a string
    REGISTROS,   \* the names of the registers, in the order of t_registro
    ANCHO,       \* how many bytes of each register a program can use
    Byte         \* the other bytes

ASSUME SerializacionAssumption ==
    /\ REGISTROS \in Seq(Byte)
    /\ ANCHO \in [Range(REGISTROS) -> Nat \ {0}]
    /\ NUL \notin Int \cup Byte

\* The codes of the messages and of the instructions, by their names.
OpCode == [MENSAJE |-> 1, PROGRAMA |-> 20, CONTEXTO_PROCESO |-> 30, YIELD |-> 31,
           FINALIZADO |-> 32, BLOQUEADO |-> 33, WAIT |-> 34, SIGNAL |-> 35, F_OPEN |-> 36,
           F_CLOSE |-> 37, F_SEEK |-> 38, F_READ |-> 39, F_WRITE |-> 40, F_TRUNCATE |-> 41,
           CREATE_SEGMENT |-> 42, DELETE_SEGMENT |-> 43, POR_SEG_FAULT |-> 44,
           READ_ADRESS |-> 74, WRITE_ADRESS |-> 75]

ReturnCode == [SUCCESS |-> 1, SEG_FAULT |-> 2, OUT_OF_MEMORY |-> 3]

NombresDeInstruccion ==
    <<"SET", "WAIT", "SIGNAL", "YIELD", "I/O", "F_OPEN", "F_READ", "F_WRITE", "F_TRUNCATE",
      "F_SEEK", "F_CLOSE", "CREATE_SEGMENT", "DELETE_SEGMENT", "MOV_IN", "MOV_OUT", "EXIT">>

Codigo(nombre) == CHOOSE c \in DOMAIN NombresDeInstruccion : NombresDeInstruccion[c] = nombre
NombreDe(instruccion) == NombresDeInstruccion[instruccion.codigo]

\* What a message is made of.
Celda == Int \cup Byte \cup {NUL}

-----------------------------------------------------------------------------
(* Strings in memory                                                       *)

\* The C string that starts at the first byte of a block.
Cadena(bytes) ==
    IF \E i \in DOMAIN bytes : bytes[i] = NUL
    THEN SubSeq(bytes, 1, SelectInSeq(bytes, LAMBDA b : b = NUL) - 1) ELSE bytes

\* strcpy: the bytes after the NUL are those that were there.
Strcpy(destino, s) ==
    [i \in DOMAIN destino |-> IF i <= Len(s) THEN s[i]
                              ELSE IF i = Len(s) + 1 THEN NUL ELSE destino[i]]

\* strncpy of n bytes: NULs up to n, and none if the string is as long.
Strncpy(destino, s, n) ==
    [i \in DOMAIN destino |-> IF i > n THEN destino[i]
                              ELSE IF i <= Len(s) THEN s[i] ELSE NUL]

-----------------------------------------------------------------------------
(* Messages                                                                *)

\* serializar_paquete, as enviar_paquete sends it.
Paquete(codigo, buffer) == <<codigo, Len(buffer)>> \o buffer

\* A string with its size and its NUL, as a parameter of an instruction travels.
ConTamanio(s) == <<Len(s) + 1>> \o s \o <<NUL>>

\* enviar_mensaje.
Mensaje(s) == <<OpCode.MENSAJE>> \o ConTamanio(s)

\* recibir_buffer, with the size at position i of what has arrived.
Buffer(cels, i) == SubSeq(cels, i + 1, i + cels[i])
Tras(cels, i) == SubSeq(cels, i, Len(cels))

\* recibir_string: a code nobody looks at, then the buffer.
RecibirString(cels) ==
    [valor |-> Cadena(Buffer(cels, 2)), resto |-> Tras(cels, 3 + cels[2])]

-----------------------------------------------------------------------------
(* The instructions of a program                                           *)

SerializarInstrucciones(instrucciones) ==
    <<Len(instrucciones)>> \o FlattenSeq(
        [i \in DOMAIN instrucciones |->
            <<instrucciones[i].codigo, Len(instrucciones[i].parametros)>> \o
            FlattenSeq([j \in DOMAIN instrucciones[i].parametros |->
                           ConTamanio(instrucciones[i].parametros[j])])])

\* Where n jumps take an offset.
Iterar(salto, offset, n) ==
    LET tras[k \in 0..n] == IF k = 0 THEN offset ELSE salto[tras[k - 1]] IN tras[n]

\* The offset after n parameters, each of the size it starts with.
TrasParametros(stream, offset, n) ==
    Iterar([o \in DOMAIN stream |-> o + 1 + stream[o]], offset, n)

LeerParametros(stream, offset, n) ==
    [j \in 1..n |-> Cadena(Buffer(stream, TrasParametros(stream, offset, j - 1)))]

\* The instructions of the stream: the first word is how many they are, and each one
\* starts with its code and how many parameters it has.
DeserializarInstrucciones[stream \in Seq(Celda)] ==
    LET instruccion == [o \in DOMAIN stream |->
            [codigo |-> stream[o], parametros |-> LeerParametros(stream, o + 2, stream[o + 1])]]
        siguiente == [o \in DOMAIN stream |-> TrasParametros(stream, o + 2, stream[o + 1])]
    IN [i \in 1..stream[1] |-> instruccion[Iterar(siguiente, 2, i - 1)]]

-----------------------------------------------------------------------------
(* The table of segments of a process                                      *)

SerializarTablaSegmentos(tabla) ==
    <<Len(tabla)>> \o FlattenSeq([i \in DOMAIN tabla |->
        <<tabla[i].descriptor_id, tabla[i].segmento_id, tabla[i].inicio, tabla[i].tam_segmento>>])

DeserializarTablaSegmentos[stream \in Seq(Celda)] ==
    [i \in 1..stream[1] |->
        LET o == 4 * i - 2 IN
        [descriptor_id |-> stream[o], segmento_id |-> stream[o + 1], inicio |-> stream[o + 2],
         tam_segmento |-> stream[o + 3]]]

-----------------------------------------------------------------------------
(* The context of a process                                                *)

\* Where a register starts among the cells of all of them; each ends with a NUL.
Desde[k \in 1..Len(REGISTROS) + 1] ==
    IF k = 1 THEN 1 ELSE Desde[k - 1] + ANCHO[REGISTROS[k - 1]] + 1

SizeOfRegistros == Desde[Len(REGISTROS) + 1] - 1

\* enviar_contexto: pid, program counter, the two buffers with their sizes, and the
\* registers; the size of the packet is computed apart.
EnviarContexto(codigo, contexto) ==
    LET instrucciones == SerializarInstrucciones(contexto.instrucciones)
        tabla == SerializarTablaSegmentos(contexto.tabla_segmentos)
        tamanio_paquete == 4 + SizeOfRegistros + Len(instrucciones) + Len(tabla)
        stream == <<contexto.pid, contexto.program_counter, Len(instrucciones)>> \o instrucciones
                  \o <<Len(tabla)>> \o tabla
                  \o FlattenSeq([k \in DOMAIN REGISTROS |-> contexto.registros[REGISTROS[k]]])
    IN Paquete(codigo, SubSeq(stream, 1, tamanio_paquete))

\* The registers that end the stream of a context.
RecibirRegistros[stream \in Seq(Celda)] ==
    [r \in Range(REGISTROS) |->
        LET k == SelectInSeq(REGISTROS, LAMBDA q : q = r)
        IN [i \in 1..ANCHO[r] + 1 |-> stream[Desde[k] + i - 1]]]

\* Where the table and the registers of a context start, after what has its own size.
DesdeTabla(buffer) == 4 + buffer[3]
DesdeRegistros(buffer) == DesdeTabla(buffer) + 1 + buffer[DesdeTabla(buffer)]

\* recibir_contexto.
LeerContexto[buffer \in Seq(Celda)] ==
    [pid |-> buffer[1],
     program_counter |-> buffer[2],
     instrucciones |-> DeserializarInstrucciones[Buffer(buffer, 3)],
     tabla_segmentos |-> DeserializarTablaSegmentos[Buffer(buffer, DesdeTabla(buffer))],
     registros |-> RecibirRegistros[Tras(buffer, DesdeRegistros(buffer))]]

\* After the code of the message.
RecibirContexto(cels) == LeerContexto[Buffer(cels, 1)]

=============================================================================

--------------------------------- MODULE Cpu ---------------------------------
(***************************************************************************)
(* The CPU between the Kernel and Memoria: a console parses its file and   *)
(* sends it; the Kernel makes a pcb of it and sends its context to the CPU;*)
(* the CPU runs instructions on its own registers, translates addresses,   *)
(* reads and writes Memoria, and gives the context back with the code of   *)
(* the instruction and the fields that go with it, which the Kernel reads. *)
(*                                                                         *)
(* Data.  A register holds letters that say which process wrote them, and  *)
(* an address is a number.  The pid is the process itself.                 *)
(*                                                                         *)
(* Granularity.  Kernel and CPU take turns, so each handler is one step,   *)
(* but for the accesses to Memoria.  The Kernel is here for the bytes it   *)
(* sends and reads: where a process goes next is left open where           *)
(* Planificador or ArchivosAbiertos say it.  Addresses are not negative and*)
(* programs name registers that exist.                                     *)
(***************************************************************************)
EXTENDS Parser, FiniteSets

CONSTANTS
    Proc,                \* the processes, one per console
    NoProc,
    Archivos,            \* the files each console may be given
    POR_STRCPY,          \* the registers setear_registros_desde_proceso copies with strcpy
    TAM_MAX_SEGMENTO,
    TAM_SEGMENTO_0,
    TAM_MEMORIA,
    DATO                 \* the letter of what is read from a file

ASSUME CpuAssumption ==
    /\ NoProc \notin Proc /\ Proc \cup {DATO} \subseteq Byte
    /\ POR_STRCPY \subseteq Range(REGISTROS)
    /\ {TAM_MAX_SEGMENTO, TAM_SEGMENTO_0, TAM_MEMORIA} \subseteq Nat \ {0}
    /\ TAM_SEGMENTO_0 <= TAM_MEMORIA

Palabra == Seq(Int \cup Byte)
Linea == [funcion : STRING, palabras : Seq(Palabra)]

EsNumero(palabra) == Len(palabra) = 1 /\ palabra[1] \in Nat
NombraRegistro(palabra) == Len(palabra) = 1 /\ palabra[1] \in Range(REGISTROS)

\* The words of a line of a program that a console accepts.
PalabrasBien(linea) ==
    /\ linea.funcion \in {"SET", "MOV_IN"} => NombraRegistro(linea.palabras[1])
    /\ linea.funcion = "MOV_OUT" => NombraRegistro(linea.palabras[2])
    /\ linea.funcion = "SET" => linea.palabras[2] \in Seq(Proc \cup {DATO})
    /\ linea.funcion \in {"I/O", "CREATE_SEGMENT", "DELETE_SEGMENT", "MOV_OUT"} =>
          EsNumero(linea.palabras[1])
    /\ linea.funcion \in {"CREATE_SEGMENT", "MOV_IN", "F_SEEK", "F_TRUNCATE", "F_READ", "F_WRITE"} =>
          EsNumero(linea.palabras[2])
    /\ linea.funcion \in {"F_READ", "F_WRITE"} => EsNumero(linea.palabras[3])

\* Addresses and sizes are not negative, programs name registers that exist and end with
\* EXIT.
ASSUME ArchivosAssumption ==
    \A p \in Proc : \A a \in Archivos[p] :
        /\ a \in Seq(Linea)
        /\ SeParsea(a) => /\ a # <<>> /\ a[Len(a)].funcion = "EXIT"
                          /\ \A i \in DOMAIN a : PalabrasBien(a[i])

VARIABLES
    archivo,             \* the file of each console, <<>> before it has one
    consola, hacia_kernel,
    pcb, cola_ready, cola_exec,
    hacia_cpu, desde_cpu,
    cpu, proceso, registros_cpu,
    hacia_memoria, desde_memoria, espacio_usuario

consolas == <<archivo, consola, hacia_kernel>>
kernel   == <<pcb, cola_ready, cola_exec>>
ciclo    == <<cpu, proceso, registros_cpu>>
enlace   == <<hacia_memoria, desde_memoria>>
vars == <<consolas, kernel, hacia_cpu, desde_cpu, ciclo, enlace, espacio_usuario>>

Letra == Proc \cup {DATO}
Registro(r) == [1..ANCHO[r] + 1 -> Letra \cup {NUL}]
RegistrosEnCero == [r \in Range(REGISTROS) |-> [i \in 1..ANCHO[r] + 1 |-> NUL]]
SinProceso == [pid |-> NoProc]

\* Mutant: one byte too many, as in the calls of setear_registros_desde_proceso.
MutSetValorRegistro(r, s) == [registros_cpu EXCEPT ![r] = Strncpy(@, s, ANCHO[r] + 1)]

\* set_valor_registro: the byte after the last one is never written.
SetValorRegistro(r, s) == [registros_cpu EXCEPT ![r] = Strncpy(@, s, ANCHO[r])]

\* setear_registros_desde_proceso: what strcpy does not reach stays from the process
\* before.
SetearRegistros(registros) ==
    [r \in Range(REGISTROS) |->
        IF r \in POR_STRCPY THEN Strcpy(registros_cpu[r], Cadena(registros[r]))
        ELSE Strncpy(registros_cpu[r], Cadena(registros[r]), ANCHO[r] + 1)]

\* Mutant: a register that fills its last byte is not copied.
MutActualizarRegistros(registros) ==
    [r \in Range(REGISTROS) |->
        IF Len(Cadena(registros_cpu[r])) = ANCHO[r] THEN registros[r]
        ELSE Strcpy(registros[r], Cadena(registros_cpu[r]))]

\* actualizar_registros_pcb.
ActualizarRegistros(registros) ==
    [r \in Range(REGISTROS) |-> Strcpy(registros[r], Cadena(registros_cpu[r]))]

\* limpiar_registros_cpu: the sizes it divides are of a pointer, so all it clears is
\* the first byte of the first register.
LimpiarRegistros == [registros_cpu EXCEPT ![REGISTROS[1]][1] = NUL]

-----------------------------------------------------------------------------
(* The consoles                                                            *)

\* correr_consola: a file with an error sends nothing.
ConsolaEnvia(p) ==
    /\ consola[p] = "inicio"
    /\ \E a \in Archivos[p] :
        /\ archivo' = [archivo EXCEPT ![p] = a]
        /\ \/ /\ SeParsea(a)
              /\ hacia_kernel' = [hacia_kernel EXCEPT ![p] =
                    Paquete(OpCode.PROGRAMA, SerializarInstrucciones(ParsearPrograma(a)))]
              /\ consola' = [consola EXCEPT ![p] = "espera"]
           \/ /\ ~SeParsea(a)
              /\ consola' = [consola EXCEPT ![p] = "rechazada"]
              /\ UNCHANGED hacia_kernel
    /\ UNCHANGED <<kernel, hacia_cpu, desde_cpu, ciclo, enlace, espacio_usuario>>

Segmento(id, inicio, tam) ==
    [descriptor_id |-> 0, segmento_id |-> id, inicio |-> inicio, tam_segmento |-> tam]

\* procesar_consola up to the pcb, and its admission with the table Memoria creates.
KernelCreaProceso(p) ==
    /\ hacia_kernel[p] # <<>>
    /\ hacia_kernel' = [hacia_kernel EXCEPT ![p] = <<>>]
    /\ pcb' = [pcb EXCEPT ![p] =
          [program_counter |-> 0,
           instrucciones |-> DeserializarInstrucciones[Buffer(hacia_kernel[p], 2)],
           tabla_segmento |-> <<Segmento(0, 0, TAM_SEGMENTO_0)>>,
           registros |-> RegistrosEnCero]]
    /\ cola_ready' = Append(cola_ready, p)
    /\ UNCHANGED <<archivo, consola, cola_exec, hacia_cpu, desde_cpu, ciclo, enlace,
                   espacio_usuario>>

-----------------------------------------------------------------------------
(* The CPU                                                                 *)

\* The instruction the counter is at, and one of its parameters as a number.
Instruccion == proceso.instrucciones[proceso.program_counter + 1]
Entero(k) == Instruccion.parametros[k][1]
Avanza == [proceso EXCEPT !.program_counter = @ + 1]

Ejecuta(nombres) ==
    /\ cpu = "ejecuta"
    /\ NombreDe(Instruccion) \in nombres
    /\ UNCHANGED <<consolas, kernel, hacia_cpu, espacio_usuario>>

\* correr_servidor.
CpuRecibeContexto ==
    /\ cpu = "espera"
    /\ hacia_cpu # <<>>
    /\ Head(hacia_cpu) = OpCode.CONTEXTO_PROCESO
    /\ proceso' = RecibirContexto(Tail(hacia_cpu))
    /\ hacia_cpu' = Tras(hacia_cpu, 3 + hacia_cpu[2])
    /\ registros_cpu' = SetearRegistros(proceso'.registros)
    /\ cpu' = "ejecuta"
    /\ UNCHANGED <<consolas, kernel, desde_cpu, enlace, espacio_usuario>>

\* devolver_proceso with the fields that go after it, and liberar_proceso.
Devolver(codigo, campos) ==
    /\ desde_cpu' = desde_cpu
          \o EnviarContexto(codigo, [Avanza EXCEPT !.registros = ActualizarRegistros(@)])
          \o campos
    /\ registros_cpu' = LimpiarRegistros
    /\ proceso' = SinProceso
    /\ cpu' = "espera"
    /\ UNCHANGED enlace

ExecuteSet ==
    /\ Ejecuta({"SET"})
    /\ registros_cpu' = SetValorRegistro(Instruccion.parametros[1][1], Instruccion.parametros[2])
    /\ proceso' = Avanza
    /\ UNCHANGED <<cpu, desde_cpu, enlace>>

\* The MMU.
SegmentosDe(direccion) ==
    {i \in DOMAIN proceso.tabla_segmentos :
        proceso.tabla_segmentos[i].segmento_id = direccion \div TAM_MAX_SEGMENTO}
ObtenerSegmento(direccion) ==
    proceso.tabla_segmentos[CHOOSE i \in SegmentosDe(direccion) : TRUE]

\* Mutant: the bytes of the access are not counted.
MutCabe(direccion, cant_bytes) ==
    (direccion % TAM_MAX_SEGMENTO) <= ObtenerSegmento(direccion).tam_segmento

Cabe(direccion, cant_bytes) ==
    (direccion % TAM_MAX_SEGMENTO) + cant_bytes <= ObtenerSegmento(direccion).tam_segmento

DireccionFisica(direccion) ==
    ObtenerSegmento(direccion).inicio + (direccion % TAM_MAX_SEGMENTO)

\* The instructions that use an address: the address, and how many bytes.
ConDireccion == {"MOV_IN", "MOV_OUT", "F_READ", "F_WRITE"}
Direccion == IF NombreDe(Instruccion) = "MOV_OUT" THEN Entero(1) ELSE Entero(2)
CantBytes ==
    CASE NombreDe(Instruccion) = "MOV_IN"  -> ANCHO[Instruccion.parametros[1][1]]
      [] NombreDe(Instruccion) = "MOV_OUT" -> ANCHO[Instruccion.parametros[2][1]]
      [] OTHER -> Entero(3)
Traducible == SegmentosDe(Direccion) # {} /\ Cabe(Direccion, CantBytes)

\* The process has no segment with that number: a null segment is read.
CpuCae ==
    /\ Ejecuta(ConDireccion)
    /\ SegmentosDe(Direccion) = {}
    /\ cpu' = "caida"
    /\ UNCHANGED <<proceso, registros_cpu, desde_cpu, enlace>>

ExecuteMovIn ==
    /\ Ejecuta({"MOV_IN"})
    /\ Traducible
    /\ hacia_memoria' = Paquete(OpCode.READ_ADRESS,
                                <<proceso.pid, DireccionFisica(Direccion), CantBytes>>)
    /\ proceso' = Avanza
    /\ cpu' = "espera_lectura"
    /\ UNCHANGED <<registros_cpu, desde_cpu, desde_memoria>>

\* The register is that of the instruction the counter has just passed.
CpuLeido ==
    /\ cpu = "espera_lectura"
    /\ desde_memoria # <<>>
    /\ registros_cpu' = SetValorRegistro(
            proceso.instrucciones[proceso.program_counter].parametros[1][1],
            RecibirString(desde_memoria).valor)
    /\ desde_memoria' = RecibirString(desde_memoria).resto
    /\ cpu' = "ejecuta"
    /\ UNCHANGED <<consolas, kernel, hacia_cpu, desde_cpu, proceso, hacia_memoria,
                   espacio_usuario>>

\* As many bytes of the register as it has, wherever its string ends.
ExecuteMovOut ==
    LET r == Instruccion.parametros[2][1] IN
    /\ Ejecuta({"MOV_OUT"})
    /\ Traducible
    /\ hacia_memoria' = Paquete(OpCode.WRITE_ADRESS,
            <<proceso.pid, DireccionFisica(Direccion), ANCHO[r], ANCHO[r]>>
            \o SubSeq(registros_cpu[r], 1, ANCHO[r]))
    /\ proceso' = Avanza
    /\ cpu' = "espera_escritura"
    /\ UNCHANGED <<registros_cpu, desde_cpu, desde_memoria>>

CpuEscrito ==
    /\ cpu = "espera_escritura"
    /\ desde_memoria # <<>>
    /\ desde_memoria' = RecibirString(desde_memoria).resto
    /\ cpu' = "ejecuta"
    /\ UNCHANGED <<consolas, kernel, hacia_cpu, desde_cpu, proceso, registros_cpu,
                   hacia_memoria, espacio_usuario>>

\* Mutant: F_WRITE takes the code that F_READ takes.
MutSegFault ==
    /\ Ejecuta(ConDireccion)
    /\ SegmentosDe(Direccion) # {} /\ ~Traducible
    /\ Devolver(IF NombreDe(Instruccion) \in {"F_READ", "F_WRITE"} THEN ReturnCode.SEG_FAULT
                ELSE OpCode.POR_SEG_FAULT, <<>>)

\* The access does not fit in the segment.  F_READ gives the process back with a code
\* meant for consoles.
SegFault ==
    /\ Ejecuta(ConDireccion)
    /\ SegmentosDe(Direccion) # {} /\ ~Traducible
    /\ Devolver(IF NombreDe(Instruccion) = "F_READ" THEN ReturnCode.SEG_FAULT
                ELSE OpCode.POR_SEG_FAULT, <<>>)

\* The other instructions give the process back with their own code.
ExecuteSinCampos ==
    /\ Ejecuta({"YIELD", "EXIT"})
    /\ Devolver(IF NombreDe(Instruccion) = "YIELD" THEN OpCode.YIELD ELSE OpCode.FINALIZADO,
                <<>>)

ExecuteConEnteros ==
    /\ Ejecuta({"I/O", "CREATE_SEGMENT", "DELETE_SEGMENT"})
    /\ CASE NombreDe(Instruccion) = "I/O" -> Devolver(OpCode.BLOQUEADO, <<Entero(1)>>)
         [] NombreDe(Instruccion) = "CREATE_SEGMENT" ->
                Devolver(OpCode.CREATE_SEGMENT, <<Entero(1), Entero(2)>>)
         [] OTHER -> Devolver(OpCode.DELETE_SEGMENT, <<Entero(1)>>)

ExecuteConNombre ==
    LET nombre == NombreDe(Instruccion) IN
    /\ Ejecuta({"WAIT", "SIGNAL", "F_OPEN", "F_CLOSE", "F_SEEK", "F_TRUNCATE"})
    /\ Devolver(OpCode[nombre],
                Mensaje(Instruccion.parametros[1])
                \o IF nombre \in {"F_SEEK", "F_TRUNCATE"} THEN <<Entero(2)>> ELSE <<>>)

ExecuteAccesoArchivo ==
    /\ Ejecuta({"F_READ", "F_WRITE"})
    /\ Traducible
    /\ Devolver(OpCode[NombreDe(Instruccion)],
                Mensaje(Instruccion.parametros[1]) \o <<DireccionFisica(Direccion), Entero(3)>>)

CicloDeInstruccion ==
    \/ CpuRecibeContexto \/ CpuCae \/ SegFault
    \/ ExecuteSet \/ ExecuteMovIn \/ CpuLeido \/ ExecuteMovOut \/ CpuEscrito
    \/ ExecuteSinCampos \/ ExecuteConEnteros \/ ExecuteConNombre \/ ExecuteAccesoArchivo

-----------------------------------------------------------------------------
(* Memoria: procesar_cpu_fs                                                *)

Llega(codigo) ==
    /\ hacia_memoria # <<>>
    /\ Head(hacia_memoria) = codigo
    /\ hacia_memoria' = Tras(hacia_memoria, 3 + hacia_memoria[2])
    /\ UNCHANGED <<consolas, kernel, hacia_cpu, desde_cpu, ciclo>>

\* The bytes are answered as a string: none after a NUL.
MemoryReadAdress ==
    LET datos == Buffer(hacia_memoria, 2) IN
    /\ Llega(OpCode.READ_ADRESS)
    /\ desde_memoria' = Mensaje(Cadena([i \in 1..datos[3] |-> espacio_usuario[datos[2] + i]]))
    /\ UNCHANGED espacio_usuario

Escribir(inicio, bytes) ==
    [d \in DOMAIN espacio_usuario |->
        IF d - inicio \in DOMAIN bytes THEN bytes[d - inicio] ELSE espacio_usuario[d]]

MemoryWriteAdress ==
    LET datos == Buffer(hacia_memoria, 2) IN
    /\ Llega(OpCode.WRITE_ADRESS)
    /\ espacio_usuario' = Escribir(datos[2], Buffer(datos, 4))
    /\ desde_memoria' = Mensaje(<<>>)

-----------------------------------------------------------------------------
(* The Kernel                                                              *)

EjecutarProceso(p, b) ==
    EnviarContexto(OpCode.CONTEXTO_PROCESO,
        [pid |-> p, program_counter |-> b.program_counter, instrucciones |-> b.instrucciones,
         registros |-> b.registros, tabla_segmentos |-> b.tabla_segmento])

Despacha ==
    /\ cola_exec = <<>>
    /\ cola_ready # <<>>
    /\ cola_exec' = <<Head(cola_ready)>>
    /\ cola_ready' = Tail(cola_ready)
    /\ hacia_cpu' = EjecutarProceso(Head(cola_ready), pcb[Head(cola_ready)])
    /\ UNCHANGED <<consolas, pcb, desde_cpu, ciclo, enlace, espacio_usuario>>

\* manejar_respuesta_cpu: the context, and actualizar_pcb of the head of cola_exec.
EnExec == Head(cola_exec)
ContextoRecibido == RecibirContexto(Tail(desde_cpu))
Campos == Tras(desde_cpu, 3 + desde_cpu[2])
PcbActualizado == [pcb[EnExec] EXCEPT !.registros = ContextoRecibido.registros,
                                      !.program_counter = ContextoRecibido.program_counter]

\* The codes of an answer, and what is left on the socket once its fields are read.
Procesa(codigos, resto) ==
    /\ cola_exec # <<>>
    /\ desde_cpu # <<>>
    /\ Head(desde_cpu) \in codigos
    /\ desde_cpu' = resto
    /\ UNCHANGED <<archivo, hacia_kernel, ciclo, enlace>>

\* The process goes on in the CPU with this pcb, or goes back to cola_ready: at once,
\* or when what it waits for has happened.
Sigue(b) ==
    /\ pcb' = [pcb EXCEPT ![EnExec] = b]
    /\ hacia_cpu' = EjecutarProceso(EnExec, pcb'[EnExec])
    /\ UNCHANGED <<cola_ready, cola_exec>>

Vuelve ==
    /\ pcb' = [pcb EXCEPT ![EnExec] = PcbActualizado]
    /\ cola_ready' = Append(cola_ready, EnExec)
    /\ cola_exec' = <<>>
    /\ UNCHANGED hacia_cpu

\* pasar_a_cola_exit; Memoria gives back the segments of the process.
Termina ==
    /\ pcb' = [pcb EXCEPT ![EnExec] = [PcbActualizado EXCEPT !.tabla_segmento = <<>>]]
    /\ cola_exec' = <<>>
    /\ consola' = [consola EXCEPT ![EnExec] = "fin"]
    /\ UNCHANGED <<cola_ready, hacia_cpu>>

ProcesarFin ==
    /\ Procesa({OpCode.FINALIZADO, OpCode.POR_SEG_FAULT}, Campos)
    /\ Termina
    /\ UNCHANGED espacio_usuario

\* YIELD, and an I/O with its time.
ProcesarYield ==
    /\ Procesa({OpCode.YIELD}, Campos)
    /\ Vuelve
    /\ UNCHANGED <<consola, espacio_usuario>>

ProcesarIO ==
    /\ Procesa({OpCode.BLOQUEADO}, Tail(Campos))
    /\ Vuelve
    /\ UNCHANGED <<consola, espacio_usuario>>

ProcesarConNombre ==
    /\ Procesa({OpCode.WAIT, OpCode.SIGNAL, OpCode.F_OPEN, OpCode.F_CLOSE},
               RecibirString(Campos).resto)
    /\ \/ Sigue(PcbActualizado)
       \/ Head(desde_cpu) \in {OpCode.WAIT, OpCode.F_OPEN} /\ Vuelve
    /\ UNCHANGED <<consola, espacio_usuario>>

ProcesarFSeek ==
    /\ Procesa({OpCode.F_SEEK}, Tail(RecibirString(Campos).resto))
    /\ Sigue(PcbActualizado)
    /\ UNCHANGED <<consola, espacio_usuario>>

ProcesarFTruncate ==
    /\ Procesa({OpCode.F_TRUNCATE}, Tail(RecibirString(Campos).resto))
    /\ Vuelve
    /\ UNCHANGED <<consola, espacio_usuario>>

\* F_READ and F_WRITE: the FileSystem writes what F_READ reads where it is told.
ProcesarAcceso ==
    LET enteros == RecibirString(Campos).resto IN
    /\ Procesa({OpCode.F_READ, OpCode.F_WRITE}, Tras(enteros, 3))
    /\ Vuelve
    /\ espacio_usuario' = IF Head(desde_cpu) = OpCode.F_READ
                          THEN Escribir(enteros[1], [i \in 1..enteros[2] |-> DATO])
                          ELSE espacio_usuario
    /\ UNCHANGED consola

\* The addresses some segment takes.
Ocupadas ==
    UNION {LET t == pcb[p].tabla_segmento IN
           UNION {(t[i].inicio + 1)..(t[i].inicio + t[i].tam_segmento) : i \in DOMAIN t} : p \in Proc}

\* Memoria puts the segment in the first place where it fits, or the process ends.
ProcesarCreateSegment ==
    LET id == Campos[1]  tam == Campos[2]
        lugares == {d \in 0..TAM_MEMORIA - tam : (d + 1)..(d + tam) \cap Ocupadas = {}}
    IN
    /\ Procesa({OpCode.CREATE_SEGMENT}, Tras(Campos, 3))
    /\ \/ /\ lugares # {}
          /\ LET inicio == CHOOSE d \in lugares : \A e \in lugares : d <= e IN
             Sigue([PcbActualizado EXCEPT !.tabla_segmento = Append(@, Segmento(id, inicio, tam))])
          /\ UNCHANGED consola
       \/ lugares = {} /\ Termina
    /\ UNCHANGED espacio_usuario

ProcesarDeleteSegment ==
    /\ Procesa({OpCode.DELETE_SEGMENT}, Tras(Campos, 2))
    /\ Sigue([PcbActualizado EXCEPT !.tabla_segmento =
                RemoveFirstMatch(@, LAMBDA s : s.segmento_id = Campos[1])])
    /\ UNCHANGED <<consola, espacio_usuario>>

\* The default of procesar_contexto: nobody gets the CPU again.
ProcesarInesperada ==
    /\ Procesa({ReturnCode.SEG_FAULT}, Campos)
    /\ pcb' = [pcb EXCEPT ![EnExec] = PcbActualizado]
    /\ UNCHANGED <<consola, cola_ready, cola_exec, hacia_cpu, espacio_usuario>>

ManejarRespuestaCpu ==
    \/ ProcesarFin \/ ProcesarYield \/ ProcesarIO \/ ProcesarConNombre
    \/ ProcesarFSeek \/ ProcesarFTruncate \/ ProcesarAcceso
    \/ ProcesarCreateSegment \/ ProcesarDeleteSegment \/ ProcesarInesperada

-----------------------------------------------------------------------------
(* The specification                                                       *)

PcbVacio == [program_counter |-> 0, instrucciones |-> <<>>, tabla_segmento |-> <<>>,
             registros |-> RegistrosEnCero]

Init ==
    /\ archivo = [p \in Proc |-> <<>>]
    /\ consola = [p \in Proc |-> "inicio"]
    /\ hacia_kernel = [p \in Proc |-> <<>>]
    /\ pcb = [p \in Proc |-> PcbVacio]
    /\ cola_ready = <<>>
    /\ cola_exec = <<>>
    /\ hacia_cpu = <<>>
    /\ desde_cpu = <<>>
    /\ cpu = "espera"
    /\ proceso = SinProceso
    /\ registros_cpu = RegistrosEnCero
    /\ hacia_memoria = <<>>
    /\ desde_memoria = <<>>
    /\ espacio_usuario = [d \in 1..TAM_MEMORIA |-> NUL]

Next == \/ \E p \in Proc : ConsolaEnvia(p) \/ KernelCreaProceso(p)
        \/ CicloDeInstruccion
        \/ MemoryReadAdress \/ MemoryWriteAdress
        \/ Despacha
        \/ ManejarRespuestaCpu

Spec == Init /\ [][Next]_vars

\* Each program runs on its own, and a console may never come.
Fairness ==
    /\ \A p \in Proc : WF_vars(KernelCreaProceso(p))
    /\ WF_vars(CicloDeInstruccion)
    /\ WF_vars(MemoryReadAdress \/ MemoryWriteAdress)
    /\ WF_vars(Despacha)
    /\ WF_vars(ManejarRespuestaCpu)

FairSpec == Spec /\ Fairness

-----------------------------------------------------------------------------
(* Properties                                                              *)

\* Types, and what keeps strcpy of a register within it: its last byte is NUL in the
\* CPU and in the pcb, although strncpy puts none after a value as long as the register
\* (ciclo_de_instruccion.c:303-321, cpu.c:147-163).
TipoCpu ==
    /\ consola \in [Proc -> {"inicio", "espera", "rechazada", "fin"}]
    /\ {cola_ready, cola_exec} \subseteq Seq(Proc)
    /\ cpu \in {"espera", "ejecuta", "espera_lectura", "espera_escritura", "caida"}
    /\ \A r \in Range(REGISTROS) :
        /\ registros_cpu[r] \in Registro(r)
        /\ registros_cpu[r][ANCHO[r] + 1] = NUL
        /\ \A p \in Proc : pcb[p].registros[r] \in Registro(r)
                        /\ pcb[p].registros[r][ANCHO[r] + 1] = NUL

\* The bytes of one of the segments the Kernel has for a process.
DeUnSegmento(p, desde, cuantos) ==
    \E i \in DOMAIN pcb[p].tabla_segmento :
        LET s == pcb[p].tabla_segmento[i] IN
        s.inicio <= desde /\ desde + cuantos <= s.inicio + s.tam_segmento

\* Of the bytes MOV_OUT sends, those after the string are NULs: but for the registers
\* copied with strcpy, where they may be another process's.
SinRestos(r, bytes) ==
    r \notin POR_STRCPY => \A i \in (Len(Cadena(bytes)) + 1)..ANCHO[r] : bytes[i] = NUL

\* What a process asks of Memoria, and of the FileSystem through the Kernel, is within
\* a segment that the Kernel has for it at that moment, whichever tables its context
\* has been through (ciclo_de_instruccion.c:248-260); and MOV_OUT sends the string of
\* the register with nothing after it (cpu.c:150-162, 165-170).
AccesosPropios ==
    /\ hacia_memoria # <<>> =>
        LET datos == Buffer(hacia_memoria, 2) IN
        /\ DeUnSegmento(datos[1], datos[2], datos[3])
        /\ cpu = "espera_escritura" =>
            SinRestos(proceso.instrucciones[proceso.program_counter].parametros[2][1],
                      Buffer(datos, 4))
    /\ desde_cpu # <<>> /\ Head(desde_cpu) \in {OpCode.F_READ, OpCode.F_WRITE} =>
        LET enteros == RecibirString(Campos).resto IN
        DeUnSegmento(desde_cpu[3], enteros[1], enteros[2])

\* The registers and the counter of a process, wherever they are: in the CPU, on their
\* way from it, or in the pcb.
EnCamino(p) == desde_cpu # <<>> /\ EnExec = p
StreamEnCamino == Buffer(desde_cpu, 2)

Maquina == INSTANCE MaquinaPropia WITH
    contador <- [p \in Proc |->
        CASE proceso.pid = p -> proceso.program_counter - IF cpu = "espera_lectura" THEN 1 ELSE 0
          [] EnCamino(p) -> StreamEnCamino[2]
          [] OTHER -> pcb[p].program_counter],
    valores <- [p \in Proc |-> [r \in Range(REGISTROS) |->
        Cadena(CASE proceso.pid = p -> registros_cpu[r]
                 [] EnCamino(p) -> RecibirRegistros[
                        Tras(StreamEnCamino, DesdeRegistros(StreamEnCamino))][r]
                 [] OTHER -> pcb[p].registros[r])]]

\* Through the parser, five serialisations and any number of turns of other processes
\* in the CPU, a process runs the lines of its file in order and finds in its registers
\* what its own lines have put there (cpu.c:109-170, estructuras.c, i_cpu.c:25-28).
MaquinaRespetada == Maquina!SpecMaquina

\* The Kernel has dropped the answer to an F_READ out of its segment.
PerdidoPorFRead ==
    /\ cola_exec # <<>>
    /\ <<hacia_cpu, desde_cpu, cpu>> = <<<<>>, <<>>, "espera">>
    /\ LET b == pcb[EnExec] IN
       b.program_counter > 0 /\ NombreDe(b.instrucciones[b.program_counter]) = "F_READ"

\* Every program that is sent ends: the Kernel reads of each answer as many fields as
\* the CPU sends, and no answer is dropped but that of an F_READ out of its segment.
\* The other way to stop is a number of segment the process does not have
\* (i_cpu.c:38-140, ciclo_de_instruccion.c:171-184, 252).
TodoProgramaTermina ==
    <>[](\/ cpu = "caida"
         \/ PerdidoPorFRead
         \/ \A p \in Proc : consola[p] # "espera")

=============================================================================

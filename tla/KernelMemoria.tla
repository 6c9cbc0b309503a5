--------------------------- MODULE KernelMemoria ----------------------------
(***************************************************************************)
(* The Kernel as a client of Memoria: the consoles that register their     *)
(* processes, the long-term scheduler and the thread that handles the      *)
(* answers of the CPU, which share one socket under mutex_socket_memoria,  *)
(* and the three copies of a segment table: the one of Memoria, the one of *)
(* the pcb and the one in the context the CPU works with.  A compaction    *)
(* changes every base, and the Kernel brings all the pcbs up to date.      *)
(*                                                                         *)
(* Data.  A table is the set of its segments and the number of compactions *)
(* its bases come from: a base of an older one is stale.  Whether a segment*)
(* fits is a choice of Memoria here; the module Memoria says which one.    *)
(* MAX_COMPACTACIONES bounds how many are asked for.                       *)
(*                                                                         *)
(* Granularity.  As in Planificador; a request and its answer are two      *)
(* messages, each read whole.  The degree of multiprogramming is not       *)
(* reached, and the moves between queues are one step each.                *)
(***************************************************************************)
EXTENDS Integers, Sequences

CONSTANTS
    Proc,                \* the processes, one per console
    NoProc,              \* the null pcb
    SegmentoId,          \* the ids of segments
    Programas,           \* the programs a console may submit
    MAX_COMPACTACIONES

Instruccion == [codigo : {"CREATE_SEGMENT", "DELETE_SEGMENT", "F_READ", "EXIT"},
                id : SegmentoId \cup {0}]

ASSUME KernelMemoriaAssumption ==
    /\ NoProc \notin Proc
    /\ SegmentoId \subseteq Nat \ {0}
    /\ Programas \subseteq Seq(Instruccion)
    /\ MAX_COMPACTACIONES \in Nat

VARIABLES
    \* the pcbs
    programa, program_counter, estado_actual, tabla_segmento, destruidos, motivo,
    procesos_en_kernel,
    cola_new, cola_ready, cola_exit, cpu_liberada, sem_nuevo_proceso,
    mutex_socket_memoria,   \* TRUE when free: an unlock by whoever frees it
    puede_compactar,        \* the same
    consola, plp, hilo_cpu, en_cpu,
    lectura,                \* the F_READ on its way to the FileSystem and Memoria
    hacia_memoria, desde_memoria,
    tablas_segmentos, compactaciones,   \* of Memoria
    desbloqueo_de_mas,      \* an OUT_OF_MEMORY has released the mutex twice
    caido                   \* how the Kernel went wrong: no step follows

pcbs    == <<programa, program_counter, estado_actual, tabla_segmento, destruidos, motivo,
             procesos_en_kernel>>
colas   == <<cola_new, cola_ready, cola_exit, cpu_liberada, sem_nuevo_proceso>>
cerrojos == <<mutex_socket_memoria, puede_compactar, desbloqueo_de_mas>>
hilos   == <<consola, plp, hilo_cpu, en_cpu, lectura>>
enlace  == <<hacia_memoria, desde_memoria>>
memoria == <<tablas_segmentos, compactaciones>>
vars    == <<pcbs, colas, cerrojos, hilos, enlace, memoria, caido>>

ProcONull == Proc \cup {NoProc}
Tabla == [segmentos : SUBSET (SegmentoId \cup {0}), epoca : 0..MAX_COMPACTACIONES]
TablaVacia == [segmentos |-> {}, epoca |-> 0]
Hilos == {"plp", "cpu"}
Pedido == [hilo : Hilos, op : {"CREATE_TABLE", "DELETE_TABLE", "CREATE_SEGMENT",
                               "DELETE_SEGMENT", "COMPACT"}, pid : Proc, id : SegmentoId \cup {0}]
ConTabla == {"TABLE_CREATED", "SEGMENT_CREATED", "SEGMENT_DELETED"}
Respuestas == ConTabla \cup {"TABLE_DELETED", "OUT_OF_MEMORY",
                             "NEEDS_TO_COMPACT", "COMPACT"}

TipoKernelMemoria ==
    /\ programa \in [Proc -> Seq(Instruccion)]
    /\ program_counter \in [Proc -> Nat]
    /\ estado_actual \in [Proc -> {"NEW", "READY", "EXEC", "BLOCK", "EXIT"}]
    /\ tabla_segmento \in [Proc -> Tabla]
    /\ motivo \in [Proc -> {"NOT_DEFINED", "SUCCESS", "OUT_OF_MEMORY"}]
    /\ destruidos \subseteq Proc /\ procesos_en_kernel \subseteq Proc
    /\ {cola_new, cola_ready, cola_exit} \subseteq Seq(Proc)
    /\ {cpu_liberada, sem_nuevo_proceso} \subseteq Nat
    /\ {mutex_socket_memoria, puede_compactar, desbloqueo_de_mas} \subseteq BOOLEAN
    /\ consola \in [Proc -> {"inicio", "registra", "espera", "destruye", "fin"}]
    /\ plp \in [pc : {"espera", "pide", "recibe"}, pcb : ProcONull]
    /\ hilo_cpu \in [pc : {"espera", "procesa", "recibe", "pide_compactar", "recibe_compactacion",
                           "recibe_reenvio", "suelta", "decide", "elimina", "recibe_eliminada",
                           "libera"}, pcb : ProcONull, tabla : Tabla, oom : BOOLEAN]
    /\ en_cpu \in [pcb : ProcONull, tabla : Tabla]
    /\ lectura \in [pcb : ProcONull, tabla : Tabla]
    /\ hacia_memoria \in Seq(Pedido)
    /\ \A i \in DOMAIN desde_memoria : desde_memoria[i].op \in Respuestas
    /\ DOMAIN tablas_segmentos \subseteq Proc
    /\ \A p \in DOMAIN tablas_segmentos : tablas_segmentos[p] \in Tabla
    /\ compactaciones \in 0..MAX_COMPACTACIONES
    /\ caido \in {"no", "pcb_sin_registrar", "pcb_liberado", "respuesta_ajena"}

InstruccionDe(p) == programa[p][program_counter[p]]

\* A request of one of the two threads goes out on the socket.
Enviar(hilo, op, p, id) ==
    hacia_memoria' = Append(hacia_memoria, [hilo |-> hilo, op |-> op, pid |-> p, id |-> id])

\* Mutant: the thread does not take the mutex.
MutTomarSocket == mutex_socket_memoria /\ UNCHANGED mutex_socket_memoria

TomarSocket == mutex_socket_memoria /\ mutex_socket_memoria' = FALSE
SoltarSocket == mutex_socket_memoria' = TRUE

\* procesar_respuesta_memoria reads the next answer, whoever it is for.
HayRespuesta == caido = "no" /\ desde_memoria # <<>>
Leida == Head(desde_memoria)

Leer(hilo, ops) ==
    /\ HayRespuesta
    /\ Leida.hilo = hilo
    /\ Leida.op \in ops
    /\ desde_memoria' = Tail(desde_memoria)

EsperaRespuesta(hilo) ==
    IF hilo = "plp" THEN plp.pc = "recibe"
    ELSE hilo_cpu.pc \in {"recibe", "recibe_compactacion", "recibe_reenvio", "recibe_eliminada"}

\* A thread reads an answer meant for the other one: each takes the other's table or
\* waits for ever, and what follows is not modelled.
RecibirAjena ==
    /\ HayRespuesta
    /\ \E hilo \in Hilos : EsperaRespuesta(hilo) /\ Leida.hilo # hilo
    /\ caido' = "respuesta_ajena"
    /\ UNCHANGED <<pcbs, colas, cerrojos, hilos, enlace, memoria>>

-----------------------------------------------------------------------------
(* The consoles                                                            *)

\* crear_proceso: in cola_new first, in procesos_en_kernel after.
ConsolaCreaProceso(p) ==
    /\ caido = "no"
    /\ consola[p] = "inicio"
    /\ consola' = [consola EXCEPT ![p] = "registra"]
    /\ \E prg \in Programas : programa' = [programa EXCEPT ![p] = prg]
    /\ cola_new' = Append(cola_new, p)
    /\ UNCHANGED <<program_counter, estado_actual, tabla_segmento, destruidos, motivo,
                   procesos_en_kernel, cola_ready, cola_exit, cpu_liberada, sem_nuevo_proceso,
                   cerrojos, plp, hilo_cpu, en_cpu, lectura, enlace, memoria, caido>>

ConsolaRegistra(p) ==
    /\ caido = "no"
    /\ consola[p] = "registra"
    /\ consola' = [consola EXCEPT ![p] = "espera"]
    /\ procesos_en_kernel' = procesos_en_kernel \cup {p}
    /\ sem_nuevo_proceso' = sem_nuevo_proceso + 1
    /\ UNCHANGED <<programa, program_counter, estado_actual, tabla_segmento, destruidos, motivo,
                   cola_new, cola_ready, cola_exit, cpu_liberada, cerrojos, plp, hilo_cpu,
                   en_cpu, lectura, enlace, memoria, caido>>

\* Mutant: the console does not wait for sem_exit_proceso.
MutConsolaRetira(p) ==
    /\ caido = "no"
    /\ consola[p] = "espera"
    /\ cola_exit # <<>>
    /\ cola_exit' = Tail(cola_exit)
    /\ procesos_en_kernel' = procesos_en_kernel \ {Head(cola_exit)}
    /\ consola' = [consola EXCEPT ![p] = "destruye"]
    /\ UNCHANGED <<programa, program_counter, estado_actual, tabla_segmento, destruidos, motivo,
                   cola_new, cola_ready, cpu_liberada, sem_nuevo_proceso, cerrojos, plp,
                   hilo_cpu, en_cpu, lectura, enlace, memoria, caido>>

\* respuesta_proceso: its own process has ended; the one it takes out of the list is
\* the head of cola_exit.
ConsolaRetira(p) ==
    /\ caido = "no"
    /\ consola[p] = "espera"
    /\ estado_actual[p] = "EXIT"
    /\ cola_exit # <<>>
    /\ cola_exit' = Tail(cola_exit)
    /\ procesos_en_kernel' = procesos_en_kernel \ {Head(cola_exit)}
    /\ consola' = [consola EXCEPT ![p] = "destruye"]
    /\ UNCHANGED <<programa, program_counter, estado_actual, tabla_segmento, destruidos, motivo,
                   cola_new, cola_ready, cpu_liberada, sem_nuevo_proceso, cerrojos, plp,
                   hilo_cpu, en_cpu, lectura, enlace, memoria, caido>>

ConsolaDestruye(p) ==
    /\ caido = "no"
    /\ consola[p] = "destruye"
    /\ consola' = [consola EXCEPT ![p] = "fin"]
    /\ destruidos' = destruidos \cup {p}
    /\ UNCHANGED <<programa, program_counter, estado_actual, tabla_segmento, motivo,
                   procesos_en_kernel, colas, cerrojos, plp, hilo_cpu, en_cpu, lectura, enlace,
                   memoria, caido>>

-----------------------------------------------------------------------------
(* The long-term scheduler                                                 *)

\* Mutant: the scheduler does not wait for sem_nuevo_proceso.
MutPlpEspera ==
    /\ caido = "no"
    /\ plp.pc = "espera"
    /\ cola_new # <<>>
    /\ sem_nuevo_proceso' = sem_nuevo_proceso - 1
    /\ plp' = [pc |-> "pide", pcb |-> Head(cola_new)]
    /\ UNCHANGED <<pcbs, cola_new, cola_ready, cola_exit, cpu_liberada, cerrojos, consola,
                   hilo_cpu, en_cpu, lectura, enlace, memoria, caido>>

PlpEspera ==
    /\ caido = "no"
    /\ plp.pc = "espera"
    /\ sem_nuevo_proceso > 0
    /\ cola_new # <<>>
    /\ sem_nuevo_proceso' = sem_nuevo_proceso - 1
    /\ plp' = [pc |-> "pide", pcb |-> Head(cola_new)]
    /\ UNCHANGED <<pcbs, cola_new, cola_ready, cola_exit, cpu_liberada, cerrojos, consola,
                   hilo_cpu, en_cpu, lectura, enlace, memoria, caido>>

\* solicitar_nueva_tabla_de_segmento.
PlpPide ==
    /\ caido = "no"
    /\ plp.pc = "pide"
    /\ TomarSocket
    /\ Enviar("plp", "CREATE_TABLE", plp.pcb, 0)
    /\ plp' = [plp EXCEPT !.pc = "recibe"]
    /\ UNCHANGED <<pcbs, colas, puede_compactar, desbloqueo_de_mas, consola, hilo_cpu, en_cpu,
                   lectura, desde_memoria, memoria, caido>>

PlpRecibe ==
    /\ plp.pc = "recibe"
    /\ Leer("plp", {"TABLE_CREATED"})
    /\ SoltarSocket
    /\ tabla_segmento' = [tabla_segmento EXCEPT ![plp.pcb] = Leida.tabla]
    /\ estado_actual' = [estado_actual EXCEPT ![plp.pcb] = "READY"]
    /\ cola_new' = Tail(cola_new)
    /\ cola_ready' = Append(cola_ready, plp.pcb)
    /\ plp' = [pc |-> "espera", pcb |-> NoProc]
    /\ UNCHANGED <<programa, program_counter, destruidos, motivo, procesos_en_kernel, cola_exit,
                   cpu_liberada, sem_nuevo_proceso, puede_compactar, desbloqueo_de_mas, consola,
                   hilo_cpu, en_cpu, lectura, hacia_memoria, memoria, caido>>

PlanificadorLargoPlazo == PlpEspera \/ PlpPide \/ PlpRecibe

-----------------------------------------------------------------------------
(* The short-term scheduler and the CPU                                    *)

\* The context carries a copy of the table of the pcb.
Contexto(p) == [pcb |-> p, tabla |-> tabla_segmento[p]]
SinContexto == [pcb |-> NoProc, tabla |-> TablaVacia]

Despacha ==
    /\ caido = "no"
    /\ cpu_liberada > 0
    /\ cola_ready # <<>>
    /\ cpu_liberada' = cpu_liberada - 1
    /\ cola_ready' = Tail(cola_ready)
    /\ estado_actual' = [estado_actual EXCEPT ![Head(cola_ready)] = "EXEC"]
    /\ en_cpu' = Contexto(Head(cola_ready))
    /\ UNCHANGED <<programa, program_counter, tabla_segmento, destruidos, motivo,
                   procesos_en_kernel, cola_new, cola_exit, sem_nuevo_proceso, cerrojos, consola,
                   plp, hilo_cpu, lectura, enlace, memoria, caido>>

\* The CPU gives the process back; what it has computed comes from its own copy.
CpuDevuelve ==
    /\ caido = "no"
    /\ hilo_cpu.pc = "espera"
    /\ en_cpu.pcb # NoProc
    /\ program_counter[en_cpu.pcb] < Len(programa[en_cpu.pcb])
    /\ program_counter' = [program_counter EXCEPT ![en_cpu.pcb] = @ + 1]
    /\ hilo_cpu' = [pc |-> "procesa", pcb |-> en_cpu.pcb, tabla |-> en_cpu.tabla, oom |-> FALSE]
    /\ en_cpu' = SinContexto
    /\ UNCHANGED <<programa, estado_actual, tabla_segmento, destruidos, motivo,
                   procesos_en_kernel, colas, cerrojos, consola, plp, lectura, enlace, memoria,
                   caido>>

-----------------------------------------------------------------------------
(* The thread that handles the answers of the CPU                          *)

\* A step of this thread: where it is and where it goes on.
HiloCpu(desde, hacia) ==
    /\ caido = "no"
    /\ hilo_cpu.pc = desde
    /\ hilo_cpu' = [hilo_cpu EXCEPT !.pc = hacia]
    /\ UNCHANGED <<programa, program_counter, destruidos, cola_new, sem_nuevo_proceso, consola,
                   plp, memoria>>

\* procesar_create_segment and procesar_delete_segment.
PedirSegmento ==
    LET i == InstruccionDe(hilo_cpu.pcb) IN
    /\ HiloCpu("procesa", "recibe")
    /\ i.codigo \in {"CREATE_SEGMENT", "DELETE_SEGMENT"}
    /\ TomarSocket
    /\ Enviar("cpu", i.codigo, hilo_cpu.pcb, i.id)
    /\ UNCHANGED <<estado_actual, tabla_segmento, motivo, procesos_en_kernel, cola_ready,
                   cola_exit, cpu_liberada, puede_compactar, desbloqueo_de_mas, en_cpu, lectura,
                   desde_memoria, caido>>

\* The segment was created or deleted: the pcb gets the table of the answer.
RecibirTabla ==
    /\ HiloCpu("recibe", "suelta")
    /\ Leer("cpu", ConTabla)
    /\ tabla_segmento' = [tabla_segmento EXCEPT ![hilo_cpu.pcb] = Leida.tabla]
    /\ UNCHANGED <<estado_actual, motivo, procesos_en_kernel, cola_ready, cola_exit, cpu_liberada,
                   cerrojos, en_cpu, lectura, hacia_memoria, caido>>

\* MEMORY_NEEDS_TO_COMPACT, for the first request or for the one sent again.
RecibirFaltaCompactar ==
    /\ \/ HiloCpu("recibe", "pide_compactar")
       \/ HiloCpu("recibe_reenvio", "pide_compactar")
    /\ Leer("cpu", {"NEEDS_TO_COMPACT"})
    /\ UNCHANGED <<estado_actual, tabla_segmento, motivo, procesos_en_kernel, cola_ready,
                   cola_exit, cpu_liberada, cerrojos, en_cpu, lectura, hacia_memoria, caido>>

PedirCompactacion ==
    /\ HiloCpu("pide_compactar", "recibe_compactacion")
    /\ puede_compactar
    /\ puede_compactar' = FALSE
    /\ Enviar("cpu", "COMPACT", hilo_cpu.pcb, 0)
    /\ UNCHANGED <<estado_actual, tabla_segmento, motivo, procesos_en_kernel, cola_ready,
                   cola_exit, cpu_liberada, mutex_socket_memoria, desbloqueo_de_mas, en_cpu,
                   lectura, desde_memoria, caido>>

\* Mutant: only the process that asked for the compaction is brought up to date.
MutSincronizarTablasProcesos(tablas) ==
    tabla_segmento' = [tabla_segmento EXCEPT ![hilo_cpu.pcb] = tablas[hilo_cpu.pcb]]

\* sincronizar_tablas_procesos: every table of the answer goes to the pcb with its pid.
SincronizarTablasProcesos(tablas) ==
    tabla_segmento' = [p \in Proc |-> IF p \in DOMAIN tablas THEN tablas[p]
                                                             ELSE tabla_segmento[p]]

\* A pid that is not in procesos_en_kernel gives a NULL pcb.
RecibirCompactacion ==
    /\ HiloCpu("recibe_compactacion", "recibe_reenvio")
    /\ Leer("cpu", {"COMPACT"})
    /\ \/ /\ DOMAIN Leida.tablas \subseteq procesos_en_kernel
          /\ SincronizarTablasProcesos(Leida.tablas)
          /\ Enviar("cpu", "CREATE_SEGMENT", hilo_cpu.pcb, InstruccionDe(hilo_cpu.pcb).id)
          /\ UNCHANGED caido
       \/ /\ ~(DOMAIN Leida.tablas \subseteq procesos_en_kernel)
          /\ caido' = "pcb_sin_registrar"
          /\ UNCHANGED <<tabla_segmento, hacia_memoria>>
    /\ UNCHANGED <<estado_actual, motivo, procesos_en_kernel, cola_ready, cola_exit, cpu_liberada,
                   cerrojos, en_cpu, lectura>>

\* The creation sent again is answered, and the calls that wait on the stack return.
RecibirReenvio ==
    /\ HiloCpu("recibe_reenvio", "suelta")
    /\ Leer("cpu", ConTabla)
    /\ tabla_segmento' = [tabla_segmento EXCEPT ![hilo_cpu.pcb] = Leida.tabla]
    /\ puede_compactar' = TRUE
    /\ UNCHANGED <<estado_actual, motivo, procesos_en_kernel, cola_ready, cola_exit, cpu_liberada,
                   mutex_socket_memoria, desbloqueo_de_mas, en_cpu, lectura, hacia_memoria, caido>>

\* Mutant: without the unlock that was added as a patch.
MutRecibirOutOfMemory ==
    /\ caido = "no"
    /\ hilo_cpu.pc = "recibe"
    /\ Leer("cpu", {"OUT_OF_MEMORY"})
    /\ hilo_cpu' = [hilo_cpu EXCEPT !.pc = "elimina", !.oom = TRUE]
    /\ UNCHANGED <<pcbs, colas, cerrojos, consola, plp, en_cpu, lectura,
                   hacia_memoria, memoria, caido>>

\* MEMORY_ERROR_OUT_OF_MEMORY: the mutex is released before the table is deleted.
RecibirOutOfMemory ==
    /\ caido = "no"
    /\ hilo_cpu.pc = "recibe"
    /\ Leer("cpu", {"OUT_OF_MEMORY"})
    /\ SoltarSocket
    /\ hilo_cpu' = [hilo_cpu EXCEPT !.pc = "elimina", !.oom = TRUE]
    /\ UNCHANGED <<pcbs, colas, puede_compactar, desbloqueo_de_mas, consola, plp, en_cpu, lectura,
                   hacia_memoria, memoria, caido>>

\* Mutant: the table of Memoria outlives the process.
MutProcesarExit ==
    /\ HiloCpu("procesa", "libera")
    /\ InstruccionDe(hilo_cpu.pcb).codigo = "EXIT"
    /\ estado_actual' = [estado_actual EXCEPT ![hilo_cpu.pcb] = "EXIT"]
    /\ motivo' = [motivo EXCEPT ![hilo_cpu.pcb] = "SUCCESS"]
    /\ cola_exit' = Append(cola_exit, hilo_cpu.pcb)
    /\ UNCHANGED <<tabla_segmento, procesos_en_kernel, cola_ready, cpu_liberada, cerrojos, en_cpu,
                   lectura, enlace, caido>>

\* procesar_contexto, EXIT.
ProcesarExit ==
    /\ HiloCpu("procesa", "elimina")
    /\ InstruccionDe(hilo_cpu.pcb).codigo = "EXIT"
    /\ UNCHANGED <<estado_actual, tabla_segmento, motivo, procesos_en_kernel, cola_ready,
                   cola_exit, cpu_liberada, cerrojos, en_cpu, lectura, enlace, caido>>

\* solicitar_eliminar_tabla_de_segmento, for EXIT and for OUT_OF_MEMORY.
PedirEliminarTabla ==
    /\ HiloCpu("elimina", "recibe_eliminada")
    /\ TomarSocket
    /\ Enviar("cpu", "DELETE_TABLE", hilo_cpu.pcb, 0)
    /\ UNCHANGED <<estado_actual, tabla_segmento, motivo, procesos_en_kernel, cola_ready,
                   cola_exit, cpu_liberada, puede_compactar, desbloqueo_de_mas, en_cpu, lectura,
                   desde_memoria, caido>>

\* Then pasar_a_cola_exit, which wakes the console up.
RecibirTablaEliminada ==
    /\ HiloCpu("recibe_eliminada", "libera")
    /\ Leer("cpu", {"TABLE_DELETED"})
    /\ SoltarSocket
    /\ estado_actual' = [estado_actual EXCEPT ![hilo_cpu.pcb] = "EXIT"]
    /\ motivo' = [motivo EXCEPT ![hilo_cpu.pcb] = IF hilo_cpu.oom THEN "OUT_OF_MEMORY"
                                                                  ELSE "SUCCESS"]
    /\ cola_exit' = Append(cola_exit, hilo_cpu.pcb)
    /\ UNCHANGED <<tabla_segmento, procesos_en_kernel, cola_ready, cpu_liberada, puede_compactar,
                   desbloqueo_de_mas, en_cpu, lectura, hacia_memoria, caido>>

\* sem_post(&cpu_liberada).  After an OUT_OF_MEMORY the call that was waiting returns.
HiloCpuLibera ==
    /\ HiloCpu("libera", IF hilo_cpu.oom THEN "suelta" ELSE "espera")
    /\ cpu_liberada' = cpu_liberada + 1
    /\ UNCHANGED <<estado_actual, tabla_segmento, motivo, procesos_en_kernel, cola_ready,
                   cola_exit, cerrojos, en_cpu, lectura, enlace, caido>>

\* The unlock that ends procesar_create_segment and procesar_delete_segment: after an
\* OUT_OF_MEMORY it is one too many, whoever holds the mutex by then.
HiloCpuSuelta ==
    /\ HiloCpu("suelta", "decide")
    /\ SoltarSocket
    /\ desbloqueo_de_mas' = (desbloqueo_de_mas \/ hilo_cpu.oom)
    /\ UNCHANGED <<estado_actual, tabla_segmento, motivo, procesos_en_kernel, cola_ready,
                   cola_exit, cpu_liberada, puede_compactar, en_cpu, lectura, enlace, caido>>

\* DELETE_SEGMENT sends the process back; CREATE_SEGMENT looks at the state of the pcb
\* first, and after an OUT_OF_MEMORY its console may have freed it: what it reads then
\* decides whether a dead process gets the CPU.
HiloCpuDecide ==
    /\ HiloCpu("decide", "espera")
    /\ \/ /\ hilo_cpu.pcb \notin destruidos
          /\ en_cpu' = IF estado_actual[hilo_cpu.pcb] = "EXEC" THEN Contexto(hilo_cpu.pcb)
                                                                ELSE en_cpu
          /\ UNCHANGED caido
       \/ /\ hilo_cpu.pcb \in destruidos
          /\ caido' \in {"no", "pcb_liberado"}
          /\ UNCHANGED en_cpu
    /\ UNCHANGED <<estado_actual, tabla_segmento, motivo, procesos_en_kernel, cola_ready,
                   cola_exit, cpu_liberada, cerrojos, lectura, enlace>>

\* F_READ: under puede_compactar the request goes out with the address the CPU
\* computed, and the process is blocked.
ProcesarFRead ==
    /\ HiloCpu("procesa", "libera")
    /\ InstruccionDe(hilo_cpu.pcb).codigo = "F_READ"
    /\ puede_compactar
    /\ puede_compactar' = FALSE
    /\ lectura' = [pcb |-> hilo_cpu.pcb, tabla |-> hilo_cpu.tabla]
    /\ estado_actual' = [estado_actual EXCEPT ![hilo_cpu.pcb] = "BLOCK"]
    /\ UNCHANGED <<tabla_segmento, motivo, procesos_en_kernel, cola_ready, cola_exit,
                   cpu_liberada, mutex_socket_memoria, desbloqueo_de_mas, en_cpu, enlace, caido>>

ManejarRespuestaCpu ==
    \/ PedirSegmento \/ RecibirTabla
    \/ RecibirFaltaCompactar \/ PedirCompactacion \/ RecibirCompactacion \/ RecibirReenvio
    \/ RecibirOutOfMemory
    \/ ProcesarExit \/ PedirEliminarTabla \/ RecibirTablaEliminada
    \/ HiloCpuLibera \/ HiloCpuSuelta \/ HiloCpuDecide
    \/ ProcesarFRead

\* F_READ_OK: the FileSystem has written the data to the address, and the thread of
\* the file system releases the mutex and wakes the process up.
RecibirLeido ==
    /\ caido = "no"
    /\ lectura.pcb # NoProc
    /\ puede_compactar' = TRUE
    /\ estado_actual' = [estado_actual EXCEPT ![lectura.pcb] = "READY"]
    /\ cola_ready' = Append(cola_ready, lectura.pcb)
    /\ lectura' = SinContexto
    /\ UNCHANGED <<programa, program_counter, tabla_segmento, destruidos, motivo,
                   procesos_en_kernel, cola_new, cola_exit, cpu_liberada, sem_nuevo_proceso,
                   mutex_socket_memoria, desbloqueo_de_mas, consola, plp, hilo_cpu, en_cpu,
                   enlace, memoria, caido>>

-----------------------------------------------------------------------------
(* Memoria: procesar_kernel                                                *)

\* It serves the head of the socket and answers to whom it says.
Atiende(op) ==
    /\ caido = "no"
    /\ hacia_memoria # <<>>
    /\ Head(hacia_memoria).op = op
    /\ hacia_memoria' = Tail(hacia_memoria)
    /\ UNCHANGED <<pcbs, colas, cerrojos, hilos, caido>>

Responde(op, tablas) ==
    LET r == Head(hacia_memoria) IN
    desde_memoria' = Append(desde_memoria,
        [hilo |-> r.hilo, op |-> op, tablas |-> tablas,
         tabla |-> IF r.pid \in DOMAIN tablas THEN tablas[r.pid] ELSE TablaVacia])

\* The tables with that of the process changed.
ConTablaDe(p, segmentos) ==
    [q \in DOMAIN tablas_segmentos \cup {p} |->
        IF q = p THEN [segmentos |-> segmentos, epoca |-> compactaciones]
                 ELSE tablas_segmentos[q]]

MemoryCreateTable ==
    /\ Atiende("CREATE_TABLE")
    /\ tablas_segmentos' = ConTablaDe(Head(hacia_memoria).pid, {})
    /\ Responde("TABLE_CREATED", tablas_segmentos')
    /\ UNCHANGED compactaciones

\* buscar_tabla_segmentos gives 1 and never NULL when there is no table, and Memoria
\* would free it: the answer TABLE_NOT_FOUND is never sent, and here nothing follows.
MemoryDeleteTable ==
    LET p == Head(hacia_memoria).pid IN
    /\ Atiende("DELETE_TABLE")
    /\ p \in DOMAIN tablas_segmentos
    /\ tablas_segmentos' = [q \in DOMAIN tablas_segmentos \ {p} |-> tablas_segmentos[q]]
    /\ Responde("TABLE_DELETED", tablas_segmentos')
    /\ UNCHANGED compactaciones

\* The segment fits, or would after a compaction, or does not.  A compaction need not
\* join all that is free, but it does not change how much it is.
MemoryCreateSegment ==
    LET r == Head(hacia_memoria) IN
    /\ Atiende("CREATE_SEGMENT")
    /\ r.pid \in DOMAIN tablas_segmentos
    /\ \/ /\ tablas_segmentos' = ConTablaDe(r.pid, tablas_segmentos[r.pid].segmentos \cup {r.id})
          /\ Responde("SEGMENT_CREATED", tablas_segmentos')
       \/ /\ compactaciones < MAX_COMPACTACIONES \/ hilo_cpu.pc = "recibe_reenvio"
          /\ Responde("NEEDS_TO_COMPACT", tablas_segmentos)
          /\ UNCHANGED tablas_segmentos
       \/ /\ hilo_cpu.pc # "recibe_reenvio"
          /\ Responde("OUT_OF_MEMORY", tablas_segmentos)
          /\ UNCHANGED tablas_segmentos
    /\ UNCHANGED compactaciones

MemoryDeleteSegment ==
    LET r == Head(hacia_memoria) IN
    /\ Atiende("DELETE_SEGMENT")
    /\ r.pid \in DOMAIN tablas_segmentos
    /\ tablas_segmentos' = ConTablaDe(r.pid, tablas_segmentos[r.pid].segmentos \ {r.id})
    /\ Responde("SEGMENT_DELETED", tablas_segmentos')
    /\ UNCHANGED compactaciones

\* Every base may change; the answer has the tables of all the processes.
MemoryCompact ==
    /\ Atiende("COMPACT")
    /\ compactaciones' = compactaciones + 1
    /\ tablas_segmentos' = [p \in DOMAIN tablas_segmentos |->
                               [tablas_segmentos[p] EXCEPT !.epoca = compactaciones + 1]]
    /\ Responde("COMPACT", tablas_segmentos')

Memoria == \/ MemoryCreateTable \/ MemoryDeleteTable \/ MemoryCreateSegment
           \/ MemoryDeleteSegment \/ MemoryCompact

-----------------------------------------------------------------------------
(* The specification                                                       *)

Init ==
    /\ programa = [p \in Proc |-> <<>>]
    /\ program_counter = [p \in Proc |-> 0]
    /\ estado_actual = [p \in Proc |-> "NEW"]
    /\ tabla_segmento = [p \in Proc |-> TablaVacia]
    /\ destruidos = {}
    /\ motivo = [p \in Proc |-> "NOT_DEFINED"]
    /\ procesos_en_kernel = {}
    /\ cola_new = <<>>
    /\ cola_ready = <<>>
    /\ cola_exit = <<>>
    /\ cpu_liberada = 1
    /\ sem_nuevo_proceso = 0
    /\ mutex_socket_memoria = TRUE
    /\ puede_compactar = TRUE
    /\ consola = [p \in Proc |-> "inicio"]
    /\ plp = [pc |-> "espera", pcb |-> NoProc]
    /\ hilo_cpu = [pc |-> "espera", pcb |-> NoProc, tabla |-> TablaVacia, oom |-> FALSE]
    /\ en_cpu = SinContexto
    /\ lectura = SinContexto
    /\ hacia_memoria = <<>>
    /\ desde_memoria = <<>>
    /\ tablas_segmentos = [p \in {} |-> TablaVacia]
    /\ compactaciones = 0
    /\ desbloqueo_de_mas = FALSE
    /\ caido = "no"

Next == \/ \E p \in Proc : \/ ConsolaCreaProceso(p)
                           \/ ConsolaRegistra(p)
                           \/ ConsolaRetira(p)
                           \/ ConsolaDestruye(p)
        \/ PlanificadorLargoPlazo
        \/ Despacha
        \/ CpuDevuelve
        \/ ManejarRespuestaCpu
        \/ RecibirAjena
        \/ RecibirLeido
        \/ Memoria

Spec == Init /\ [][Next]_vars

\* The threads of the Kernel are pthreads the system schedules; the CPU, Memoria and
\* the FileSystem run on their own.  A console may never come.
Fairness ==
    /\ \A p \in Proc : /\ WF_vars(ConsolaRegistra(p))
                       /\ WF_vars(ConsolaRetira(p))
                       /\ WF_vars(ConsolaDestruye(p))
    /\ WF_vars(PlanificadorLargoPlazo)
    /\ WF_vars(Despacha)
    /\ WF_vars(CpuDevuelve)
    /\ WF_vars(ManejarRespuestaCpu)
    /\ WF_vars(RecibirLeido)
    /\ WF_vars(Memoria)

FairSpec == Spec /\ Fairness

-----------------------------------------------------------------------------
(* Properties                                                              *)

\* The addresses in use are those of Memoria: the context the CPU works with has the
\* table Memoria has for that process, and so has the F_READ on its way to it,
\* although a compaction for another process changes both under them
\* (planificador_utils.c:517-529, 564-599, i_cpu.c:103).
Vigente(contexto) ==
    contexto.pcb # NoProc =>
        /\ contexto.pcb \in DOMAIN tablas_segmentos
        /\ contexto.tabla = tablas_segmentos[contexto.pcb]
DireccionesVigentes == caido = "no" => Vigente(en_cpu) /\ Vigente(lectura)

\* Each thread reads the answer to what it asked, until an OUT_OF_MEMORY has released
\* mutex_socket_memoria twice (planificador_utils.c:511, i_cpu.c:308).
RespuestaPropia == caido = "respuesta_ajena" => desbloqueo_de_mas

\* A compaction misses a pcb only while its console is between cola_new and
\* procesos_en_kernel (i_console.c:70-72): a process that ends has its table deleted
\* before it leaves the list.
SoloFaltanSinRegistrar ==
    caido = "pcb_sin_registrar" =>
        \A p \in DOMAIN tablas_segmentos \ procesos_en_kernel : consola[p] = "registra"

\* The thread reads a freed pcb only after an OUT_OF_MEMORY of that process
\* (i_cpu.c:123); every other pcb it works on is alive.
PcbVivo ==
    hilo_cpu.pcb \in destruidos /\ hilo_cpu.pc # "espera" =>
        motivo[hilo_cpu.pcb] = "OUT_OF_MEMORY" \/ hilo_cpu.pc = "libera"

\* The thread waits for a mutex it holds: Memoria has asked it to compact once more for
\* the same segment (planificador_utils.c:517-519).
EsperaSuCerrojo ==
    hilo_cpu.pc = "pide_compactar" /\ ~puede_compactar /\ lectura.pcb = NoProc

\* Every console that submits a program sees it end, unless the Kernel waits for itself:
\* no request of the two threads is left without its answer, and no process without its
\* turn (i_console.c:79, i_cpu.c:308, planificador_utils.c:510-513).
TodaConsolaTermina ==
    <>[](caido # "no" \/ EsperaSuCerrojo \/ \A p \in Proc : consola[p] \in {"inicio", "fin"})

=============================================================================

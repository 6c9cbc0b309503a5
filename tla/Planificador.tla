---------------------------- MODULE Planificador ----------------------------
(***************************************************************************)
(* The scheduler of the Kernel process: the console threads that create a  *)
(* process and wait for its end, the long-term scheduler (PLP), the        *)
(* short-term scheduler (PCP), the thread that handles the answers of the  *)
(* CPU, one detached thread per I/O, and the CPU at the other end of the   *)
(* socket.  The threads share the queues of planificador_utils.c and talk  *)
(* through POSIX semaphores.                                               *)
(*                                                                         *)
(* Granularity.  One action is what a thread does from one point where it  *)
(* can block, or where another thread can see a half-done change, to the   *)
(* next.  A squeue_* call is one critical section; a sem_post that follows *)
(* it commutes with the steps of the other threads and is taken with it.   *)
(* What is split on purpose: the peek and the pop of cola_ready, the push  *)
(* to cola_new and the registration of the process, the wait of the exit   *)
(* semaphore, the pop of cola_exit and the read of the popped pcb, the     *)
(* search of the index and the insertion of HRRN at the end of an I/O, and *)
(* every post of cpu_liberada.                                             *)
(*                                                                         *)
(* Left out: the instructions on files and CREATE_SEGMENT, the contents of *)
(* the memory tables, registers, timers, and the log.                      *)
(***************************************************************************)
EXTENDS Integers, Sequences, FiniteSets

CONSTANTS
    Proc,               \* the processes, one per console that connects
    NoProc,             \* the null pcb
    Nombre,             \* the resource names a program may mention
    Recurso,            \* the names in lista_recursos
    Instancias,         \* INSTANCIAS_RECURSOS of the configuration
    GRADO_MAX,          \* GRADO_MAX_MULTIPROGRAMACION
    ALGORITMO,          \* ALGORITMO_PLANIFICACION
    Programas           \* the programs a console may submit

\* What a program is made of.  SET and MOV stay inside the CPU; the others
\* give the process back to the kernel.  DELETE_SEGMENT stands for the calls
\* that the kernel answers by sending the same process to the CPU again.
Codigos == {"SET", "MOV", "YIELD", "IO", "WAIT", "SIGNAL", "DELETE_SEGMENT", "EXIT"}
NombreONull == Nombre \cup {""}
Instruccion == [codigo : Codigos, nombre : NombreONull]

ASSUME ConstantesAssumption ==
    /\ NoProc \notin Proc
    /\ Recurso \subseteq Nombre
    /\ Instancias \in [Recurso -> Nat]
    /\ GRADO_MAX \in Nat
    /\ ALGORITMO \in {"FIFO", "HRRN"}
    /\ Programas \subseteq Seq(Instruccion)

VARIABLES
    \* the pcbs
    programa, program_counter, estado_actual, motivo, destruidos,
    procesos_en_kernel,
    \* the queues; nobody reads the order of cola_block: it is a bag
    cola_new, cola_ready, cola_exec, cola_block, cola_exit,
    \* lista_recursos
    instancias, cola_bloqueados,
    \* the semaphores
    sem_nuevo_proceso, sem_grado_multiprogramacion, sem_ready_proceso,
    cpu_liberada, proceso_enviado, sem_exit_proceso,
    \* the threads
    consola, retirado, respuesta, plp, pcp, hilo_cpu,
    hilos_io, insertando, indice,
    \* the CPU process and the two directions of socket_cpu
    hacia_cpu, cpu, desde_cpu

pcbs      == <<programa, program_counter, estado_actual, motivo, destruidos,
               procesos_en_kernel>>
colas     == <<cola_new, cola_ready, cola_exec, cola_block, cola_exit>>
recursos  == <<instancias, cola_bloqueados>>
semaforos == <<sem_nuevo_proceso, sem_grado_multiprogramacion, sem_ready_proceso,
               cpu_liberada, proceso_enviado, sem_exit_proceso>>
consolas  == <<consola, retirado, respuesta>>
hilos_de_io == <<hilos_io, insertando, indice>>
hilos     == <<consolas, plp, pcp, hilo_cpu, hilos_de_io>>
enlace    == <<hacia_cpu, cpu, desde_cpu>>
vars      == <<pcbs, colas, recursos, semaforos, hilos, enlace>>

Estados == {"NEW", "READY", "EXEC", "BLOCK", "BLOCK_RECURSO", "EXIT"}
Motivos == {"NOT_DEFINED", "SUCCESS", "SEG_FAULT", "RESOURCE_NOT_FOUND"}
CodigosDeOperacion ==
    {"YIELD", "FINALIZADO", "BLOQUEADO", "WAIT", "SIGNAL", "DELETE_SEGMENT", "SEG_FAULT"}
ProcONull == Proc \cup {NoProc}
Contexto  == [pid : Proc, program_counter : Nat]
Devuelto  == [pid : Proc, program_counter : Nat,
              cod_op : CodigosDeOperacion, nombre : NombreONull]

TipoPcbs ==
    /\ programa \in [Proc -> Seq(Instruccion)]
    /\ program_counter \in [Proc -> Nat]
    /\ estado_actual \in [Proc -> Estados]
    /\ motivo \in [Proc -> Motivos]
    /\ destruidos \subseteq Proc
    /\ procesos_en_kernel \subseteq Proc
TipoColas ==
    /\ cola_new \in Seq(Proc)
    /\ cola_ready \in Seq(Proc)
    /\ cola_exec \in Seq(Proc)
    /\ cola_block \in [Proc -> Nat]
    /\ cola_exit \in Seq(Proc)
TipoRecursos ==
    /\ instancias \in [Recurso -> Int]
    /\ cola_bloqueados \in [Recurso -> Seq(Proc)]
TipoSemaforos ==
    /\ sem_nuevo_proceso \in Nat
    /\ sem_grado_multiprogramacion \in Nat
    /\ sem_ready_proceso \in Nat
    /\ cpu_liberada \in Nat
    /\ proceso_enviado \in Nat
    /\ sem_exit_proceso \in [Proc -> Nat]
TipoHilos ==
    /\ consola \in [Proc -> {"inicio", "registra", "espera", "retira", "responde",
                               "destruye", "fin"}]
    /\ retirado \in [Proc -> ProcONull]
    /\ \A p \in Proc : consola[p] = "responde" => retirado[p] \in Proc
    /\ respuesta \in [Proc -> Motivos \cup {"ninguna"}]
    /\ plp \in [pc : {"espera_nuevo", "espera_grado", "admite", "pasa_a_ready"},
                pcb : ProcONull]
    /\ pcp \in [pc : {"espera_cpu", "espera_ready", "elige", "despacha", "ejecuta"},
                pcb : ProcONull]
    /\ hilo_cpu \in [pc : {"espera", "recibe", "procesa", "libera", "ejecuta"},
                     pcb : ProcONull, cod_op : CodigosDeOperacion \cup {"NINGUNO"},
                     nombre : NombreONull]
    /\ hilos_io \subseteq Proc
    /\ insertando \subseteq Proc
    /\ indice \in [Proc -> Nat \cup {-1}]
TipoEnlace ==
    /\ hacia_cpu \in Seq(Contexto)
    /\ cpu \in [pid : ProcONull, program_counter : Nat]
    /\ desde_cpu \in Seq(Devuelto)

TypeOK == /\ TipoPcbs
          /\ TipoColas
          /\ TipoRecursos
          /\ TipoSemaforos
          /\ TipoHilos
          /\ TipoEnlace

-----------------------------------------------------------------------------
(* The moves between queues of planificador_utils.c                        *)

\* Mutant: the pcb goes to the front of cola_ready.
MutInsertar(cola, p) == <<p>> \o cola

\* FIFO appends to cola_ready.
Insertar(cola, p) == Append(cola, p)

\* Under HRRN the comparator reads timers that go on running: any position is possible.
InsertarEnOrden(cola, p) ==
    {SubSeq(cola, 1, i) \o <<p>> \o SubSeq(cola, i + 1, Len(cola)) : i \in 0..Len(cola)}

\* Mutant: the case of BLOCK forgets to take the pcb out of cola_block.
MutQuitarDeColaActual(p) ==
    /\ estado_actual[p] = "NEW" => cola_new # <<>>
    /\ estado_actual[p] = "EXEC" => cola_exec # <<>>
    /\ cola_new' = IF estado_actual[p] = "NEW" THEN Tail(cola_new) ELSE cola_new
    /\ cola_exec' = IF estado_actual[p] = "EXEC" THEN Tail(cola_exec) ELSE cola_exec
    /\ UNCHANGED cola_block

\* The switch on estado_actual that opens both pasar_a_cola_ready functions: it
\* takes the pcb out of the queue its state names.  From NEW and EXEC it is the
\* head of the queue that comes out, whoever the argument is.
QuitarDeColaActual(p) ==
    /\ estado_actual[p] = "NEW" => cola_new # <<>>
    /\ estado_actual[p] = "EXEC" => cola_exec # <<>>
    /\ cola_new' = IF estado_actual[p] = "NEW" THEN Tail(cola_new) ELSE cola_new
    /\ cola_exec' = IF estado_actual[p] = "EXEC" THEN Tail(cola_exec) ELSE cola_exec
    /\ cola_block' = IF estado_actual[p] = "BLOCK" /\ cola_block[p] > 0
                     THEN [cola_block EXCEPT ![p] = @ - 1] ELSE cola_block

\* pasar_a_cola_ready goes on with the pcb it popped, not with its argument.
Sacado(p) == CASE estado_actual[p] = "NEW"  -> Head(cola_new)
               [] estado_actual[p] = "EXEC" -> Head(cola_exec)
               [] OTHER -> p

\* Mutant: nobody posts sem_ready_proceso.
MutPasarAColaReady(p) ==
    /\ QuitarDeColaActual(p)
    /\ estado_actual' = [estado_actual EXCEPT ![Sacado(p)] = "READY"]
    /\ cola_ready' = Insertar(cola_ready, Sacado(p))
    /\ UNCHANGED <<cola_exit, sem_ready_proceso>>

PasarAColaReady(p) ==
    /\ QuitarDeColaActual(p)
    /\ estado_actual' = [estado_actual EXCEPT ![Sacado(p)] = "READY"]
    /\ cola_ready' = Insertar(cola_ready, Sacado(p))
    /\ sem_ready_proceso' = sem_ready_proceso + 1
    /\ UNCHANGED cola_exit

\* Mutant: the same, under HRRN.
MutPasarAColaReadyEnOrden(p) ==
    /\ QuitarDeColaActual(p)
    /\ estado_actual' = [estado_actual EXCEPT ![p] = "READY"]
    /\ cola_ready' \in InsertarEnOrden(cola_ready, p)
    /\ UNCHANGED <<cola_exit, sem_ready_proceso>>

\* In one step, as SIGNAL calls it: the process that signals keeps the CPU, so
\* nobody pops cola_ready between the search of the index and the insertion.
PasarAColaReadyEnOrden(p) ==
    /\ QuitarDeColaActual(p)
    /\ estado_actual' = [estado_actual EXCEPT ![p] = "READY"]
    /\ cola_ready' \in InsertarEnOrden(cola_ready, p)
    /\ sem_ready_proceso' = sem_ready_proceso + 1
    /\ UNCHANGED cola_exit

PasarAReadySegunAlgoritmo(p) ==
    \/ ALGORITMO = "HRRN" /\ PasarAColaReadyEnOrden(p)
    \/ ALGORITMO # "HRRN" /\ PasarAColaReady(p)

\* Mutant: the process that gets the CPU is still in READY.
MutPasarAColaExec ==
    /\ cola_ready # <<>>
    /\ cola_ready' = Tail(cola_ready)
    /\ cola_exec' = Append(cola_exec, Head(cola_ready))
    /\ UNCHANGED <<estado_actual, cola_new, cola_block, cola_exit>>

\* pasar_a_cola_exec takes the head of cola_ready, whoever was chosen before.
PasarAColaExec ==
    /\ cola_ready # <<>>
    /\ cola_ready' = Tail(cola_ready)
    /\ estado_actual' = [estado_actual EXCEPT ![Head(cola_ready)] = "EXEC"]
    /\ cola_exec' = Append(cola_exec, Head(cola_ready))
    /\ UNCHANGED <<cola_new, cola_block, cola_exit>>

\* Mutant: the process that leaves the CPU stays in cola_exec.
MutDescartarExec == UNCHANGED cola_exec

\* squeue_pop(cola_exec) with its result dropped: on an empty queue it does nothing.
DescartarExec == cola_exec' = IF cola_exec = <<>> THEN <<>> ELSE Tail(cola_exec)

PasarAColaBlocked(p) ==
    /\ DescartarExec
    /\ estado_actual' = [estado_actual EXCEPT ![p] = "BLOCK"]
    /\ cola_block' = [cola_block EXCEPT ![p] = @ + 1]
    /\ UNCHANGED <<cola_new, cola_ready, cola_exit, cola_bloqueados>>

PasarAColaBloqueadosDe(p, r) ==
    /\ DescartarExec
    /\ estado_actual' = [estado_actual EXCEPT ![p] = "BLOCK_RECURSO"]
    /\ cola_bloqueados' = [cola_bloqueados EXCEPT ![r] = Append(@, p)]
    /\ UNCHANGED <<cola_new, cola_ready, cola_block, cola_exit>>

\* The check that the pcb is in EXEC only logs: the move goes on regardless.
PasarAColaExit(p, causa) ==
    /\ DescartarExec
    /\ estado_actual' = [estado_actual EXCEPT ![p] = "EXIT"]
    /\ motivo' = [motivo EXCEPT ![p] = causa]
    /\ cola_exit' = Append(cola_exit, p)
    /\ sem_exit_proceso' = [sem_exit_proceso EXCEPT ![p] = @ + 1]
    /\ UNCHANGED <<cola_new, cola_ready, cola_block>>

\* Mutant: the context goes out one instruction behind.
MutEjecutarProceso(p) ==
    /\ hacia_cpu' = Append(hacia_cpu, [pid |-> p, program_counter |-> program_counter[p] - 1])
    /\ proceso_enviado' = proceso_enviado + 1

\* ejecutar_proceso: the context of the pcb goes to the CPU and the thread that
\* handles the answers is told.
EjecutarProceso(p) ==
    /\ hacia_cpu' = Append(hacia_cpu, [pid |-> p, program_counter |-> program_counter[p]])
    /\ proceso_enviado' = proceso_enviado + 1

-----------------------------------------------------------------------------
(* One thread per console: procesar_consola                                *)

ConsolaCreaProceso(p) ==
    /\ consola[p] = "inicio"
    /\ \E prg \in Programas : programa' = [programa EXCEPT ![p] = prg]
    /\ cola_new' = Append(cola_new, p)
    /\ consola' = [consola EXCEPT ![p] = "registra"]
    /\ UNCHANGED <<program_counter, estado_actual, motivo, destruidos, procesos_en_kernel,
                   cola_ready, cola_exec, cola_block, cola_exit, recursos, semaforos,
                   retirado, respuesta, plp, pcp, hilo_cpu, hilos_de_io, enlace>>

ConsolaRegistra(p) ==
    /\ consola[p] = "registra"
    /\ procesos_en_kernel' = procesos_en_kernel \cup {p}
    /\ sem_nuevo_proceso' = sem_nuevo_proceso + 1
    /\ consola' = [consola EXCEPT ![p] = "espera"]
    /\ UNCHANGED <<programa, program_counter, estado_actual, motivo, destruidos, colas,
                   recursos, sem_grado_multiprogramacion, sem_ready_proceso, cpu_liberada,
                   proceso_enviado, sem_exit_proceso, retirado, respuesta, plp, pcp,
                   hilo_cpu, hilos_de_io, enlace>>

ConsolaEspera(p) ==
    /\ consola[p] = "espera"
    /\ sem_exit_proceso[p] > 0
    /\ sem_exit_proceso' = [sem_exit_proceso EXCEPT ![p] = @ - 1]
    /\ consola' = [consola EXCEPT ![p] = "retira"]
    /\ UNCHANGED <<pcbs, colas, recursos, sem_nuevo_proceso, sem_grado_multiprogramacion,
                   sem_ready_proceso, cpu_liberada, proceso_enviado, retirado, respuesta,
                   plp, pcp, hilo_cpu, hilos_de_io, enlace>>

\* The console was woken by its own pcb, but goes on with the one it pops: the
\* head of cola_exit.
ConsolaRetira(p) ==
    /\ consola[p] = "retira"
    /\ cola_exit # <<>>
    /\ cola_exit' = Tail(cola_exit)
    /\ procesos_en_kernel' = procesos_en_kernel \ {Head(cola_exit)}
    /\ sem_grado_multiprogramacion' = sem_grado_multiprogramacion + 1
    /\ retirado' = [retirado EXCEPT ![p] = Head(cola_exit)]
    /\ consola' = [consola EXCEPT ![p] = "responde"]
    /\ UNCHANGED <<programa, program_counter, estado_actual, motivo, destruidos, cola_new,
                   cola_ready, cola_exec, cola_block, recursos, sem_nuevo_proceso,
                   sem_ready_proceso, cpu_liberada, proceso_enviado, sem_exit_proceso,
                   respuesta, plp, pcp, hilo_cpu, hilos_de_io, enlace>>

\* The motivo it sends is read after the place has been given back: that of a pcb
\* freed by then can be anything.
MotivoLeido(q) == IF q \in destruidos THEN Motivos ELSE {motivo[q]}

ConsolaResponde(p) ==
    /\ consola[p] = "responde"
    /\ \E m \in MotivoLeido(retirado[p]) : respuesta' = [respuesta EXCEPT ![p] = m]
    /\ retirado' = [retirado EXCEPT ![p] = NoProc]
    /\ consola' = [consola EXCEPT ![p] = "destruye"]
    /\ UNCHANGED <<pcbs, colas, recursos, semaforos, plp, pcp, hilo_cpu, hilos_de_io, enlace>>

\* destroy_pcb frees the console's own pcb.
ConsolaDestruye(p) ==
    /\ consola[p] = "destruye"
    /\ destruidos' = destruidos \cup {p}
    /\ consola' = [consola EXCEPT ![p] = "fin"]
    /\ UNCHANGED <<programa, program_counter, estado_actual, motivo, procesos_en_kernel,
                   colas, recursos, semaforos, retirado, respuesta, plp, pcp, hilo_cpu,
                   hilos_de_io, enlace>>

Consola(p) == \/ ConsolaCreaProceso(p)
              \/ ConsolaRegistra(p)
              \/ ConsolaEspera(p)
              \/ ConsolaRetira(p)
              \/ ConsolaResponde(p)
              \/ ConsolaDestruye(p)

-----------------------------------------------------------------------------
(* The long-term scheduler: planificador_largo_plazo                       *)

PlpEsperaNuevo ==
    /\ plp.pc = "espera_nuevo"
    /\ sem_nuevo_proceso > 0
    /\ sem_nuevo_proceso' = sem_nuevo_proceso - 1
    /\ plp' = [pc |-> "espera_grado", pcb |-> NoProc]
    /\ UNCHANGED <<pcbs, colas, recursos, sem_grado_multiprogramacion, sem_ready_proceso,
                   cpu_liberada, proceso_enviado, sem_exit_proceso, consolas, pcp,
                   hilo_cpu, hilos_de_io, enlace>>

\* Mutant: the PLP does not take a place.
MutPlpEsperaGrado ==
    /\ plp.pc = "espera_grado"
    /\ sem_grado_multiprogramacion > 0
    /\ plp' = [pc |-> "admite", pcb |-> NoProc]
    /\ UNCHANGED <<pcbs, colas, recursos, semaforos, consolas, pcp, hilo_cpu, hilos_de_io,
                   enlace>>

PlpEsperaGrado ==
    /\ plp.pc = "espera_grado"
    /\ sem_grado_multiprogramacion > 0
    /\ sem_grado_multiprogramacion' = sem_grado_multiprogramacion - 1
    /\ plp' = [pc |-> "admite", pcb |-> NoProc]
    /\ UNCHANGED <<pcbs, colas, recursos, sem_nuevo_proceso, sem_ready_proceso,
                   cpu_liberada, proceso_enviado, sem_exit_proceso, consolas, pcp,
                   hilo_cpu, hilos_de_io, enlace>>

\* It peeks cola_new and asks Memoria for the segment table of that process.
PlpAdmite ==
    /\ plp.pc = "admite"
    /\ cola_new # <<>>
    /\ plp' = [pc |-> "pasa_a_ready", pcb |-> Head(cola_new)]
    /\ UNCHANGED <<pcbs, colas, recursos, semaforos, consolas, pcp, hilo_cpu, hilos_de_io,
                   enlace>>

PlpPasaAReady ==
    /\ plp.pc = "pasa_a_ready"
    /\ PasarAColaReady(plp.pcb)
    /\ plp' = [pc |-> "espera_nuevo", pcb |-> NoProc]
    /\ UNCHANGED <<programa, program_counter, motivo, destruidos, procesos_en_kernel,
                   recursos, sem_nuevo_proceso, sem_grado_multiprogramacion, cpu_liberada,
                   proceso_enviado, sem_exit_proceso, consolas, pcp, hilo_cpu, hilos_de_io,
                   enlace>>

PlanificadorLargoPlazo == PlpEsperaNuevo \/ PlpEsperaGrado \/ PlpAdmite \/ PlpPasaAReady

-----------------------------------------------------------------------------
(* The short-term scheduler: planificador_corto_plazo                      *)

PcpEsperaCpu ==
    /\ pcp.pc = "espera_cpu"
    /\ cpu_liberada > 0
    /\ cpu_liberada' = cpu_liberada - 1
    /\ pcp' = [pc |-> "espera_ready", pcb |-> NoProc]
    /\ UNCHANGED <<pcbs, colas, recursos, sem_nuevo_proceso, sem_grado_multiprogramacion,
                   sem_ready_proceso, proceso_enviado, sem_exit_proceso, consolas, plp,
                   hilo_cpu, hilos_de_io, enlace>>

\* Mutant: the PCP does not wait for sem_ready_proceso.
MutPcpEsperaReady ==
    /\ pcp.pc = "espera_ready"
    /\ pcp' = [pc |-> "elige", pcb |-> NoProc]
    /\ UNCHANGED <<pcbs, colas, recursos, semaforos, consolas, plp, hilo_cpu, hilos_de_io,
                   enlace>>

PcpEsperaReady ==
    /\ pcp.pc = "espera_ready"
    /\ sem_ready_proceso > 0
    /\ sem_ready_proceso' = sem_ready_proceso - 1
    /\ pcp' = [pc |-> "elige", pcb |-> NoProc]
    /\ UNCHANGED <<pcbs, colas, recursos, sem_nuevo_proceso, sem_grado_multiprogramacion,
                   cpu_liberada, proceso_enviado, sem_exit_proceso, consolas, plp,
                   hilo_cpu, hilos_de_io, enlace>>

\* list_sort by response ratio, which the timers decide: any reordering.
Reordenamientos(cola) ==
    {[i \in 1..Len(cola) |-> cola[f[i]]] :
        f \in {g \in [1..Len(cola) -> 1..Len(cola)] :
                  \A i, j \in 1..Len(cola) : g[i] = g[j] => i = j}}

\* Both algorithms end in a peek of cola_ready; HRRN sorts it before.
PcpElige ==
    /\ pcp.pc = "elige"
    /\ cola_ready # <<>>
    /\ \/ ALGORITMO = "FIFO" /\ UNCHANGED cola_ready
       \/ ALGORITMO = "HRRN" /\ cola_ready' \in Reordenamientos(cola_ready)
    /\ pcp' = [pc |-> "despacha", pcb |-> Head(cola_ready')]
    /\ UNCHANGED <<pcbs, cola_new, cola_exec, cola_block, cola_exit, recursos, semaforos,
                   consolas, plp, hilo_cpu, hilos_de_io, enlace>>

PcpDespacha ==
    /\ pcp.pc = "despacha"
    /\ PasarAColaExec
    /\ pcp' = [pc |-> "ejecuta", pcb |-> pcp.pcb]
    /\ UNCHANGED <<programa, program_counter, motivo, destruidos, procesos_en_kernel,
                   recursos, semaforos, consolas, plp, hilo_cpu, hilos_de_io, enlace>>

PcpEjecuta ==
    /\ pcp.pc = "ejecuta"
    /\ EjecutarProceso(pcp.pcb)
    /\ pcp' = [pc |-> "espera_cpu", pcb |-> NoProc]
    /\ UNCHANGED <<pcbs, colas, recursos, sem_nuevo_proceso, sem_grado_multiprogramacion,
                   sem_ready_proceso, cpu_liberada, sem_exit_proceso, consolas, plp,
                   hilo_cpu, hilos_de_io, cpu, desde_cpu>>

PlanificadorCortoPlazo ==
    PcpEsperaCpu \/ PcpEsperaReady \/ PcpElige \/ PcpDespacha \/ PcpEjecuta

-----------------------------------------------------------------------------
(* The CPU process: correr_servidor and ciclo_de_instruccion               *)

CpuInactiva == [pid |-> NoProc, program_counter |-> 0]

CpuRecibe ==
    /\ cpu.pid = NoProc
    /\ hacia_cpu # <<>>
    /\ cpu' = Head(hacia_cpu)
    /\ hacia_cpu' = Tail(hacia_cpu)
    /\ UNCHANGED <<pcbs, colas, recursos, semaforos, hilos, desde_cpu>>

\* The instruction at the program counter.  Past the end of the program list_get
\* gives NULL and the CPU dies: no step is enabled.
HayInstruccion == cpu.pid # NoProc /\ cpu.program_counter < Len(programa[cpu.pid])
InstruccionActual == programa[cpu.pid][cpu.program_counter + 1]

\* SET and a MOV inside its segment: the cycle goes on.
CpuSigue ==
    /\ HayInstruccion
    /\ InstruccionActual.codigo \in {"SET", "MOV"}
    /\ cpu' = [pid |-> cpu.pid, program_counter |-> cpu.program_counter + 1]
    /\ UNCHANGED <<pcbs, colas, recursos, semaforos, hilos, hacia_cpu, desde_cpu>>

\* devolver_proceso: the context goes back with an operation code.
DevolverProceso(codigo) ==
    /\ desde_cpu' = Append(desde_cpu, [pid |-> cpu.pid,
                                       program_counter |-> cpu.program_counter + 1,
                                       cod_op |-> codigo,
                                       nombre |-> InstruccionActual.nombre])
    /\ cpu' = CpuInactiva
    /\ UNCHANGED <<pcbs, colas, recursos, semaforos, hilos, hacia_cpu>>

\* The operation code each instruction gives the process back with.  A MOV whose
\* address is out of its segment gives it back with a segmentation fault.
CodigoDeDevolucion(codigo) ==
    CASE codigo = "EXIT" -> "FINALIZADO"
      [] codigo = "IO"   -> "BLOQUEADO"
      [] codigo = "MOV"  -> "SEG_FAULT"
      [] OTHER           -> codigo

CpuDevuelve ==
    /\ HayInstruccion
    /\ InstruccionActual.codigo # "SET"
    /\ DevolverProceso(CodigoDeDevolucion(InstruccionActual.codigo))

Cpu == CpuRecibe \/ CpuSigue \/ CpuDevuelve

-----------------------------------------------------------------------------
(* The thread that handles the answers of the CPU: manejar_respuesta_cpu   *)

HiloCpuEn(pc, p) == [pc |-> pc, pcb |-> p, cod_op |-> "NINGUNO", nombre |-> ""]

\* It is the head of cola_exec that the answer will be applied to.
HiloCpuEspera ==
    /\ hilo_cpu.pc = "espera"
    /\ proceso_enviado > 0
    /\ cola_exec # <<>>
    /\ proceso_enviado' = proceso_enviado - 1
    /\ hilo_cpu' = HiloCpuEn("recibe", Head(cola_exec))
    /\ UNCHANGED <<pcbs, colas, recursos, sem_nuevo_proceso, sem_grado_multiprogramacion,
                   sem_ready_proceso, cpu_liberada, sem_exit_proceso, consolas, plp, pcp,
                   hilos_de_io, enlace>>

HiloCpuRecibe ==
    /\ hilo_cpu.pc = "recibe"
    /\ desde_cpu # <<>>
    /\ desde_cpu' = Tail(desde_cpu)
    /\ program_counter' = [program_counter EXCEPT
                             ![hilo_cpu.pcb] = Head(desde_cpu).program_counter]
    /\ hilo_cpu' = [pc |-> "procesa", pcb |-> hilo_cpu.pcb,
                    cod_op |-> Head(desde_cpu).cod_op, nombre |-> Head(desde_cpu).nombre]
    /\ UNCHANGED <<programa, estado_actual, motivo, destruidos, procesos_en_kernel, colas,
                   recursos, semaforos, consolas, plp, pcp, hilos_de_io, hacia_cpu, cpu>>

\* What the cases of procesar_contexto have in common: the code they are for,
\* where they go on, and what none of them touches.
Procesa(codigo, siguiente) ==
    /\ hilo_cpu.pc = "procesa"
    /\ hilo_cpu.cod_op = codigo
    /\ hilo_cpu' = HiloCpuEn(siguiente, hilo_cpu.pcb)
    /\ UNCHANGED <<programa, program_counter, destruidos, procesos_en_kernel,
                   sem_nuevo_proceso, sem_grado_multiprogramacion, cpu_liberada,
                   proceso_enviado, consolas, plp, pcp, enlace>>

ProcesarYield ==
    /\ Procesa("YIELD", "libera")
    /\ PasarAColaReady(hilo_cpu.pcb)
    /\ UNCHANGED <<motivo, recursos, sem_exit_proceso, hilos_de_io>>

\* solicitar_eliminar_tabla_de_segmento, then the move to cola_exit.
TerminarProceso(causa) ==
    /\ PasarAColaExit(hilo_cpu.pcb, causa)
    /\ UNCHANGED <<recursos, sem_ready_proceso, hilos_de_io>>

ProcesarFinalizado == Procesa("FINALIZADO", "libera") /\ TerminarProceso("SUCCESS")
ProcesarSegFault   == Procesa("SEG_FAULT", "libera") /\ TerminarProceso("SEG_FAULT")

ProcesarBloqueado ==
    /\ Procesa("BLOQUEADO", "libera")
    /\ PasarAColaBlocked(hilo_cpu.pcb)
    /\ hilos_io' = hilos_io \cup {hilo_cpu.pcb}
    /\ UNCHANGED <<motivo, instancias, sem_ready_proceso, sem_exit_proceso, insertando, indice>>

\* Mutant: the case forgets to post cpu_liberada.
MutProcesarRecursoInexistente ==
    /\ hilo_cpu.nombre \notin Recurso
    /\ \/ Procesa("WAIT", "espera")
       \/ Procesa("SIGNAL", "espera")
    /\ TerminarProceso("RESOURCE_NOT_FOUND")

\* buscar_recurso fails: the process ends, in WAIT as in SIGNAL.
ProcesarRecursoInexistente ==
    /\ hilo_cpu.nombre \notin Recurso
    /\ \/ Procesa("WAIT", "libera")
       \/ Procesa("SIGNAL", "libera")
    /\ TerminarProceso("RESOURCE_NOT_FOUND")

\* Mutant: the last instance already makes the process wait.
MutProcesarWaitSinInstancias ==
    LET r == hilo_cpu.nombre IN
    /\ Procesa("WAIT", "libera")
    /\ r \in Recurso
    /\ instancias[r] - 1 <= 0
    /\ instancias' = [instancias EXCEPT ![r] = @ - 1]
    /\ PasarAColaBloqueadosDe(hilo_cpu.pcb, r)
    /\ UNCHANGED <<motivo, sem_ready_proceso, sem_exit_proceso, hilos_de_io>>

ProcesarWaitSinInstancias ==
    LET r == hilo_cpu.nombre IN
    /\ Procesa("WAIT", "libera")
    /\ r \in Recurso
    /\ instancias[r] - 1 < 0
    /\ instancias' = [instancias EXCEPT ![r] = @ - 1]
    /\ PasarAColaBloqueadosDe(hilo_cpu.pcb, r)
    /\ UNCHANGED <<motivo, sem_ready_proceso, sem_exit_proceso, hilos_de_io>>

ProcesarWaitConInstancias ==
    LET r == hilo_cpu.nombre IN
    /\ Procesa("WAIT", "ejecuta")
    /\ r \in Recurso
    /\ instancias[r] - 1 >= 0
    /\ instancias' = [instancias EXCEPT ![r] = @ - 1]
    /\ UNCHANGED <<estado_actual, motivo, colas, cola_bloqueados, sem_ready_proceso,
                   sem_exit_proceso, hilos_de_io>>

ProcesarSignalConEspera ==
    LET r == hilo_cpu.nombre IN
    /\ Procesa("SIGNAL", "ejecuta")
    /\ r \in Recurso
    /\ instancias[r] + 1 <= 0
    /\ cola_bloqueados[r] # <<>>
    /\ instancias' = [instancias EXCEPT ![r] = @ + 1]
    /\ cola_bloqueados' = [cola_bloqueados EXCEPT ![r] = Tail(@)]
    /\ PasarAReadySegunAlgoritmo(Head(cola_bloqueados[r]))
    /\ UNCHANGED <<motivo, sem_exit_proceso, hilos_de_io>>

ProcesarSignalSinEspera ==
    LET r == hilo_cpu.nombre IN
    /\ Procesa("SIGNAL", "ejecuta")
    /\ r \in Recurso
    /\ instancias[r] + 1 > 0
    /\ instancias' = [instancias EXCEPT ![r] = @ + 1]
    /\ UNCHANGED <<estado_actual, motivo, colas, cola_bloqueados, sem_ready_proceso,
                   sem_exit_proceso, hilos_de_io>>

ProcesarDeleteSegment ==
    /\ Procesa("DELETE_SEGMENT", "ejecuta")
    /\ UNCHANGED <<estado_actual, motivo, colas, recursos, sem_ready_proceso,
                   sem_exit_proceso, hilos_de_io>>

ProcesarContexto ==
    \/ ProcesarYield
    \/ ProcesarFinalizado
    \/ ProcesarSegFault
    \/ ProcesarBloqueado
    \/ ProcesarRecursoInexistente
    \/ ProcesarWaitSinInstancias
    \/ ProcesarWaitConInstancias
    \/ ProcesarSignalConEspera
    \/ ProcesarSignalSinEspera
    \/ ProcesarDeleteSegment

\* The sem_post(&cpu_liberada) that ends most cases.
HiloCpuLibera ==
    /\ hilo_cpu.pc = "libera"
    /\ cpu_liberada' = cpu_liberada + 1
    /\ hilo_cpu' = HiloCpuEn("espera", NoProc)
    /\ UNCHANGED <<pcbs, colas, recursos, sem_nuevo_proceso, sem_grado_multiprogramacion,
                   sem_ready_proceso, proceso_enviado, sem_exit_proceso, consolas, plp,
                   pcp, hilos_de_io, enlace>>

\* The ejecutar_proceso that ends the others: the process keeps the CPU.
HiloCpuEjecuta ==
    /\ hilo_cpu.pc = "ejecuta"
    /\ EjecutarProceso(hilo_cpu.pcb)
    /\ hilo_cpu' = HiloCpuEn("espera", NoProc)
    /\ UNCHANGED <<pcbs, colas, recursos, sem_nuevo_proceso, sem_grado_multiprogramacion,
                   sem_ready_proceso, cpu_liberada, sem_exit_proceso, consolas, plp, pcp,
                   hilos_de_io, cpu, desde_cpu>>

ManejarRespuestaCpu ==
    HiloCpuEspera \/ HiloCpuRecibe \/ ProcesarContexto \/ HiloCpuLibera \/ HiloCpuEjecuta

\* bloqueo_io: the detached thread wakes up and makes its process ready.
BloqueoIO(p) ==
    /\ p \in hilos_io
    /\ ALGORITMO # "HRRN"
    /\ PasarAColaReady(p)
    /\ hilos_io' = hilos_io \ {p}
    /\ UNCHANGED <<programa, program_counter, motivo, destruidos, procesos_en_kernel, recursos,
                   sem_nuevo_proceso, sem_grado_multiprogramacion, cpu_liberada,
                   proceso_enviado, sem_exit_proceso, consolas, plp, pcp, hilo_cpu, insertando,
                   indice, enlace>>

\* Under HRRN it looks for its place in cola_ready first, without the mutex, and
\* inserts after: meanwhile the others push and pop.  -1 is the end of the queue.
Indices(cola) == -1..(Len(cola) - 1)

BloqueoIOCalcula(p) ==
    /\ p \in hilos_io
    /\ ALGORITMO = "HRRN"
    /\ QuitarDeColaActual(p)
    /\ estado_actual' = [estado_actual EXCEPT ![p] = "READY"]
    /\ \E i \in Indices(cola_ready) : indice' = [indice EXCEPT ![p] = i]
    /\ hilos_io' = hilos_io \ {p}
    /\ insertando' = insertando \cup {p}
    /\ UNCHANGED <<programa, program_counter, motivo, destruidos, procesos_en_kernel,
                   cola_ready, cola_exit, recursos, semaforos, consolas, plp, pcp, hilo_cpu,
                   enlace>>

\* list_add_in_index: an index past the end of the list adds nothing.
AgregarEn(cola, i, p) ==
    IF i > Len(cola) THEN cola
                     ELSE SubSeq(cola, 1, i) \o <<p>> \o SubSeq(cola, i + 1, Len(cola))

BloqueoIOInserta(p) ==
    /\ p \in insertando
    /\ cola_ready' = IF indice[p] = -1 THEN Insertar(cola_ready, p)
                                       ELSE AgregarEn(cola_ready, indice[p], p)
    /\ sem_ready_proceso' = sem_ready_proceso + 1
    /\ insertando' = insertando \ {p}
    /\ indice' = [indice EXCEPT ![p] = -1]
    /\ UNCHANGED <<pcbs, cola_new, cola_exec, cola_block, cola_exit, recursos,
                   sem_nuevo_proceso, sem_grado_multiprogramacion, cpu_liberada,
                   proceso_enviado, sem_exit_proceso, consolas, plp, pcp, hilo_cpu, hilos_io,
                   enlace>>

HiloDeIO(p) == BloqueoIO(p) \/ BloqueoIOCalcula(p) \/ BloqueoIOInserta(p)

-----------------------------------------------------------------------------
(* The specification                                                       *)

Init ==
    /\ programa = [p \in Proc |-> <<>>]
    /\ program_counter = [p \in Proc |-> 0]
    /\ estado_actual = [p \in Proc |-> "NEW"]
    /\ motivo = [p \in Proc |-> "NOT_DEFINED"]
    /\ destruidos = {}
    /\ procesos_en_kernel = {}
    /\ cola_new = <<>>
    /\ cola_ready = <<>>
    /\ cola_exec = <<>>
    /\ cola_block = [p \in Proc |-> 0]
    /\ cola_exit = <<>>
    /\ instancias = Instancias
    /\ cola_bloqueados = [r \in Recurso |-> <<>>]
    /\ sem_nuevo_proceso = 0
    /\ sem_grado_multiprogramacion = GRADO_MAX
    /\ sem_ready_proceso = 0
    /\ cpu_liberada = 1
    /\ proceso_enviado = 0
    /\ sem_exit_proceso = [p \in Proc |-> 0]
    /\ consola = [p \in Proc |-> "inicio"]
    /\ retirado = [p \in Proc |-> NoProc]
    /\ respuesta = [p \in Proc |-> "ninguna"]
    /\ plp = [pc |-> "espera_nuevo", pcb |-> NoProc]
    /\ pcp = [pc |-> "espera_cpu", pcb |-> NoProc]
    /\ hilo_cpu = HiloCpuEn("espera", NoProc)
    /\ hilos_io = {}
    /\ insertando = {}
    /\ indice = [p \in Proc |-> -1]
    /\ hacia_cpu = <<>>
    /\ cpu = CpuInactiva
    /\ desde_cpu = <<>>

Next == \/ \E p \in Proc : Consola(p) \/ HiloDeIO(p)
        \/ PlanificadorLargoPlazo
        \/ PlanificadorCortoPlazo
        \/ ManejarRespuestaCpu
        \/ Cpu

Spec == Init /\ [][Next]_vars

\* Every thread of the kernel is a pthread the system schedules, the CPU process
\* runs on its own, and a sleep ends.  A console is free never to connect.
Fairness ==
    /\ \A p \in Proc : /\ WF_vars(ConsolaRegistra(p))
                        /\ WF_vars(ConsolaEspera(p))
                        /\ WF_vars(ConsolaRetira(p))
                        /\ WF_vars(ConsolaResponde(p))
                        /\ WF_vars(ConsolaDestruye(p))
                        /\ WF_vars(HiloDeIO(p))
    /\ WF_vars(PlanificadorLargoPlazo)
    /\ WF_vars(PlanificadorCortoPlazo)
    /\ WF_vars(ManejarRespuestaCpu)
    /\ WF_vars(Cpu)

FairSpec == Spec /\ Fairness

-----------------------------------------------------------------------------
(* Properties                                                              *)

Uno(b) == IF b THEN 1 ELSE 0
Veces(cola, p) == Cardinality({i \in DOMAIN cola : cola[i] = p})

\* The contexts on their way to the CPU, in it, or on their way back.
EnVuelo == Len(hacia_cpu) + Uno(cpu.pid # NoProc) + Len(desde_cpu)

\* The CPU is handed to one process at a time, through cpu_liberada: whatever the
\* threads interleave, there is at most one pcb in cola_exec, at most one context
\* out of the kernel, and while there is one its pcb is in cola_exec and nobody
\* has posted cpu_liberada (planificador_corto.c:14, i_cpu.c:44-138).
UnSoloProcesoEnCpu ==
    /\ Len(cola_exec) <= 1
    /\ EnVuelo <= 1
    /\ EnVuelo = 1 => Len(cola_exec) = 1 /\ cpu_liberada = 0

\* The context that is out of the kernel is the one of the process in cola_exec,
\* the one the answer will be applied to (i_cpu.c:16-19), and it is as advanced
\* as its pcb says.
ContextoDelEjecutado ==
    /\ \A i \in 1..Len(hacia_cpu) :
          /\ cola_exec = <<hacia_cpu[i].pid>>
          /\ hacia_cpu[i].program_counter = program_counter[hacia_cpu[i].pid]
    /\ cpu.pid # NoProc => cola_exec = <<cpu.pid>>
    /\ \A i \in 1..Len(desde_cpu) : cola_exec = <<desde_cpu[i].pid>>

\* "Quita el PCB de La cola Actual, y lo pasa a la cola de READY"
\* (planificador_utils.h:111): a process that became ready, and whose thread is done
\* with it, is in cola_ready.
NadieSePierde ==
    \A p \in Proc :
        estado_actual[p] = "READY" /\ p \notin insertando => Veces(cola_ready, p) = 1

\* No wake-up of the short-term scheduler is lost: each pcb in cola_ready has a post
\* of sem_ready_proceso, or is the one the PCP is serving.
SinDespertarPerdido ==
    Len(cola_ready) <= sem_ready_proceso + Uno(pcp.pc \in {"elige", "despacha"})

\* A resource has processes waiting exactly when its counter is negative, and as
\* many as the counter says: nobody waits while an instance is free, and the pop
\* of SIGNAL finds somebody (i_cpu.c:170, 199).
EsperasContadas ==
    \A r \in Recurso :
        Len(cola_bloqueados[r]) = IF instancias[r] < 0 THEN -instancias[r] ELSE 0

\* No thread takes the head of a queue that another one has emptied: the code
\* never checks what squeue_peek and squeue_pop return.
NadieSacaDeColaVacia ==
    /\ plp.pc \in {"admite", "pasa_a_ready"} => cola_new # <<>>
    /\ pcp.pc \in {"elige", "despacha"} => cola_ready # <<>>
    /\ hilo_cpu.pc = "espera" /\ proceso_enviado > 0 => cola_exec # <<>>
    /\ Cardinality({p \in Proc : consola[p] = "retira"}) <= Len(cola_exit)

\* A process never goes back in its program: the counter an answer of the CPU
\* stores in a pcb (i_cpu.c:27) is the next one of that same process.
ProgramaAvanza ==
    [][\A p \in Proc : program_counter'[p] >= program_counter[p]]_vars

\* A process exists once its console created it; a place is free again once a
\* console gave it back.
Ciclo == INSTANCE CicloDeVida WITH
    estado <- [p \in Proc |-> IF consola[p] = "inicio" THEN "SIN_CREAR"
                                                      ELSE estado_actual[p]],
    lugares <- Cardinality({p \in Proc : consola[p] \in {"responde", "destruye", "fin"}})

\* The scheduler implements the life cycle: the process that changes state is
\* the only one, the change is one of the five-state diagram, EXEC is exclusive,
\* and the degree counts finished processes until a console gives the place back.
CicloDeVidaRespetado == Ciclo!SpecCiclo

\* Whatever the programs do, the only thing that can keep a console waiting for
\* ever is a resource nobody signals: its process ends, or stays blocked on one,
\* or is never admitted because as many as the degree allows stay blocked.
SoloEsperaPorRecursos ==
    <>[](\A p \in Proc :
            \/ consola[p] \in {"inicio", "fin"}
            \/ estado_actual[p] = "BLOCK_RECURSO"
            \/ /\ estado_actual[p] = "NEW"
               /\ Cardinality({q \in Proc : estado_actual[q] = "BLOCK_RECURSO"}) = GRADO_MAX)

\* What the console prints: "Programa ha finalizado correctamente" (consola.c:43)
\* is about the program this console submitted.
FinalizadoCorrectamente ==
    \A p \in Proc : respuesta[p] = "SUCCESS" => motivo[p] = "SUCCESS"

-----------------------------------------------------------------------------
(* The inductive invariant behind UnSoloProcesoEnCpu                       *)

\* The right to use the CPU is in one place: free, with the PCP that is choosing,
\* with the pcb in cola_exec, or with the thread about to free it.
TestigoDeCpu ==
    cpu_liberada + Uno(pcp.pc \in {"espera_ready", "elige", "despacha"})
        + Uno(hilo_cpu.pc = "libera") + Len(cola_exec) = 1

\* While a pcb is in cola_exec its context is in one place too.
ContextoEnUnLugar ==
    Uno(pcp.pc = "ejecuta") + EnVuelo + Uno(hilo_cpu.pc \in {"procesa", "ejecuta"})
        = Len(cola_exec)

\* proceso_enviado announces each context out of the kernel exactly once.
UnAvisoPorContexto == proceso_enviado + Uno(hilo_cpu.pc = "recibe") = EnVuelo

\* The pcb each thread keeps in a local variable is the one the queues hold.
PcbsTomados ==
    /\ hilo_cpu.pc \in {"recibe", "procesa", "ejecuta"} => cola_exec = <<hilo_cpu.pcb>>
    /\ plp.pc = "pasa_a_ready" => cola_new # <<>> /\ plp.pcb = Head(cola_new)
    /\ pcp.pc \in {"despacha", "ejecuta"} => pcp.pcb \in Proc

SinRepetir(cola) == \A i, j \in 1..Len(cola) : cola[i] = cola[j] => i = j
TodosEn(cola, e) == \A i \in 1..Len(cola) : estado_actual[cola[i]] = e

\* Each queue holds pcbs of its own state, without repetition.
ColaNewPura == SinRepetir(cola_new) /\ TodosEn(cola_new, "NEW")

\* A process between the two halves of its insertion is ready and not in the queue;
\* only HRRN has them.
InsertandoFueraDeReady ==
    /\ ALGORITMO = "FIFO" => insertando = {}
    /\ \A p \in insertando : /\ estado_actual[p] = "READY"
                             /\ \A i \in 1..Len(cola_ready) : cola_ready[i] # p
ColaReadyPura ==
    SinRepetir(cola_ready) /\ TodosEn(cola_ready, "READY") /\ InsertandoFueraDeReady
ColaExecPura == TodosEn(cola_exec, "EXEC")
ColasDeRecursosPuras ==
    /\ \A r \in Recurso : SinRepetir(cola_bloqueados[r])
                            /\ TodosEn(cola_bloqueados[r], "BLOCK_RECURSO")
    /\ \A r1, r2 \in Recurso :
          \A i \in 1..Len(cola_bloqueados[r1]), j \in 1..Len(cola_bloqueados[r2]) :
              cola_bloqueados[r1][i] = cola_bloqueados[r2][j] => r1 = r2
DurmientesBloqueados == \A p \in hilos_io : estado_actual[p] = "BLOCK"
SinCrearFueraDeColas ==
    \A p \in Proc : consola[p] = "inicio" =>
        estado_actual[p] = "NEW" /\ \A i \in 1..Len(cola_new) : cola_new[i] # p

ColasPorEstado ==
    /\ ColaNewPura
    /\ ColaReadyPura
    /\ ColaExecPura
    /\ ColasDeRecursosPuras
    /\ DurmientesBloqueados
    /\ SinCrearFueraDeColas

\* Without the insertion in two steps no wake-up is invented either: the PCP, once it
\* has taken one, finds somebody in cola_ready.
SinDespertarInventado ==
    ALGORITMO = "FIFO" =>
        Len(cola_ready) >= sem_ready_proceso + Uno(pcp.pc \in {"elige", "despacha"})
DespertaresContados == SinDespertarPerdido /\ SinDespertarInventado

\* The inductive invariant: the token of the CPU, the context it is for, the posts
\* of the semaphores and the queues agree after every step of every thread.
IInv ==
    /\ TypeOK
    /\ TestigoDeCpu
    /\ ContextoEnUnLugar
    /\ UnAvisoPorContexto
    /\ PcbsTomados
    /\ ColasPorEstado
    /\ DespertaresContados
    /\ EsperasContadas

=============================================================================

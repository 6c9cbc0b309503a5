-------------------------- MODULE ArchivosAbiertos --------------------------
(***************************************************************************)
(* The open-file table of the Kernel: the thread that handles the answers  *)
(* of the CPU, which opens, closes and seeks files and queues requests;    *)
(* the thread of the file system, which sends them to the FileSystem one   *)
(* at a time and wakes the process up; and the mutex puede_compactar, which*)
(* the first thread takes for an F_READ or an F_WRITE and the second one   *)
(* releases, and which a compaction of Memoria needs.                      *)
(*                                                                         *)
(* Granularity.  As in Planificador.  The admission of a process, its      *)
(* dispatch and its stay in the CPU are one step each, and the semaphores  *)
(* of that path but cpu_liberada are left to Planificador.  What is split  *)
(* on purpose: pasar_a_cola_blocked after the request has been posted,     *)
(* pasar_a_cola_ready when the thread of the file system calls it, the wait*)
(* for f_open_done, and every post of cpu_liberada.                        *)
(*                                                                         *)
(* Variable danio.  Three things end a behaviour of the model: an entry    *)
(* that is not there and a pcb popped from an empty queue, both of them a  *)
(* NULL the Kernel dereferences, and a pcb popped in place of another one, *)
(* after which the Kernel lives on with one process in two places and      *)
(* another in none.  What follows the third is not modelled.               *)
(*                                                                         *)
(* Left out: the fields cant_aperturas, file_id and tabla_archivos_abiertos*)
(* (written and never read), and the accesses of the two threads to the    *)
(* list of open files and to that of cola_block at the same time, which no *)
(* mutex protects.                                                         *)
(***************************************************************************)
EXTENDS Integers, Sequences, FiniteSets, SequencesExt

CONSTANTS
    Proc,        \* the processes
    NoProc,      \* the null pcb
    Archivo,     \* the names of files
    NoArchivo,   \* the argument of the instructions that have none
    Existentes,  \* the files the FileSystem has at start-up
    Programas    \* the programs a process may run

\* The instructions that give the process back and that files depend on.
DeArchivo == {"F_OPEN", "F_CLOSE", "F_SEEK", "F_READ", "F_WRITE", "F_TRUNCATE"}
Accesos == {"F_READ", "F_WRITE"}
SinArchivo == {"CREATE_SEGMENT", "YIELD", "EXIT"}
Instruccion == [codigo : DeArchivo, archivo : Archivo]
               \cup [codigo : SinArchivo, archivo : {NoArchivo}]

\* Before its line k, a program has done such an instruction on f, and no F_CLOSE of
\* f after it.
Vigente(prg, k, codigo, f) ==
    \E i \in 1..(k - 1) :
        /\ prg[i] = [codigo |-> codigo, archivo |-> f]
        /\ \A j \in (i + 1)..(k - 1) : prg[j] # [codigo |-> "F_CLOSE", archivo |-> f]

\* The programs of consola/: they open a file before they use it, and not twice.
Ordenado(prg) ==
    \A k \in 1..Len(prg) :
        prg[k].codigo \in DeArchivo =>
            (Vigente(prg, k, "F_OPEN", prg[k].archivo) <=> prg[k].codigo # "F_OPEN")

ASSUME ConstantesAssumption ==
    /\ NoProc \notin Proc
    /\ NoArchivo \notin Archivo
    /\ Existentes \subseteq Archivo
    /\ Programas \subseteq Seq(Instruccion)

ASSUME ProgramasAssumption == \A prg \in Programas : Ordenado(prg)

VARIABLES
    programa, program_counter, estado_actual,
    cola_ready, cola_exec,
    cola_block,          \* how many times each pcb is in it: nobody reads its order
    cpu_liberada, en_cpu, hilo_cpu,
    cola_archivos, request_file_system, f_open_done,
    archivos_abiertos,   \* the list of entries, by name
    cola_bloqueados,     \* of the entry of each file
    puntero,             \* of the entry: who moved it last, NoProc if it is still 0
    puede_compactar,     \* TRUE when the mutex is free
    hilo_fs,             \* with the state of the pcb as pasar_a_cola_ready read it
    pedido, respuesta,
    existentes,          \* the files the FileSystem has
    danio                \* what went wrong first: then the model takes no other step

procesos == <<programa, program_counter, estado_actual>>
colas    == <<cola_ready, cola_exec, cola_block>>
tabla    == <<archivos_abiertos, cola_bloqueados, puntero>>
cola_fs  == <<cola_archivos, request_file_system, f_open_done>>
servidor == <<pedido, respuesta, existentes>>
vars == <<procesos, colas, cpu_liberada, en_cpu, hilo_cpu, cola_fs, tabla,
          puede_compactar, hilo_fs, servidor, danio>>

ProcONull == Proc \cup {NoProc}
SinPedido == [codigo |-> "NINGUNO", archivo |-> NoArchivo, pid |-> NoProc, puntero |-> NoProc]
Respuestas == {"NINGUNA", "F_NOT_EXISTS", "F_OP_OK", "F_OPEN_OK",
               "F_TRUNCATE_OK", "F_READ_OK", "F_WRITE_OK"}

TipoArchivos ==
    /\ programa \in [Proc -> Seq(Instruccion)]
    /\ program_counter \in [Proc -> Nat]
    /\ estado_actual \in [Proc -> {"NEW", "READY", "EXEC", "BLOCK", "EXIT"}]
    /\ {cola_ready, cola_exec, cola_archivos} \subseteq Seq(Proc)
    /\ cola_block \in [Proc -> Nat]
    /\ {cpu_liberada, request_file_system, f_open_done} \subseteq Nat
    /\ en_cpu \in ProcONull
    /\ hilo_cpu \in [pc : {"espera", "procesa", "espera_apertura", "saca", "marca", "apila",
                           "pide_compactar", "compacta", "libera"}, pcb : ProcONull]
    /\ archivos_abiertos \in Seq(Archivo)
    /\ cola_bloqueados \in [Archivo -> Seq(Proc)]
    /\ puntero \in [Archivo -> ProcONull]
    /\ puede_compactar \in BOOLEAN
    /\ danio \in {"ninguno", "entrada_nula", "pcb_nulo", "pcb_ajeno"}
    /\ hilo_fs \in [pc : {"espera", "recibe", "recibe_creacion", "despierta", "apila"},
                    pcb : ProcONull, visto : {"NADA", "EXEC", "BLOCK"}]
    /\ pedido \in {SinPedido} \cup [codigo : DeArchivo \cup {"F_CREATE"}, archivo : Archivo,
                                    pid : Proc, puntero : ProcONull]
    /\ respuesta \in Respuestas
    /\ existentes \subseteq Archivo

Abierto(f) == f \in Range(archivos_abiertos)

\* The instruction a process has just given the CPU back for: the CPU always
\* advances the counter.
InstruccionDe(p) == programa[p][program_counter[p]]
ArchivoDe(p) == InstruccionDe(p).archivo

-----------------------------------------------------------------------------
(* The moves between queues                                                *)

\* list_remove_element of cola_block, which may not have the pcb.
QuitarDeBlock(p) ==
    cola_block' = [cola_block EXCEPT ![p] = IF @ > 0 THEN @ - 1 ELSE 0]

\* The end of pasar_a_cola_ready.
ApilarEnReady(p) ==
    /\ estado_actual' = [estado_actual EXCEPT ![p] = "READY"]
    /\ cola_ready' = Append(cola_ready, p)

\* pasar_a_cola_ready in the thread that handles the answers of the CPU, of a process
\* no other thread moves: the one in the CPU, or one that waits for a file.  It takes
\* the pcb out of the queue its state names, in one step.
PasarAColaReady(p) ==
    \/ /\ estado_actual[p] = "EXEC" /\ cola_exec = <<>>
       /\ danio' = "pcb_nulo"
       /\ UNCHANGED <<estado_actual, colas>>
    \/ /\ estado_actual[p] = "EXEC" /\ cola_exec # <<>>
       /\ cola_exec' = Tail(cola_exec)
       /\ ApilarEnReady(Head(cola_exec))
       /\ UNCHANGED <<cola_block, danio>>
    \/ /\ estado_actual[p] # "EXEC"
       /\ IF estado_actual[p] = "BLOCK" THEN QuitarDeBlock(p) ELSE UNCHANGED cola_block
       /\ ApilarEnReady(p)
       /\ UNCHANGED <<cola_exec, danio>>

\* squeue_pop(cola_exec) with its result dropped.
DescartarExec == IF cola_exec = <<>> THEN <<>> ELSE Tail(cola_exec)

\* pasar_a_cola_blocked when nobody else knows of the process: in one step.
PasarAColaBlocked(p) ==
    /\ cola_exec' = DescartarExec
    /\ estado_actual' = [estado_actual EXCEPT ![p] = "BLOCK"]
    /\ cola_block' = [cola_block EXCEPT ![p] = @ + 1]
    /\ UNCHANGED cola_ready

-----------------------------------------------------------------------------
(* The schedulers and the CPU                                              *)

\* A process is admitted to cola_ready.
Admite(p) ==
    /\ danio = "ninguno"
    /\ estado_actual[p] = "NEW"
    /\ estado_actual' = [estado_actual EXCEPT ![p] = "READY"]
    /\ cola_ready' = Append(cola_ready, p)
    /\ UNCHANGED <<programa, program_counter, cola_exec, cola_block, cpu_liberada, en_cpu,
                   hilo_cpu, cola_fs, tabla, puede_compactar, hilo_fs, servidor, danio>>

\* The short-term scheduler, FIFO.
Despacha ==
    /\ danio = "ninguno"
    /\ cpu_liberada > 0
    /\ cola_ready # <<>>
    /\ cpu_liberada' = cpu_liberada - 1
    /\ cola_ready' = Tail(cola_ready)
    /\ cola_exec' = Append(cola_exec, Head(cola_ready))
    /\ estado_actual' = [estado_actual EXCEPT ![Head(cola_ready)] = "EXEC"]
    /\ en_cpu' = Head(cola_ready)
    /\ UNCHANGED <<programa, program_counter, cola_block, hilo_cpu, cola_fs, tabla,
                   puede_compactar, hilo_fs, servidor, danio>>

\* The CPU gives the process back for its next instruction; the thread applies
\* the answer to the head of cola_exec.
CpuDevuelve ==
    /\ danio = "ninguno"
    /\ en_cpu # NoProc
    /\ hilo_cpu.pc = "espera"
    /\ cola_exec # <<>>
    /\ program_counter[en_cpu] < Len(programa[en_cpu])
    /\ program_counter' = [program_counter EXCEPT ![en_cpu] = @ + 1]
    /\ en_cpu' = NoProc
    /\ hilo_cpu' = [pc |-> "procesa", pcb |-> Head(cola_exec)]
    /\ UNCHANGED <<programa, estado_actual, colas, cpu_liberada, cola_fs, tabla,
                   puede_compactar, hilo_fs, servidor, danio>>

-----------------------------------------------------------------------------
(* The thread that handles the answers of the CPU                          *)

\* What the cases of procesar_contexto have in common.
Procesa(codigos, siguiente) ==
    /\ danio = "ninguno"
    /\ hilo_cpu.pc = "procesa"
    /\ InstruccionDe(hilo_cpu.pcb).codigo \in codigos
    /\ hilo_cpu' = [hilo_cpu EXCEPT !.pc = siguiente]
    /\ UNCHANGED <<programa, program_counter, cpu_liberada, hilo_fs, servidor>>

\* A request for the thread of the file system.
EncolarPedido(p) ==
    /\ cola_archivos' = Append(cola_archivos, p)
    /\ request_file_system' = request_file_system + 1
    /\ UNCHANGED f_open_done

\* ejecutar_f_open of a file nobody has: ask for it and wait.
EjecutarFOpenCerrado ==
    /\ Procesa({"F_OPEN"}, "espera_apertura")
    /\ ~Abierto(ArchivoDe(hilo_cpu.pcb))
    /\ EncolarPedido(hilo_cpu.pcb)
    /\ UNCHANGED <<estado_actual, colas, en_cpu, tabla, puede_compactar, danio>>

\* Mutant: the thread does not wait for the post.
MutHiloCpuAbierto ==
    /\ danio = "ninguno"
    /\ hilo_cpu.pc = "espera_apertura"
    /\ f_open_done' = f_open_done - 1
    /\ en_cpu' = hilo_cpu.pcb
    /\ hilo_cpu' = [hilo_cpu EXCEPT !.pc = "espera"]
    /\ UNCHANGED <<procesos, colas, cpu_liberada, cola_archivos, request_file_system, tabla,
                   puede_compactar, hilo_fs, servidor, danio>>

\* The file is open: the process keeps the CPU.
HiloCpuAbierto ==
    /\ danio = "ninguno"
    /\ hilo_cpu.pc = "espera_apertura"
    /\ f_open_done > 0
    /\ f_open_done' = f_open_done - 1
    /\ en_cpu' = hilo_cpu.pcb
    /\ hilo_cpu' = [hilo_cpu EXCEPT !.pc = "espera"]
    /\ UNCHANGED <<procesos, colas, cpu_liberada, cola_archivos, request_file_system, tabla,
                   puede_compactar, hilo_fs, servidor, danio>>

\* Mutant: the process is queued on the file without going to BLOCK.
MutEjecutarFOpenAbierto ==
    LET p == hilo_cpu.pcb  f == ArchivoDe(p) IN
    /\ Procesa({"F_OPEN"}, "libera")
    /\ Abierto(f)
    /\ cola_exec' = DescartarExec
    /\ cola_bloqueados' = [cola_bloqueados EXCEPT ![f] = Append(@, p)]
    /\ UNCHANGED <<estado_actual, cola_ready, cola_block, en_cpu, cola_fs, archivos_abiertos,
                   puntero, puede_compactar, danio>>

\* ejecutar_f_open of a file somebody has: wait for it in BLOCK.
EjecutarFOpenAbierto ==
    LET p == hilo_cpu.pcb  f == ArchivoDe(p) IN
    /\ Procesa({"F_OPEN"}, "libera")
    /\ Abierto(f)
    /\ PasarAColaBlocked(p)
    /\ cola_bloqueados' = [cola_bloqueados EXCEPT ![f] = Append(@, p)]
    /\ UNCHANGED <<en_cpu, cola_fs, archivos_abiertos, puntero, puede_compactar, danio>>

\* Mutant: the entry is removed although others wait for the file.
MutEjecutarFClose ==
    LET p == hilo_cpu.pcb  f == ArchivoDe(p) IN
    /\ Procesa({"F_CLOSE"}, "espera")
    /\ en_cpu' = p
    /\ archivos_abiertos' = RemoveFirst(archivos_abiertos, f)
    /\ UNCHANGED <<estado_actual, colas, cola_fs, cola_bloqueados, puntero, puede_compactar,
                   danio>>

\* ejecutar_f_close: nobody waits and the entry goes, or the first who waits gets
\* the file, with the entry as it is.
EjecutarFClose ==
    LET p == hilo_cpu.pcb  f == ArchivoDe(p) IN
    /\ Procesa({"F_CLOSE"}, "espera")
    /\ en_cpu' = p
    /\ \/ /\ ~Abierto(f)
          /\ UNCHANGED <<estado_actual, colas, archivos_abiertos, cola_bloqueados, danio>>
       \/ /\ Abierto(f)
          /\ cola_bloqueados[f] = <<>>
          /\ archivos_abiertos' = RemoveFirst(archivos_abiertos, f)
          /\ UNCHANGED <<estado_actual, colas, cola_bloqueados, danio>>
       \/ /\ Abierto(f)
          /\ cola_bloqueados[f] # <<>>
          /\ cola_bloqueados' = [cola_bloqueados EXCEPT ![f] = Tail(@)]
          /\ LET q == Head(cola_bloqueados[f]) IN
             IF cola_block[q] > 0 THEN PasarAColaReady(q)
             ELSE danio' = "pcb_nulo" /\ UNCHANGED <<estado_actual, colas>>
          /\ UNCHANGED archivos_abiertos
    /\ UNCHANGED <<cola_fs, puntero, puede_compactar>>

\* Mutant: the pointer of the entry is not moved.
MutEjecutarFSeek ==
    /\ Procesa({"F_SEEK"}, "espera")
    /\ en_cpu' = hilo_cpu.pcb
    /\ UNCHANGED <<estado_actual, colas, cola_fs, tabla, puede_compactar, danio>>

EjecutarFSeek ==
    LET p == hilo_cpu.pcb  f == ArchivoDe(p) IN
    /\ Procesa({"F_SEEK"}, "espera")
    /\ en_cpu' = p
    /\ puntero' = IF Abierto(f) THEN [puntero EXCEPT ![f] = p] ELSE puntero
    /\ UNCHANGED <<estado_actual, colas, cola_fs, archivos_abiertos, cola_bloqueados,
                   puede_compactar, danio>>

\* F_READ and F_WRITE, with puede_compactar taken: the request goes out first, the
\* process is blocked after.  F_READ logs the pointer of the entry.
ProcesarAcceso ==
    LET p == hilo_cpu.pcb IN
    /\ puede_compactar
    /\ puede_compactar' = FALSE
    /\ Procesa(Accesos, "saca")
    /\ IF InstruccionDe(p).codigo = "F_READ" /\ ~Abierto(ArchivoDe(p))
       THEN danio' = "entrada_nula" /\ UNCHANGED cola_fs
       ELSE EncolarPedido(p) /\ UNCHANGED danio
    /\ UNCHANGED <<estado_actual, colas, en_cpu, tabla>>

\* F_TRUNCATE does the same without the mutex.
ProcesarFTruncate ==
    /\ Procesa({"F_TRUNCATE"}, "saca")
    /\ EncolarPedido(hilo_cpu.pcb)
    /\ UNCHANGED <<estado_actual, colas, en_cpu, tabla, puede_compactar, danio>>

\* The three steps of pasar_a_cola_blocked, with the request already posted.
HiloCpuSaca ==
    /\ danio = "ninguno"
    /\ hilo_cpu.pc = "saca"
    /\ cola_exec' = DescartarExec
    /\ hilo_cpu' = [hilo_cpu EXCEPT !.pc = "marca"]
    /\ UNCHANGED <<procesos, cola_ready, cola_block, cpu_liberada, en_cpu, cola_fs, tabla,
                   puede_compactar, hilo_fs, servidor, danio>>

HiloCpuMarca ==
    /\ danio = "ninguno"
    /\ hilo_cpu.pc = "marca"
    /\ estado_actual' = [estado_actual EXCEPT ![hilo_cpu.pcb] = "BLOCK"]
    /\ hilo_cpu' = [hilo_cpu EXCEPT !.pc = "apila"]
    /\ UNCHANGED <<programa, program_counter, colas, cpu_liberada, en_cpu, cola_fs, tabla,
                   puede_compactar, hilo_fs, servidor, danio>>

HiloCpuApila ==
    /\ danio = "ninguno"
    /\ hilo_cpu.pc = "apila"
    /\ cola_block' = [cola_block EXCEPT ![hilo_cpu.pcb] = @ + 1]
    /\ hilo_cpu' = [hilo_cpu EXCEPT !.pc = "libera"]
    /\ UNCHANGED <<procesos, cola_ready, cola_exec, cpu_liberada, en_cpu, cola_fs, tabla,
                   puede_compactar, hilo_fs, servidor, danio>>

\* CREATE_SEGMENT: Memoria creates the segment, or asks for a compaction first.
ProcesarCreateSegment ==
    \/ /\ Procesa({"CREATE_SEGMENT"}, "espera")
       /\ en_cpu' = hilo_cpu.pcb
       /\ UNCHANGED <<estado_actual, colas, cola_fs, tabla, puede_compactar, danio>>
    \/ /\ Procesa({"CREATE_SEGMENT"}, "pide_compactar")
       /\ UNCHANGED <<estado_actual, colas, en_cpu, cola_fs, tabla, puede_compactar, danio>>

\* Mutant: only the trylock, whose failure is not waited for.
MutPedirCompactacion ==
    /\ danio = "ninguno"
    /\ hilo_cpu.pc = "pide_compactar"
    /\ puede_compactar' = FALSE
    /\ hilo_cpu' = [hilo_cpu EXCEPT !.pc = "compacta"]
    /\ UNCHANGED <<procesos, colas, cpu_liberada, en_cpu, cola_fs, tabla, hilo_fs, servidor,
                   danio>>

\* MEMORY_NEEDS_TO_COMPACT: trylock, or lock; then Memoria compacts.
PedirCompactacion ==
    /\ danio = "ninguno"
    /\ hilo_cpu.pc = "pide_compactar"
    /\ puede_compactar
    /\ puede_compactar' = FALSE
    /\ hilo_cpu' = [hilo_cpu EXCEPT !.pc = "compacta"]
    /\ UNCHANGED <<procesos, colas, cpu_liberada, en_cpu, cola_fs, tabla, hilo_fs, servidor,
                   danio>>

\* MEMORY_COMPACT: the tables are brought up to date, the segment is asked for
\* again and created, and the process keeps the CPU.
Compactado ==
    /\ danio = "ninguno"
    /\ hilo_cpu.pc = "compacta"
    /\ puede_compactar' = TRUE
    /\ en_cpu' = hilo_cpu.pcb
    /\ hilo_cpu' = [hilo_cpu EXCEPT !.pc = "espera"]
    /\ UNCHANGED <<procesos, colas, cpu_liberada, cola_fs, tabla, hilo_fs, servidor, danio>>

ProcesarYield ==
    /\ Procesa({"YIELD"}, "libera")
    /\ PasarAColaReady(hilo_cpu.pcb)
    /\ UNCHANGED <<en_cpu, cola_fs, tabla, puede_compactar>>

\* The call that closed the files of the process is commented out: they stay open.
ProcesarExit ==
    /\ Procesa({"EXIT"}, "libera")
    /\ cola_exec' = DescartarExec
    /\ estado_actual' = [estado_actual EXCEPT ![hilo_cpu.pcb] = "EXIT"]
    /\ UNCHANGED <<cola_ready, cola_block, en_cpu, cola_fs, tabla, puede_compactar, danio>>

HiloCpuLibera ==
    /\ danio = "ninguno"
    /\ hilo_cpu.pc = "libera"
    /\ cpu_liberada' = cpu_liberada + 1
    /\ hilo_cpu' = [pc |-> "espera", pcb |-> NoProc]
    /\ UNCHANGED <<procesos, colas, en_cpu, cola_fs, tabla, puede_compactar, hilo_fs,
                   servidor, danio>>

ManejarRespuestaCpu ==
    \/ EjecutarFOpenCerrado \/ HiloCpuAbierto \/ EjecutarFOpenAbierto
    \/ EjecutarFClose \/ EjecutarFSeek
    \/ ProcesarAcceso \/ ProcesarFTruncate
    \/ HiloCpuSaca \/ HiloCpuMarca \/ HiloCpuApila
    \/ ProcesarCreateSegment \/ PedirCompactacion \/ Compactado
    \/ ProcesarYield \/ ProcesarExit \/ HiloCpuLibera

-----------------------------------------------------------------------------
(* The thread of the file system: procesar_file_system                     *)

Enviar(codigo, p, f) ==
    pedido' = [codigo |-> codigo, archivo |-> f, pid |-> p, puntero |-> puntero[f]]

\* procesar_request_fs: what it sends is read from the pcb now, and the pointer
\* from the entry, which must exist for F_READ and F_WRITE.
ProcesarRequestFs ==
    LET p == Head(cola_archivos)  i == InstruccionDe(p) IN
    /\ danio = "ninguno"
    /\ hilo_fs.pc = "espera"
    /\ request_file_system > 0
    /\ cola_archivos # <<>>
    /\ request_file_system' = request_file_system - 1
    /\ cola_archivos' = Tail(cola_archivos)
    /\ IF i.codigo \in Accesos /\ ~Abierto(i.archivo)
       THEN danio' = "entrada_nula" /\ UNCHANGED pedido
       ELSE Enviar(i.codigo, p, i.archivo) /\ UNCHANGED danio
    /\ hilo_fs' = [pc |-> "recibe", pcb |-> p, visto |-> "NADA"]
    /\ UNCHANGED <<procesos, colas, cpu_liberada, en_cpu, hilo_cpu, f_open_done, tabla,
                   puede_compactar, respuesta, existentes>>

\* What receiving an answer has in common.
Recibe(esperada, siguiente) ==
    /\ danio = "ninguno"
    /\ hilo_fs.pc = IF esperada = "F_OP_OK" THEN "recibe_creacion" ELSE "recibe"
    /\ respuesta = esperada
    /\ respuesta' = "NINGUNA"
    /\ hilo_fs' = siguiente
    /\ UNCHANGED <<programa, program_counter, cpu_liberada, en_cpu, hilo_cpu, cola_archivos,
                   request_file_system, cola_bloqueados, existentes>>

Ocioso == [pc |-> "espera", pcb |-> NoProc, visto |-> "NADA"]

\* F_NOT_EXISTS: create the file, then ask again for it to be opened.
RecibirNoExiste ==
    /\ Recibe("F_NOT_EXISTS", [hilo_fs EXCEPT !.pc = "recibe_creacion"])
    /\ Enviar("F_CREATE", hilo_fs.pcb, ArchivoDe(hilo_fs.pcb))
    /\ UNCHANGED <<estado_actual, colas, f_open_done, archivos_abiertos, puntero,
                   puede_compactar, danio>>

RecibirCreado ==
    /\ Recibe("F_OP_OK", [hilo_fs EXCEPT !.pc = "recibe"])
    /\ Enviar("F_OPEN", hilo_fs.pcb, ArchivoDe(hilo_fs.pcb))
    /\ UNCHANGED <<estado_actual, colas, f_open_done, archivos_abiertos, puntero,
                   puede_compactar, danio>>

\* Mutant: f_open_done is not posted.
MutRecibirAbierto ==
    LET f == ArchivoDe(hilo_fs.pcb) IN
    /\ Recibe("F_OPEN_OK", Ocioso)
    /\ archivos_abiertos' = Append(archivos_abiertos, f)
    /\ puntero' = IF Abierto(f) THEN puntero ELSE [puntero EXCEPT ![f] = NoProc]
    /\ UNCHANGED <<estado_actual, colas, f_open_done, pedido, puede_compactar, danio>>

\* F_OPEN_OK: a new entry unless there is one, added to the list in both cases.
RecibirAbierto ==
    LET f == ArchivoDe(hilo_fs.pcb) IN
    /\ Recibe("F_OPEN_OK", Ocioso)
    /\ archivos_abiertos' = Append(archivos_abiertos, f)
    /\ puntero' = IF Abierto(f) THEN puntero ELSE [puntero EXCEPT ![f] = NoProc]
    /\ f_open_done' = f_open_done + 1
    /\ UNCHANGED <<estado_actual, colas, pedido, puede_compactar, danio>>

\* A finished request: its entry must be there, and pasar_a_cola_ready reads the state
\* of its process, which the other thread may change before this one acts on it.
Despertar(p) ==
    /\ danio' = IF Abierto(ArchivoDe(p)) THEN danio ELSE "entrada_nula"
    /\ UNCHANGED <<estado_actual, colas, f_open_done, archivos_abiertos, puntero, pedido>>

Despierta == [hilo_fs EXCEPT !.pc = "despierta", !.visto = estado_actual[hilo_fs.pcb]]

RecibirTruncado ==
    /\ Recibe("F_TRUNCATE_OK", Despierta)
    /\ Despertar(hilo_fs.pcb)
    /\ UNCHANGED puede_compactar

\* F_READ_OK and F_WRITE_OK: the mutex the other thread took is released here.
RecibirAcceso ==
    /\ Recibe("F_READ_OK", Despierta) \/ Recibe("F_WRITE_OK", Despierta)
    /\ puede_compactar' = TRUE
    /\ Despertar(hilo_fs.pcb)

\* Mutant: of a process it saw in EXEC, the queue is left as it is.
MutHiloFsSaca ==
    LET p == hilo_fs.pcb IN
    /\ danio = "ninguno"
    /\ hilo_fs.pc = "despierta"
    /\ hilo_fs' = [hilo_fs EXCEPT !.pc = "apila"]
    /\ IF hilo_fs.visto = "BLOCK" THEN QuitarDeBlock(p) ELSE UNCHANGED cola_block
    /\ UNCHANGED <<procesos, cola_ready, cola_exec, cpu_liberada, en_cpu, hilo_cpu, cola_fs,
                   tabla, puede_compactar, servidor, danio>>

\* It takes the pcb out of the queue named by the state it read.  From cola_exec it
\* goes on with whichever pcb it pops.
HiloFsSaca ==
    LET p == hilo_fs.pcb IN
    /\ danio = "ninguno"
    /\ hilo_fs.pc = "despierta"
    /\ \/ /\ hilo_fs.visto = "BLOCK"
          /\ QuitarDeBlock(p)
          /\ hilo_fs' = [hilo_fs EXCEPT !.pc = "apila"]
          /\ UNCHANGED <<cola_exec, danio>>
       \/ /\ hilo_fs.visto = "EXEC" /\ cola_exec = <<>>
          /\ danio' = "pcb_nulo"
          /\ UNCHANGED <<cola_exec, cola_block, hilo_fs>>
       \/ /\ hilo_fs.visto = "EXEC" /\ cola_exec # <<>>
          /\ cola_exec' = Tail(cola_exec)
          /\ hilo_fs' = [hilo_fs EXCEPT !.pc = "apila", !.pcb = Head(cola_exec)]
          /\ danio' = IF Head(cola_exec) = p THEN danio ELSE "pcb_ajeno"
          /\ UNCHANGED cola_block
    /\ UNCHANGED <<procesos, cola_ready, cpu_liberada, en_cpu, hilo_cpu, cola_fs, tabla,
                   puede_compactar, servidor>>

HiloFsApila ==
    /\ danio = "ninguno"
    /\ hilo_fs.pc = "apila"
    /\ ApilarEnReady(hilo_fs.pcb)
    /\ hilo_fs' = Ocioso
    /\ UNCHANGED <<programa, program_counter, cola_exec, cola_block, cpu_liberada, en_cpu,
                   hilo_cpu, cola_fs, tabla, puede_compactar, servidor, danio>>

ProcesarFileSystem ==
    \/ ProcesarRequestFs \/ RecibirNoExiste \/ RecibirCreado
    \/ RecibirAbierto \/ RecibirTruncado \/ RecibirAcceso
    \/ HiloFsSaca \/ HiloFsApila

\* The FileSystem answers one request at a time; FileSystem models what it does
\* with its blocks, and that F_OP_ERROR is never the answer.
AtenderRequest ==
    /\ danio = "ninguno"
    /\ pedido # SinPedido
    /\ pedido' = SinPedido
    /\ respuesta' = CASE pedido.codigo = "F_OPEN" ->
                            IF pedido.archivo \in existentes THEN "F_OPEN_OK"
                                                             ELSE "F_NOT_EXISTS"
                      [] pedido.codigo = "F_CREATE"   -> "F_OP_OK"
                      [] pedido.codigo = "F_TRUNCATE" -> "F_TRUNCATE_OK"
                      [] pedido.codigo = "F_READ"     -> "F_READ_OK"
                      [] OTHER                        -> "F_WRITE_OK"
    /\ existentes' = IF pedido.codigo = "F_CREATE" THEN existentes \cup {pedido.archivo}
                                                   ELSE existentes
    /\ UNCHANGED <<procesos, colas, cpu_liberada, en_cpu, hilo_cpu, cola_fs, tabla,
                   puede_compactar, hilo_fs, danio>>

-----------------------------------------------------------------------------
(* The specification                                                       *)

Init ==
    /\ programa \in [Proc -> Programas]
    /\ program_counter = [p \in Proc |-> 0]
    /\ estado_actual = [p \in Proc |-> "NEW"]
    /\ cola_ready = <<>>
    /\ cola_exec = <<>>
    /\ cola_block = [p \in Proc |-> 0]
    /\ cpu_liberada = 1
    /\ en_cpu = NoProc
    /\ hilo_cpu = [pc |-> "espera", pcb |-> NoProc]
    /\ cola_archivos = <<>>
    /\ request_file_system = 0
    /\ f_open_done = 0
    /\ archivos_abiertos = <<>>
    /\ cola_bloqueados = [f \in Archivo |-> <<>>]
    /\ puntero = [f \in Archivo |-> NoProc]
    /\ puede_compactar = TRUE
    /\ hilo_fs = Ocioso
    /\ pedido = SinPedido
    /\ respuesta = "NINGUNA"
    /\ existentes = Existentes
    /\ danio = "ninguno"

Next == \/ \E p \in Proc : Admite(p)
        \/ Despacha
        \/ CpuDevuelve
        \/ ManejarRespuestaCpu
        \/ ProcesarFileSystem
        \/ AtenderRequest

Spec == Init /\ [][Next]_vars

\* The threads of the Kernel are pthreads the system schedules; the CPU and the
\* FileSystem are processes that run on their own.  A process may never come.
Fairness ==
    /\ WF_vars(Despacha)
    /\ WF_vars(CpuDevuelve)
    /\ WF_vars(ManejarRespuestaCpu)
    /\ WF_vars(ProcesarFileSystem)
    /\ WF_vars(AtenderRequest)

FairSpec == Spec /\ Fairness

-----------------------------------------------------------------------------
(* Properties                                                              *)

Uno(b) == IF b THEN 1 ELSE 0
Veces(cola, p) == Cardinality({i \in DOMAIN cola : cola[i] = p})

\* The requests the Kernel has not finished, of whatever kind: queued, being served, or
\* answered but with their process still to wake up.
Pedidos == Range(cola_archivos) \cup IF hilo_fs.pcb = NoProc THEN {} ELSE {hilo_fs.pcb}
Bloqueante(p) == InstruccionDe(p).codigo \in Accesos \cup {"F_TRUNCATE"}

\* The reads and writes the FileSystem has not answered.
AccesosEnCurso ==
    {p \in Pedidos : /\ InstruccionDe(p).codigo \in Accesos
                     /\ ~(hilo_fs.pcb = p /\ hilo_fs.pc \in {"despierta", "apila"})}

\* Where the Kernel can find a process again: cola_ready, cola_exec, the queue of a
\* file, or a request that will wake it up.
Lugares(p) == Veces(cola_ready, p) + Veces(cola_exec, p)
              + Cardinality({f \in Archivo : p \in Range(cola_bloqueados[f])})
              + Uno(p \in Pedidos /\ Bloqueante(p))

\* Although F_READ, F_WRITE and F_TRUNCATE post the request before they block the
\* process (i_cpu.c:253-255), whichever thread is faster: as long as no thread has
\* popped what it did not look for, a process that has been admitted and has not
\* finished can be found again in exactly one place, but for the time between its
\* request and the first of the two pops of cola_exec.
UnSoloLugar ==
    danio = "ninguno" => \A p \in Proc :
        estado_actual[p] \notin {"NEW", "EXIT"} =>
            Lugares(p) = 1 + Uno(/\ hilo_cpu = [pc |-> "saca", pcb |-> p]
                                 /\ p \in Pedidos
                                 /\ ~(hilo_fs.pc = "apila" /\ hilo_fs.pcb = p))

\* The handler has popped cola_exec for the process, which it is blocking or has blocked.
SacadoParaBloquear(p) ==
    \/ hilo_cpu \in [pc : {"marca", "apila"}, pcb : {p}]
    \/ estado_actual[p] = "BLOCK" /\ cola_block[p] > 0

\* Only one thing goes wrong: the thread of the file system reads EXEC before
\* pasar_a_cola_blocked changes the state (planificador_utils.c:187, 316) and pops
\* cola_exec after it did (193, 312).  If nobody was dispatched in between, it pops
\* NULL; if somebody was, it takes that process, in the CPU, and the one of the request
\* stays in cola_block with nobody to wake it up.  F_CLOSE always finds the process it
\* wakes up (684), YIELD its own, and each request its entry.
SoloCaeEnLaVentana ==
    danio # "ninguno" =>
        /\ hilo_fs.visto = "EXEC"
        /\ \/ /\ danio = "pcb_nulo"
              /\ cola_exec = <<>>
              /\ SacadoParaBloquear(hilo_fs.pcb)
           \/ /\ danio = "pcb_ajeno"
              /\ estado_actual[hilo_fs.pcb] = "EXEC"
              /\ \E p \in Proc \ {hilo_fs.pcb} : SacadoParaBloquear(p) /\ Lugares(p) = 0

\* puede_compactar is taken exactly while there is one F_READ or F_WRITE the FileSystem
\* has not answered, or a compaction, and never for both: Memoria does not move a segment
\* that the FileSystem is about to read or write (i_cpu.c:103, 110, i_file_system.c:75,
\* 84, planificador_utils.c:517-529).
CompactacionExcluyeAccesos ==
    danio = "ninguno" =>
        Cardinality(AccesosEnCurso) + Uno(hilo_cpu.pc = "compacta") = Uno(~puede_compactar)

\* The line of its program a process has not done yet: the instruction the thread is
\* still serving is not done.
Linea(p) == program_counter[p] + 1 - Uno(hilo_cpu = [pc |-> "procesa", pcb |-> p])

\* Since it got the file, the process has moved its pointer.
Busco(p, f) == Vigente(programa[p], Linea(p), "F_SEEK", f)

\* A process whose F_SEEK is done accesses the file where it put the pointer, not
\* where another process that had the file put it (i_cpu.c:370-382,
\* i_file_system.c:126, 148).
PunteroPropio ==
    pedido.codigo \in Accesos /\ Busco(pedido.pid, pedido.archivo)
        => pedido.puntero = pedido.pid

\* Who has a file: it has opened it and not closed it since, and is not waiting for
\* it.
Tiene(p, f) ==
    /\ Vigente(programa[p], Linea(p), "F_OPEN", f)
    /\ p \notin Range(cola_bloqueados[f])

QuienTiene(f) == IF Abierto(f) /\ \E p \in Proc : Tiene(p, f)
                 THEN CHOOSE p \in Proc : Tiene(p, f) ELSE NoProc

Cerrojos == INSTANCE CerrojosDeArchivos WITH
    duenio <- [f \in Archivo |-> QuienTiene(f)],
    espera <- cola_bloqueados

\* The table, the queues of its entries and the two threads implement one lock per
\* file with its queue, "SI EL ARCHIVO ESTA ABIERTO, SE BLOQUEA EL PROCESO HASTA QUE
\* EL PROCESO ANTERIOR HAGA UN F_CLOSE" (i_cpu.c:360), and an entry has one owner.
CerrojosRespetados ==
    /\ Cerrojos!SpecCerrojos
    /\ [](danio = "ninguno" => \A f \in Archivo :
             /\ Cardinality({p \in Proc : Abierto(f) /\ Tiene(p, f)}) = Uno(Abierto(f))
             /\ Veces(archivos_abiertos, f) <= 1)

\* A process waits for a file whose owner has ended without closing it, or waits
\* for a file itself.
EsperaParaSiempre(p) ==
    \E f \in Archivo :
        /\ p \in Range(cola_bloqueados[f])
        /\ \E q \in Proc : /\ Tiene(q, f)
                           /\ \/ estado_actual[q] = "EXIT"
                              \/ \E g \in Archivo : q \in Range(cola_bloqueados[g])

\* Every request is answered and every process goes on: unless a thread pops what it did
\* not look for, each one that was admitted ends, or waits for a file nobody will close.
SoloEsperaPorArchivos ==
    <>[](\/ danio # "ninguno"
         \/ \A p \in Proc : estado_actual[p] \in {"NEW", "EXIT"} \/ EsperaParaSiempre(p))

=============================================================================

# A TLA+ model of SO_TP_20231C

The repository is a small distributed operating system in C: five kinds of
process over TCP sockets. A **Consola** submits a program of pseudocode to the
**Kernel**, which schedules it on one **CPU**; the CPU executes its
instructions, translates its addresses and reads and writes the **Memoria**;
the Kernel asks Memoria for segments and the **FileSystem** for files.

This directory holds TLA+ modules translated from the C sources, TLC
configurations that check them on small instances, and TLAPS proofs about the
scheduler, the open files of the Kernel, its dealings with Memoria, Memoria itself,
the FileSystem and the CPU with the messages it lives on.
`PROJECT.json` maps each definition to the lines it models.

## 1. Inventory

| Component (source) | State | Operations | Interacts through |
|---|---|---|---|
| Schedulers, queues, semaphores (`kernel/src/planificador_{largo,corto,utils}.c`) | five queues with a mutex each, pcbs, POSIX semaphores, resources | admit, choose (FIFO, HRRN), dispatch, every move between queues | shared memory with all the threads of the Kernel |
| Handler of the CPU's answers (`i_cpu.c`) | the head of `cola_exec` | YIELD, EXIT, IO, WAIT, SIGNAL, CREATE/DELETE_SEGMENT, F_*, SEG_FAULT | `socket_cpu`, `socket_memoria`, queue of requests to the FileSystem |
| Console threads (`i_console.c`) | one pcb each | create a process, wait for its end, answer, free it | `socket_consola`, `sem_exit_proceso`, `cola_exit` |
| I/O threads (`i_cpu.c:148`) | one sleeping pcb each | sleep, make ready | `cola_block`, `cola_ready` |
| Open-file table and thread of the file system (`i_file_system.c`, `planificador_utils.c:560-690`) | table of open files, requests, `puede_compactar` | F_OPEN ... F_CLOSE, hand-over of a closed file | `socket_filesystem`, lock shared with the handler of the CPU |
| Memoria: allocator (`memoria_utils.c`) | holes, live segments, tables, the bytes | create, delete, fit, consolidate, compact | called by the server |
| Memoria: server (`memoria.c`) | one thread per client, no mutex | requests of Kernel, CPU, FileSystem | three sockets |
| FileSystem (`filesystem.c`) | bitmap, blocks, FCBs in memory and on disk | F_OPEN, F_CREATE, F_TRUNCATE, F_READ, F_WRITE, start-up | `socket_kernel`, `socket_memoria`, the disk |
| CPU (`ciclo_de_instruccion.c`, `cpu.c`) | program counter, registers | fetch, decode, MMU, give the process back | `socket_kernel`, `socket_memoria` |
| Consola, parser (`consola/src`) | none | parse, submit, wait | `socket_kernel` |
| Shared (`shared/src`) | none | serialise, send, receive | sockets |

What is hard here:

* **Interleavings.** The Kernel has 4 fixed threads, one per console and one per
  I/O. A queue is locked for one push or pop; a decision (peek, choose, index)
  and the move that follows it are not. The order of wake-ups of consoles is not
  the order of `cola_exit`.
* **Counting by hand.** `cpu_liberada`, `proceso_enviado`, `sem_ready_proceso`,
  the degree and the instances of a resource are posted in a dozen places; one
  too many or too few is a second process in the CPU or a stopped system.
* **Copies.** A segment table lives in Memoria, in the pcb, in the context and, as a
  physical address, in the requests to the FileSystem; a compaction changes them
  all. Registers live in the pcb, in the message and in the CPU, which does not
  clear them between two processes.
* **Locks of two threads.** `puede_compactar` is taken by one thread and released
  by another; `mutex_socket_memoria` is released twice after an OUT_OF_MEMORY.
  Memoria itself locks nothing: it relies on what the Kernel lets happen.
* **Long sequences.** Memoria keeps holes, segments and tables in step through
  any sequence of creations, deletions and compactions; the FileSystem does the
  same with bitmap, pointers and FCBs, through stops of the process too.
* **Limits.** The degree, a full memory, a full disk, block 0, rounding.

What makes each component correct: one process in the CPU and its context the
one applied (handler); a pcb in one queue and no lost wake-up (queues); every
console answered with its own result (consoles); holes and segments partition
the memory and compaction cannot be seen (allocator); no block in two files and
no file changed by what is done to another (FileSystem); one owner per open file,
every blocked process woken and `puede_compactar` always given back (files); no
address from before a compaction used after it, and each thread reading its own
answer (Kernel and Memoria); a process that runs its own lines on its own registers
within its own segments, and every message read as it was written (CPU, messages).

## 2. Plan

1. `Planificador`, its abstraction `CicloDeVida`, `PlanificadorProofs`. **Done.**
2. `Memoria` and its abstraction `AlmacenDeSegmentos`. **Done.**
3. `FileSystem`, with stops of the process. **Done.**
4. `ArchivosAbiertos` and its abstraction `CerrojosDeArchivos`: the Kernel's table
   of open files, the thread of the file system, `puede_compactar`. **Done.**
5. `KernelMemoria`: the two threads that share `socket_memoria`, OUT_OF_MEMORY,
   compaction and the copies of the tables. **Done.**
6. `Serializacion`, `Parser`, `Cpu` and their abstraction `MaquinaPropia`: messages,
   registers, MMU, codes given back. **Done.**
7. Theorems about the scheduler and its life cycle, `PlanificadorProofs`. **Done.**
8. Theorems about the Kernel as a client, `KernelMemoriaProofs`, and about the open
   files, `CerrojosProofs` and `ArchivosProofs`. **Done.**
9. Theorems about the segments of Memoria, `MemoriaProofs`, over the lemmas on folds of
   `Pliegues`. **Done.**
10. Theorems about the disk, `FileSystemProofs`, over the same lemmas. **Done.**
11. Theorems about the messages, the registers, the bounds and the machine of each
    process, `CpuProofs`. **Done.** What is left is liveness, for TLC.

## 3. Modules

### `Planificador` (core)

One action is what a thread does from one point where it can block, or where
another can see a half-done change, to the next. A `squeue_*` call is one
critical section. Split on purpose: the peek and the pop of `cola_ready`
(`PcpElige`, `PcpDespacha`), the push to `cola_new` and the registration, the
three steps of a console that ends, the index and the insertion of HRRN at the
end of an I/O (`BloqueoIOCalcula`, `BloqueoIOInserta`), every post of
`cpu_liberada`. Files, the answers of Memoria and the bytes of a context are left to
the modules below, each of which takes the queues in fewer steps than this one.

| Code | Model |
|---|---|
| `procesar_consola` | `Consola(p)`: `ConsolaCreaProceso` ... `ConsolaDestruye` |
| `planificador_largo_plazo` | `PlanificadorLargoPlazo`: four steps, `plp` |
| `planificador_corto_plazo` | `PlanificadorCortoPlazo`: five steps, `pcp` |
| `manejar_respuesta_cpu`, `procesar_contexto` | `ManejarRespuestaCpu`: one `Procesar...` per case, `hilo_cpu` |
| `bloqueo_io` threads | `HiloDeIO(p)`, `hilos_io`, `insertando`, `indice` |
| `ciclo_de_instruccion`, `correr_servidor` of the CPU | `Cpu`, `hacia_cpu`, `cpu`, `desde_cpu` |
| `squeue` lists | sequences; `cola_block`, whose order nobody reads, a bag |
| `t_recurso` | `instancias`, `cola_bloqueados` |
| semaphores | naturals with the source's names |

The timers of HRRN are not modelled: they run in real time, so the comparison
can give any result, and any position or permutation is possible. A thread that
would follow a null pointer (the PCP on an empty `cola_ready`) has no step:
`NadieSacaDeColaVacia` says it never gets there under FIFO. Under HRRN it can, once a
process has been lost (finding 2), and `ContextoDelEjecutado` does not hold there
either: the PCP peeks the head it has sorted (`planificador_corto.c:49`) and
`pasar_a_cola_exec` pops whatever the head is later (`planificador_utils.c:299`). A counter of a program past its end has no step
either: programs end with EXIT or with an instruction that ends them.

`CicloDeVida` is the five-state diagram with the exclusion of EXEC and the
degree. `Planificador` implements it under `Ciclo`, where a process exists once
its console has created it and the places given back are counted by the consoles
that popped `cola_exit`.

### `Memoria`

The lists `huecos_libres` and `segmentos_activos`, the tables and the bytes; one
action per request, taken whole. The server has a thread per client and no mutex: what
keeps two requests apart is the Kernel, which holds the socket from a request to its
answer, has no process in the CPU while it does, and starts no compaction while an
F_READ or F_WRITE is pending. `ArchivosAbiertos` and `KernelMemoria` check the last
two; the lists are touched by the Kernel's requests only. `ConsolidarHuecos`, `EsMejor`, `ActualizarHueco` and `Deslizar` are
`consolidar_huecos_contiguos`, the three fits, `actualizar_hueco` and the body of
`compactar_memoria`. Of the Kernel there is only what decides the next request:
MEMORY_NEEDS_TO_COMPACT, MEMORY_COMPACT, the same creation again. Segments are
named by a descriptor, as the code's increasing id does, and a descriptor can be
used again once freed. They leave `segmentos_activos` one by one, as
`list_remove_element` takes them.

`AlmacenDeSegmentos` is what the users of Memoria may rely on: segments with an
owner and contents, no addresses. `Memoria` implements it: nothing but a write of
an owner changes the contents, and compaction is a stutter.

Preconditions, as the repository's programs meet them: ids and sizes above zero,
DELETE_SEGMENT of an id the process has (with another one the server follows a
null pointer), writes inside a segment (the CPU has checked).

### `FileSystem`

One thread, one request at a time, but F_TRUNCATE touches the disk several times
and sleeps in between: it is split into the turns of its loops
(`AumentarDirecto`, `AumentarIndirecto`, `DisminuirUnBloque`), the write of the
pointers and the write of the FCB, and `Caida` can stop the process between any
two. What survives is what the code keeps outside the process: the bitmap
(`MAP_SHARED`), the file of blocks and the FCB files. F_READ and F_WRITE follow
`obtener_all_bloques` and `obtener_n_punteros` exactly, with the uninitialised
part of the buffer a choice.

The unit is the word a pointer takes: a block of 64 bytes with 4-byte pointers is
16 words, and 2 in the runs. `danio` names the first event after which the
disk is not what the code believes: a full disk (`obtener_bloque_libre` returns
-1 and nobody looks), block 0 used for pointers (0 also means "none"), a stop
while a file shrinks, an access to an empty file (it uses a block that is not
its own). The model takes each of these steps and serves no request after them;
the properties are about everything up to there, and a stop while a file grows,
which only leaks blocks, is followed further.

A turn reserves, clears and links its blocks in one step: a stop inside it leaks
what a stop after it does. Left out: a stop in the middle of F_WRITE or of the
writing of one FCB file, a file with more blocks than one block of pointers can list (its
pointers run past a heap buffer), names that differ only in case, F_CREATE of a
file that exists (the Kernel creates only after F_NOT_EXISTS).

### `ArchivosAbiertos`

The thread of the CPU's answers and the thread of the file system around the table of
open files, with the FileSystem as a process that answers one request at a time.

| Code | Model |
|---|---|
| `archivos_abiertos`, `cola_bloqueados`, `puntero` of an entry | `archivos_abiertos`, `cola_bloqueados`, `puntero` (who moved it last) |
| `ejecutar_f_open`, `ejecutar_f_close`, `ejecutar_f_seek` | `EjecutarFOpenCerrado`, `HiloCpuAbierto`, `EjecutarFOpenAbierto`, `EjecutarFClose`, `EjecutarFSeek` |
| `F_READ`, `F_WRITE`, `F_TRUNCATE` in `procesar_contexto` | `ProcesarAcceso`, `ProcesarFTruncate`, then `HiloCpuSaca`, `HiloCpuMarca`, `HiloCpuApila` |
| `procesar_file_system`, `procesar_request_fs`, `recibir_respuesta_fs` | `ProcesarFileSystem`: `ProcesarRequestFs` and one `Recibir...` per answer |
| `pasar_a_cola_ready` in the thread of the file system | `Despierta` (the state it reads), then `HiloFsSaca`, `HiloFsApila` |
| `puede_compactar` | a Boolean, because two threads lock and unlock it |
| `MEMORY_NEEDS_TO_COMPACT`, `MEMORY_COMPACT` | `ProcesarCreateSegment`, `PedirCompactacion`, `Compactado` |

The request is posted before `pasar_a_cola_blocked`, so its answer can come at any moment
of that function, and of what follows. The three steps of `pasar_a_cola_blocked` (pop of
`cola_exec`, state, push) are apart for that reason, and so are the three of
`pasar_a_cola_ready` when the thread of the file system calls it: it reads the state
(`planificador_utils.c:187`), takes the head of the queue that state names (193, 200), and
changes the state and pushes (210-214). No lock covers two of them. Everywhere else the two
functions are called by a thread that nobody disturbs, and are one step
(`PasarAColaReady`, `PasarAColaBlocked`).

If the thread reads EXEC and the other one pops `cola_exec` first, its own pop fails in one
of two ways (`danio`). The queue is empty: it pops NULL and uses it (`pcb_nulo`). That may
be at any moment from the pop of the other thread until the next dispatch, with the handler
still in `pasar_a_cola_blocked`, about to post `cpu_liberada`, or waiting for the CPU. Or the
PCP has dispatched another process meanwhile: the thread pops that one (`pcb_ajeno`), which
goes to `cola_ready` while it is in the CPU, and the process of the request stays in
`cola_block` with nobody to wake it up. `SoloCaeEnLaVentana` says exactly when each can
happen, and that no other pop and no lookup in the table fails before. The model takes no step after either: NULL ends
the Kernel, and what a Kernel with one process in two places does next is not modelled. The
other properties say what holds until then, and in particular in every interleaving in which the
two pops find what they look for.

`CerrojosDeArchivos` is what F_OPEN and F_CLOSE promise: one owner per file, and the
one that waited longest is the next. `ArchivosAbiertos` implements it under `Cerrojos`,
where the owner is who has opened the file, has not closed it since and is not in its
queue. Programs are assumed to be like those of `consola/` (`ProgramasAssumption`): they
open a file before they use it, and not again before they close it. The Kernel does not
check it; the other properties of the module that do not speak of owners need none of it.
F_CLOSE hands the entry over with its pointer (`planificador_utils.c:680`): a new owner that
does no F_SEEK starts where the old one left it. `PunteroPropio` is about a process that has
done one.

### `KernelMemoria`

The Kernel as a client of Memoria: consoles, PLP and the thread of the CPU's answers
around `socket_memoria`.

| Code | Model |
|---|---|
| `crear_proceso`, `respuesta_proceso`, `destroy_pcb` | `ConsolaCreaProceso`, `ConsolaRegistra`, `ConsolaRetira`, `ConsolaDestruye` |
| `planificador_largo_plazo`, `solicitar_nueva_tabla_de_segmento` | `PlpEspera`, `PlpPide`, `PlpRecibe` |
| `procesar_create_segment`, `procesar_delete_segment` | `PedirSegmento`, `HiloCpuSuelta`, `HiloCpuDecide` |
| `procesar_respuesta_memoria` | one `Recibir...` per answer; `RecibirAjena` when it is for the other thread |
| `sincronizar_tablas_procesos` | `SincronizarTablasProcesos` |
| `procesar_kernel` of `memoria.c` | `Memory...`, one per request; whether a segment fits is a choice |
| tables | the ids of the segments and the number of the compaction their bases come from |

`caido` names how the Kernel goes wrong, and no step follows: a compaction finds no pcb
for a table (`pcb_sin_registrar`), the thread reads a pcb its console has freed
(`pcb_liberado`), a thread reads the other's answer (`respuesta_ajena`). A thread that
waits for a mutex it holds (`EsperaSuCerrojo`) just stops. The properties say when each
can happen, and that nothing else goes wrong. A compaction asked for again
(`RecibirFaltaCompactar` after `recibe_reenvio`) is the one `memoria_compactacion` shows
to be possible.

### `Serializacion`, `Parser`, `Cpu`

One program from its file to its end, with the bytes that travel.

| Code | Model |
|---|---|
| `estructuras.c`, `shared.c` and the senders and receivers of each program | `Serializacion`: a message is a sequence of cells, an int or a byte each, written field by field at offsets and read back by other operators |
| `parsear`, `parsear_instrucciones` | `Parser`: a line is a word and the words after it |
| `correr_consola`, `procesar_consola` | `ConsolaEnvia`, `KernelCreaProceso` |
| `ciclo_de_instruccion`, `execute_*` | `CicloDeInstruccion`, one `Execute...` per kind of instruction |
| `traducir_a_direccion_fisica`, `obtener_segmento` | `SegmentosDe`, `Cabe`, `DireccionFisica`, `SegFault` |
| registers of `cpu.c` | blocks of bytes; `Strcpy` and `Strncpy` by what they leave behind |
| `procesar_cpu_fs` of `memoria.c` | `MemoryReadAdress`, `MemoryWriteAdress` |
| `manejar_respuesta_cpu` | one `Procesar...` per code, with the fields it reads of the socket |

`MaquinaPropia` is what a process may believe: it runs its file line by line and its
registers change only by its own lines. `Cpu` implements it under `Maquina`, where the
registers are those of the CPU, of the message under way or of the pcb. This holds
although AX and BX arrive by `strcpy` over what the process before left there, because
what is read of a register stops at its NUL. What is stored is not: MOV_OUT of AX or BX
sends the whole register, rest of another process included, and `AccesosPropios` says
that no other register does (`POR_STRCPY`).

Two ways to stop stay in the model: the CPU reads a null segment for a number of
segment the process does not have (`cpu = "caida"`), and the Kernel drops the answer to
an F_READ outside its segment (`PerdidoPorFRead`). `TodoProgramaTermina` says there is
no third.

### Instances

The `MC...` modules define the programs, sets and symmetries the configurations use. Operators called `Mut...` beside a definition
are faults one could make in it; each checked property is violated when its
definition is replaced by one of them.

## 4. Runs

| Run | Question | Result |
|---|---|---|
| `hrrn` | HRRN with the insertion in two steps: does every step keep `IInv`, on the reachable states? | yes |
| `cruzados` | FIFO, programs that cross their resources, sleep and fail: does an interleaving break the exclusion of the CPU, a queue or a semaphore? is there another reason to wait for ever? is the life cycle implemented? does a counter go back? | no; no; yes; no |
| `hrrn_pierde` | is every ready process in `cola_ready`? | not under HRRN: finding 2 |
| `respuesta` | is the answer of a console about its own process? | no: finding 1 |
| `memoria` | FIRST, BEST, WORST, two processes: partition, consolidation, tables, fit | hold |
| `memoria_contenido` | do contents survive creations, deletions and compactions? | yes |
| `memoria_compactacion` | does one compaction always make the room it promises? | no: finding 3 |
| `filesystem` | two files, every request, one stop: sharing, leaks, contents, what a restart reads | hold |
| `filesystem_indirecto` | is a block of pointers created only once? | no: finding 4 |
| `archivos` | is an open file a lock handed over in order? is each process in one place while two threads move it? can a compaction meet an F_READ? which pop can fail, and when? who waits for ever? | until a pop fails: yes; yes; no. Only that of `cola_exec` after a state read too early; those who wait for a file its owner kept |
| `kernel_memoria` | is an address from before a compaction ever used? when does a thread read the other's answer, miss a pcb or use a freed one? is every console answered otherwise? | no; only in the cases named; yes |
| `cpu` | is every message read as it was written? does a process run its own lines on its own registers, within its segments? does every program end? | yes; yes; but for the two ways to stop |

**Bounds.** `Planificador`: three processes are enough for one that runs, one that waits
and one that is inserted, and for two consoles that finish while a third arrives; degree
2 makes the PLP wait. Programs are the shapes of those in `consola/`, cut to the
instructions that reach the Kernel. `Memoria`: five addresses, with one for segment 0,
hold four segments and every arrangement of holes between them; sizes 1 to 3 make
candidates equal and different. Contents are checked with two values of a byte, one id
per process and sizes 1 and 2, under the three fits. `FileSystem`: six blocks of two
words are a file with its pointers full beside another, or two files with a block of
pointers each and a full disk; sizes 0, 3 and 6 round down growing and up shrinking and
reach files of 0 to 3 blocks; the accesses stay in the first block or cross into the
second.

`ArchivosAbiertos`: two files, one of them new to the FileSystem, and three processes
with any of three programs: one that uses a file and closes it, one that opens the other
first, asks for a segment and ends without closing, one that opens both the other way
round. That is a queue of two, a hand-over, a crossed wait, a compaction that finds an
F_READ under way and an owner that ends. `KernelMemoria`: three consoles, so that one
registers while another is admitted and a third runs out of memory; one segment id, and
one compaction (`MAX_COMPACTACIONES`), after which Memoria may still ask for another.
`Cpu`: two processes that choose among eight files: together they have the sixteen
instructions, a segment that does not fit, an access that runs past its segment and one
to a segment that is not there, and two files that are rejected; registers of two and
three bytes stand for those of 4 to 16, one of them copied by `strcpy`, and values go from
shorter than a register to longer.

**Deadlock** is not checked: each of these systems may stop, when every console has been
served or when what is left waits for something nobody will do; the liveness properties
of `cruzados`, `archivos`, `kernel_memoria` and `cpu` say that it stops for no other
reason. `Memoria` stops after a compaction that made no room, `FileSystem` after a
`danio`, and so does `ArchivosAbiertos` after its own.

**Fairness** (`FairSpec`) is weak, for each thread of the Kernel and for each of the
other processes, and in `Planificador` for each step of a console after its connection
and for each I/O. Each is a pthread or a process of its own that the operating system
schedules, and a sleep ends. Weak fairness is enough because each semaphore and each
mutex of the models has at most one thread waiting for it while what it waits for stays
there, but for `mutex_socket_memoria`: there the other thread always gives it back and
has at most as many requests to make as programs have instructions. A console is free
never to connect. Sockets deliver every message in order. No fairness is assumed of
choices.

**Symmetry** is used in the runs without liveness only, over processes, over descriptors
other than the shared one and over files.

## 5. What is proved

Every theorem holds for any number of processes, resources, files and instances, any
programs and any degree, those of Memoria for any size of the memory, of segment 0
and of what is asked for, and those of the FileSystem for any number of blocks, any size of
a block and any file that one block of pointers can hold. Those of the CPU hold for any
widths of the registers and any size of the memory. The only hypotheses are the assumptions of the modules, which
say the kinds of the constants, and two named ones: `ALGORITMO = "FIFO"` where the
theorem says so, and `ProgramasAssumption` where it speaks of the owner of a file. TLC
checked each inductive invariant on the instances of section 4 before its proof.

| Module | Theorem | States |
|---|---|---|
| `PlanificadorProofs` | `InvarianteInductivo` | `IInv` |
| | `TiposCorrectos`, `ExclusionMutuaDeCpu`, `NingunDespertarPerdido`, `EsperasExactas` | `TypeOK`, `UnSoloProcesoEnCpu`, `SinDespertarPerdido`, `EsperasContadas` |
| | `SemaforosExactos` | `ConteosInv` |
| | `ImplementaElCicloDeVida` | `CicloDeVidaRespetado` (refinement) |
| (FIFO) | `InvarianteFifo` | `FifoInv` |
| | `ContextoPropio`, `NingunProcesoSePierde`, `NadieSacaDeNada`, `NingunProgramaRetrocede` | `ContextoDelEjecutado`, `NadieSePierde`, `NadieSacaDeColaVacia`, `ProgramaAvanza` (action property) |
| `KernelMemoriaProofs` | `InvarianteDelKernelConMemoria` | `KInv` |
| | `TiposDelKernelConMemoria`, `NingunaDireccionVieja`, `CadaHiloLeeLaSuya`, `LaCompactacionSoloOmiteNuevos`, `NoTocaPcbsLiberados` | `TipoKernelMemoria`, `DireccionesVigentes`, `RespuestaPropia`, `SoloFaltanSinRegistrar`, `PcbVivo` |
| `CerrojosProofs` | `FilasConsistentes` | `CerrojosInv`, of the abstract locks |
| `ArchivosProofs` | `InvarianteDeEstructura`, `InvarianteDeArchivos` | `EstructuraInv`, `ArchivosInv` |
| | `TiposDeArchivos`, `EnUnSoloLugar`, `LaCompactacionExcluye` | `TipoArchivos`, `UnSoloLugar`, `CompactacionExcluyeAccesos` |
| | `CaeSoloEnLaVentana`, `CadaUnoSuPuntero` | `SoloCaeEnLaVentana`, `PunteroPropio` |
| | `ImplementaLosCerrojos` | `CerrojosRespetados` (refinement) |
| `MemoriaProofs` | `TipoMemoriaSiempre`, `EspacioParticionadoSiempre`, `HuecosConsolidadosSiempre`, `TablasCoincidenSiempre` | `TipoMemoria`, `EspacioParticionado`, `HuecosConsolidados`, `TablasCoinciden` |
| | `AjusteSiempre` | `AjusteSegunAlgoritmo` (action property) |
| | `ImplementaElAlmacen` | `AlmacenRespetado` (refinement) |
| | `ConsolidaHuecos`, `LiberaTabla`, `Compacta` | what the operators of those names do to any lists |
| `FileSystemProofs` | `InvFileSystemSiempre` | `InvFileSystem`, with `TrasladoFiel` |
| | `TipoFileSystemSiempre`, `BitmapExactoSiempre`, `ReinicioSeguroSiempre`, `TrasladoFielSiempre` | `TipoFileSystem`, `BitmapExacto`, `ReinicioSeguro`, `TrasladoFiel` |
| | `AislamientoSiempre`, `TruncarConservaSiempre` | `AislamientoDeArchivos`, `TruncarConserva` (action properties) |
| | `EscribeBuffer` | what `EscribirBuffer` does to any list of distinct blocks |
| `CpuProofs` | `InvCpuSiempre` | `CpuInv` |
| | `TipoCpuSiempre`, `AccesosPropiosSiempre` | `TipoCpu`, `AccesosPropios` |
| | `MaquinaRespetadaSiempre` | `MaquinaRespetada` (refinement) |
| | `InstruccionesVuelven`, `LeeContexto` | a program and a context are read as they were written |

### The scheduler

The exclusion of the CPU is not inductive: it speaks of `cola_exec` and of the
contexts out of the Kernel, but what keeps a second process out is a token that
passes from `cpu_liberada` to the PCP, to `cola_exec`, to the thread about to
post. `IInv` says where the token is (`TestigoDeCpu`), that the context of a
process in `cola_exec` is in exactly one place (`ContextoEnUnLugar`), that
`proceso_enviado` has one post for it (`UnAvisoPorContexto`), that the pcb in a
thread's local variable is the one in the queue (`PcbsTomados`), and, so that the
moves find what they pop, that each queue holds distinct pcbs of its own state
(`ColasPorEstado`). `DespertaresContados` and `EsperasContadas` count the posts of
`sem_ready_proceso` and the waiters of a resource. There is one lemma per action;
`Marco` states which variables each part reads, so a lemma argues only about the
parts its action disturbs.

The life cycle needs, on top of `IInv`, what the other semaphores count
(`ConteosInv`): the posts of `sem_nuevo_proceso` and the processes in `cola_new`, those of
`sem_exit_proceso` and `cola_exit`, and that the places of the degree, those taken and
those being given back add up to it. `Efecto` lists the few ways in which the thirty
actions touch states, queues and those semaphores; each is a step of `CicloDeVida` or a
stutter, and the cardinalities of that module follow from `ConteosInv`.

`FifoInv` is what HRRN breaks: the head the PCP peeked is still the head when it pops
(`DespachaLaCabeza`), a process in READY is in `cola_ready` (`EnReady`), and no
context in the CPU or on its way back is behind its pcb (`ContextosAlDia`). The
hypothesis is the code's own configuration value, and it is needed: `hrrn_pierde` shows
`NadieSePierde` violated without it.

### The Kernel and Memoria

`DireccionesVigentes` compares three copies of a table that change at different times.
`KInv` says whose each message on the shared socket is and where its thread waits
(`Correo`), that `mutex_socket_memoria` is free or of one thread until it is unlocked once
too many (`UnDuenoDelSocket`), where the CPU's token is, the state each queue and each
local variable stands for, which processes Memoria has a table of (`TablasDeAdmitidos`)
and what the answers on their way will leave in each pcb. The last part is what makes it
inductive: a pcb may be behind Memoria, by just the answers that have not been read.
What goes wrong after an OUT_OF_MEMORY (a mutex released twice, a freed pcb) is in the
invariant as what it is: which steps must have come before.

### The open files

`EstructuraInv` needs nothing of the programs: where each process is (`LugarInv`), where
the token of the CPU is (`TurnoInv`), what the thread of the file system and the
FileSystem have in their hands (`HiloFsInv`), for what `puede_compactar` is taken
(`CompactarInv`), and that a file is added to the table once (`TablaInv`). Types, one
place per process and the exclusion of compaction and accesses follow. It is about
queues as sets without repetitions; the race of `pasar_a_cola_blocked` with the answer is
why a process may have a request and still be in `cola_exec`, in state EXEC. The invariant
relates what the thread of the file system has read to what is true by then: if it read
BLOCK, the process is still in BLOCK; if it read EXEC and the process is not in `cola_exec`,
the other thread has it in its hands or has left it in `cola_block` (`PedidoInv`). That is what
`SoloCaeEnLaVentana` says of the pop that fails (`YaSacado`, `CaeEnLaVentana`), and that it
takes out the right process otherwise (`PasoFsSaca`).

`DuenioInv` adds who has each file: an entry has exactly one owner, a closed file none
but the one whose F_OPEN is being answered, and the pointer of an entry is that of the
owner if it has done F_SEEK. It takes the ordered programs, because the Kernel learns the owner
from the programs alone: an F_CLOSE is obeyed whoever sends it. The refinement of the
locks follows step by step, and with it `FilasConsistentes` holds of the table of the Kernel,
not only of the abstract locks: nobody waits for a file that nobody has, for one that it
has itself, or in two places. There the hand-over keeps the last two only because the
queues are disjoint (`UnaSolaEspera`). Of the state in which a pop has failed the invariants
say only how it came to be: the model takes no step from it.

### Memoria

`EspacioParticionado` counts, for an address, the segments and the holes it is in.
`InvMemoria` says the same without counting, so that a request can be followed one list
at a time: `HuecosBien` (holes in order, none empty, no two touching), `SegmentosBien`
(segments inside the memory and apart) and that an address is in a hole exactly when it is
in no segment; together, `Particion`. `HuecosConsolidados` is a part of it and has to be:
`consolidar_huecos_contiguos` looks for one hole at each side and would leave a third one
touching, or join the wrong one, in a list out of order. `TablasBien` is the rest: the
list of live segments and the tables have no repetitions and are about the same segments,
and only segment 0, the one with id 0, is in two tables. Without it the space of a segment
could be given back twice.

`Particion` is said of any list of holes and any set of segments, not only of the ones
between two requests. In the middle of a request the space of some segments is free
already: `LiberaSegmento`, `OcupaHueco` and `DeslizaSegmento` say what freeing one,
creating one and sliding one do to it, the last one with the bytes. `ConsolidaHuecos` is
under the three.

`liberar_huecos_ocupados`, `destroy_elementos_tabla` and `compactar_memoria` walk a list of
any length: they are folds. The induction over the positions of the list is written out:
among the sets of positions where the claim would fail there is a least one
(`BuenOrden`, from the well-foundedness of the naturals), and the step before it
contradicts it. `Pliegue` and `PliegueDentro` state this once for any fold, with the step as
a function and the claim as a family of sets. What a fold computes, the total of
`MemoriaDisponible` for instance, is not needed: it decides only which refusal is answered.

`AjusteSiempre` follows because the holes of the list are exactly the maximal free
runs (`HuecosSonTramos`). The refinement maps each request to its operation on
`AlmacenDeSegmentos`: a write changes one segment because no two share an address, and a
compaction is a stutter because `Compacta` keeps every byte of every segment.

### The FileSystem

`BitmapExacto` counts the uses of each block. Its two halves fail separately while a
request is served: F_TRUNCATE takes a block, links it, writes the pointers and the FCB in
different steps, and a stop may come between any two of them. `InvFileSystem` says instead
where each block is. `Mapa` gives, for each file, the block in each of its places: 0 for the
direct one, -1 for the block of pointers, i for the i-th pointer. On a disk that
nothing has corrupted (`Sano`):

* each FCB agrees with its pointers (`BienFormado`): as many as its size says, and a
  block of pointers exactly when there is more than one block;
* no block is in two places (`Repartidos`), each one is reserved (`Reservados`), and
  unless the process has stopped before, no other is (`SinFugas`);
* the FCB on the disk is the one in memory for every file but the one whose F_TRUNCATE
  is being served;
* of that one, `PedidoBien`: what is still to be done and what the file has add up to a size
  the pointers can hold, the pointers in the hands of the request are those of the file
  unless they are about to be written, and, while it grows, the places that the disk
  gives it are among those it has in memory and have the same blocks.

The last part is why it is inductive across a stop: `ReinicioSeguro` and the values of a
file after a restart are about the FCB that nobody has written yet. `Tipos`, the other half
of the invariant, does not need a sound disk.

Every action does to `Mapa` one of three things: it takes away the last place (`AlMenguar`),
adds one with a block that was free (`AlCrecer`), or nothing; what that does to the
parts of `Sano` is proved once for each. F_WRITE and F_READ are folds over the blocks of a
file: `EscribeBuffer` says that a buffer written back over distinct blocks leaves its parts
in them and every other block alone, and `Aplana` that reading the blocks one after the
other gives the words in order; from both follow `TrasladoFiel` and that no other file
changes. `TrasladoFiel` speaks of the words of an access one by one: those in the first
block, whatever the access; those past it of an F_READ, unless the file has exactly two
blocks, and of an F_WRITE, if it has more words than a block (`Servida`). The rest are the ones the
code loses (`filesystem.c:608`, `770`), and nothing is claimed of them. `AislamientoSiempre` and `TruncarConservaSiempre` compare the words of a file
before and after a step: they follow from what the step does to its blocks, because
`Sano` keeps every other writer away from them.

### The CPU

What arrives is compared with what was sent first. A message is built by concatenation
and read at offsets, each one found from what is at the one before. `Aplanado` gives the
prefixes of a concatenation of any number of sequences, `TrozoAplanado` says that each
sequence is a stretch of the whole, and `Recorre` that the walk of
`deserializar_instrucciones` (`Iterar`) follows the starts of those stretches. These are
inductions over a position of the list, written out with the lemmas of `Pliegues`. From
them `Parametros`, `InstruccionesVuelven`, `TablaVuelve`, `RegistrosVuelven` and, of the
four together with the header of a packet, `LeeContexto`: the receiver has the context
that was sent, and the fields sent after it are still to be read.

The strings of the registers come next: `CopiaEntera` and `CopiaCortada` say what `strcpy`
and `strncpy` leave in a register that ends in NUL, and `SetearBien`, `ActualizarBien`,
`SetValorBien` what the copies from a context, to one and from an instruction do to the
strings. Only `Limpios` tells AX and BX from the others: after the string of a register
copied with `strncpy` there are only NULs. It is the part of the invariant that
`AccesosPropios` needs for MOV_OUT.

None of the three properties is inductive: each speaks of the CPU, of a message and of
a pcb, and nothing in it says that they are about one process. `CpuInv` does. `Turno`
says where the process in `cola_exec` is: its context is on its way to the CPU
(`Enviado`); it is in the CPU, which runs or waits for Memoria (`EnCpu`, `Lee`,
`Escribe`); it is on its way back, with the fields of its code (`Devuelto`); or nowhere,
because the Kernel has dropped its answer. In each place it has the program of its file,
the table of its pcb and registers that end in NUL, and a line left to run. `ColaBien`
says the last of those in `cola_ready` too, and that each is there once. The table is why
an address translated by the CPU is within a segment that the Kernel has: nothing changes
it while the process is out of the Kernel. (The compactions that others ask for are the
subject of `DireccionesVigentes`, in `KernelMemoria`.)

The refinement reads from `CpuInv` where the counter and the registers that
`MaquinaPropia` sees are (`LugaresBien`), in each of those places. A step in which the
process changes place moves them from one to another, and the round trips say that they
are the same; a step that runs a line changes them as the line says, and the strings of
the others do not change because no place is theirs (`OtroQuieto`). MOV_IN runs its line
when Memoria answers, so its counter is one behind while the CPU waits.

The assumptions: NUL is neither a number nor a byte of a string (`SerializacionAssumption`),
and the programs of a console are files that end with EXIT, name registers that exist and
give numbers that are not negative where a number is called for (`ArchivosAssumption`),
as those of `consola/` do. The rest of a file, its length and the values are any.

### Only model-checked

* Liveness, in all the modules: fairness and ENABLED are out of the prover's reach. That
  is `SoloEsperaPorRecursos`, `SoloEsperaPorArchivos`, `TodaConsolaTermina` and
  `TodoProgramaTermina`. The reading of fields the last one speaks of is proved as far as safety
  goes: `CpuInv` has nothing left on `socket_cpu` once an answer has been read.
* What the violation runs show, which is that a property is false.

## 6. Findings

1. `respuesta`: a console woken by its own pcb pops the head of `cola_exit`, which
   may be another's (`i_console.c:80`), and answers with that one's motive.
2. `hrrn_pierde`: the index of the insertion is computed without the mutex
   (`planificador_utils.c:239-258`); past the end, nothing is inserted and the
   process is lost.
3. `memoria_compactacion`: one pass in order of creation leaves holes between
   segments (`memoria_utils.c:466`); the creation is put off again and the Kernel
   locks `puede_compactar` twice.
4. `filesystem_indirecto`: `PUNTERO_INDIRECTO == NULL` cannot tell block 0 from
   none (`filesystem.c:663`); the block of pointers is created again and the data
   of the first is lost.

Other ways in which the Kernel or the CPU stop are not findings, because no text of the
repository says otherwise: they are steps of the models (`caido` of `KernelMemoria`,
`pcb_nulo` of `ArchivosAbiertos`, `EsperaSuCerrojo`, `PerdidoPorFRead`, `cpu = "caida"`), and
the properties say that there are no more. `pcb_ajeno`, in which the Kernel goes on with the
wrong process, is against the comment of `pasar_a_cola_ready`, "Quita el PCB de La cola
Actual, y lo pasa a la cola de READY" (`kernel/include/planificador_utils.h:111`), the same one
finding 2 is about: it is a second way to break it, without HRRN, and `SoloCaeEnLaVentana` says
when.

## 7. What is not modelled

* **Connections.** Accepting clients, handshakes, broken sockets and the client side of
  `shared.c`; a socket is a reliable queue of whole messages. That, the configuration
  and the start-up of the servers are why the accept loop of the Kernel, the server of
  Memoria, Consola and Shared are "partly". With them go logs and delays.
* **Text.** Splitting a line into words, case and spaces. A parameter is a number, a
  name or the letters of a value; a name of a register that does not exist and a
  negative address are left out.
* **Memory of the Kernel.** Lists corrupted by unlocked operations
  (`planificador_corto.c:47`, `planificador_utils.c:200`, the list of open files): the
  models take an operation on a list as one step. Two processes with one pid (`i_console.c:127`).
* **Time.** The timers of HRRN: the order they give is a choice.
* **F_OP_ERROR.** The Kernel handles it, the FileSystem never answers it: its guard
  (`filesystem.c:360`) cannot hold.
* **What follows a damaged state.** Segments of size or id 0, DELETE_SEGMENT of an id
  the process does not have, a full disk, an access to an empty file, a stop while a
  file shrinks: the models exclude the step, or take it, name it and go no further: the code
  uses memory, or blocks, that are not its own from there on, and nothing in the
  repository says what should hold then.
* **The executions** that the Kernel logs when a console ends.

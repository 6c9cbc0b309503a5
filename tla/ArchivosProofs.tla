--------------------------- MODULE ArchivosProofs ---------------------------
(***************************************************************************)
(* What ArchivosAbiertos promises, for every set of processes, files and   *)
(* ordered programs.  EstructuraInv says where each process is and what    *)
(* each thread has in its hands; DuenioInv says who has each file, and     *)
(* from it the locks of CerrojosDeArchivos are implemented.  The first one *)
(* needs nothing of the programs, the second one needs them to be ordered  *)
(* (ProgramasAssumption).  Once something has gone wrong (danio) neither   *)
(* says more than what it was: the model takes no step after that.         *)
(***************************************************************************)
EXTENDS ArchivosAbiertos, FiniteSetTheorems, SequenceTheorems, TLAPS

Bloqueantes == Accesos \cup {"F_TRUNCATE"}
SinRepetir(cola) == \A i, j \in DOMAIN cola : cola[i] = cola[j] => i = j
EnFila(p) == \E f \in Archivo : p \in Range(cola_bloqueados[f])
Encargado(c, p) == hilo_cpu.pc = c /\ hilo_cpu.pcb = p

\* The thread of the file system has taken the process out of its queue, or has seen it
\* in BLOCK.
Adelantado(p) == hilo_fs.pc = "apila" /\ hilo_fs.pcb = p
VistoBlock(p) == hilo_fs.visto = "BLOCK" /\ hilo_fs.pcb = p
SinSacar == {p \in Pedidos : ~Adelantado(p)}

\* The last line a process has done is in its program.
EnSuPrograma(p) == program_counter[p] \in 1..Len(programa[p])

\* Where the token of the CPU is: cpu_liberada, the CPU, or the thread.
EnManos == {"procesa", "espera_apertura", "pide_compactar", "compacta"}
Ejecuta ==
    IF en_cpu # NoProc THEN <<en_cpu>>
    ELSE IF \/ hilo_cpu.pc \in EnManos
            \/ hilo_cpu.pc = "saca" /\ hilo_cpu.pcb \in SinSacar
         THEN <<hilo_cpu.pcb>> ELSE <<>>

TurnoInv ==
    /\ cpu_liberada = IF en_cpu = NoProc /\ hilo_cpu.pc = "espera" THEN 1 ELSE 0
    /\ en_cpu # NoProc => hilo_cpu.pc = "espera"
    /\ cola_exec = Ejecuta
    /\ hilo_cpu.pc # "espera" => hilo_cpu.pcb \in Proc /\ EnSuPrograma(hilo_cpu.pcb)
    /\ hilo_cpu.pc = "espera_apertura" => InstruccionDe(hilo_cpu.pcb).codigo = "F_OPEN"
    /\ hilo_cpu.pc \in {"saca", "marca", "apila"} =>
           /\ InstruccionDe(hilo_cpu.pcb).codigo \in Bloqueantes
           /\ estado_actual[hilo_cpu.pcb] \notin {"NEW", "EXIT"}

\* What is true of a process in each place, and that it is in one of them.
ReadyInv(p) == p \in Range(cola_ready) =>
    /\ estado_actual[p] \in {"READY", "BLOCK"}
    /\ p \notin Range(cola_exec)
    /\ ~EnFila(p)
    /\ p \notin Pedidos

ExecInv(p) == p \in Range(cola_exec) => estado_actual[p] = "EXEC" /\ ~EnFila(p)

FilaInv(p) == \A f \in Archivo : p \in Range(cola_bloqueados[f]) =>
    /\ estado_actual[p] = "BLOCK"
    /\ cola_block[p] > 0
    /\ p \notin Pedidos
    /\ EnSuPrograma(p)
    /\ InstruccionDe(p) = [codigo |-> "F_OPEN", archivo |-> f]

PedidoInv(p) == p \in Pedidos =>
    /\ EnSuPrograma(p)
    /\ InstruccionDe(p).codigo \in Bloqueantes \cup {"F_OPEN"}
    /\ InstruccionDe(p).codigo = "F_OPEN" => Encargado("espera_apertura", p)
    /\ InstruccionDe(p).codigo # "F_OPEN" =>
           /\ estado_actual[p] = IF Encargado("saca", p) \/ Encargado("marca", p)
                                 THEN "EXEC" ELSE "BLOCK"
           /\ ~Encargado("espera_apertura", p)
           /\ VistoBlock(p) => estado_actual[p] = "BLOCK"
           /\ \/ estado_actual[p] = "EXEC" \/ Encargado("apila", p) \/ Adelantado(p)
              \/ cola_block[p] > 0

AlgunLugarInv(p) == estado_actual[p] \notin {"NEW", "EXIT"} =>
    \/ p \in Range(cola_ready) \/ p \in Range(cola_exec) \/ EnFila(p)
    \/ p \in Pedidos /\ Bloqueante(p)

LugarDe(p) ==
    /\ ReadyInv(p)
    /\ ExecInv(p)
    /\ FilaInv(p)
    /\ PedidoInv(p)
    /\ AlgunLugarInv(p)

LugarInv ==
    /\ SinRepetir(cola_ready)
    /\ \A p \in Proc : LugarDe(p)
    /\ \A f \in Archivo : SinRepetir(cola_bloqueados[f])

\* The thread of the file system, and what is between it and the FileSystem.
Contesta(codigo) ==
    CASE codigo = "F_OPEN" -> {"F_OPEN_OK", "F_NOT_EXISTS"}
      [] codigo = "F_TRUNCATE" -> {"F_TRUNCATE_OK"}
      [] codigo = "F_READ" -> {"F_READ_OK"}
      [] codigo = "F_WRITE" -> {"F_WRITE_OK"}
      [] codigo = "F_CREATE" -> {"F_OP_OK"}
      [] OTHER -> {}

Recibiendo == {"recibe", "recibe_creacion"}
Despertando == {"despierta", "apila"}

HiloFsInv ==
    /\ SinRepetir(cola_archivos)
    /\ hilo_fs.pc = "espera" <=> hilo_fs.pcb = NoProc
    /\ hilo_fs.pcb \notin Range(cola_archivos)
    /\ hilo_fs.pc \notin Recibiendo => pedido = SinPedido /\ respuesta = "NINGUNA"
    /\ hilo_fs.pc \in Despertando =>
         /\ InstruccionDe(hilo_fs.pcb).codigo \in Bloqueantes
         /\ hilo_fs.visto \in {"EXEC", "BLOCK"}
    /\ hilo_fs.pc \notin Despertando => hilo_fs.visto = "NADA"
    /\ hilo_fs.pc \in Recibiendo =>
         LET p == hilo_fs.pcb
             codigo == IF hilo_fs.pc = "recibe" THEN InstruccionDe(p).codigo ELSE "F_CREATE" IN
         /\ hilo_fs.pc = "recibe_creacion" => InstruccionDe(p).codigo = "F_OPEN"
         /\ pedido = SinPedido => respuesta \in Contesta(codigo)
         /\ pedido # SinPedido =>
               /\ respuesta = "NINGUNA"
               /\ pedido.codigo = codigo
               /\ pedido.pid = p
               /\ pedido.archivo = ArchivoDe(p)
    /\ f_open_done = IF hilo_cpu.pc = "espera_apertura" /\ hilo_cpu.pcb \notin Pedidos
                     THEN 1 ELSE 0

CompactarInv ==
    /\ puede_compactar <=> hilo_cpu.pc # "compacta" /\ AccesosEnCurso = {}
    /\ hilo_cpu.pc = "compacta" => AccesosEnCurso = {}
    /\ \A p, q \in AccesosEnCurso : p = q

\* The table has an entry of each file, added while nobody else asks for it.
AbreInv(p) ==
    p \in Pedidos /\ InstruccionDe(p).codigo = "F_OPEN" => ~Abierto(ArchivoDe(p))

TablaInv == SinRepetir(archivos_abiertos) /\ \A p \in Proc : AbreInv(p)

Partes == TurnoInv /\ LugarInv /\ HiloFsInv /\ CompactarInv /\ TablaInv

EstructuraInv ==
    /\ TipoArchivos
    /\ programa \in [Proc -> Programas]
    /\ danio = "ninguno" => Partes

\* Who has opened each file and not closed it: the owner, and the ones that wait.
Abrio(p, f) == Vigente(programa[p], Linea(p), "F_OPEN", f)

\* Who has each file.
DuenioDe(f) ==
    IF Abierto(f)
    THEN \E p \in Proc : /\ Tiene(p, f)
                         /\ \A q \in Proc : Tiene(q, f) => q = p
    ELSE /\ cola_bloqueados[f] = <<>>
         /\ \A p \in Proc : Tiene(p, f) => /\ Encargado("espera_apertura", p)
                                           /\ p \in Pedidos
                                           /\ ArchivoDe(p) = f

\* Whose the pointer of each entry is, and that a request carries it.
PunteroDe(p, f) == Abierto(f) /\ Tiene(p, f) /\ Busco(p, f) => puntero[f] = p
PunteroPedido == pedido.codigo \in Accesos => pedido.puntero = puntero[pedido.archivo]

DuenioInv ==
    /\ \A f \in Archivo : DuenioDe(f)
    /\ \A p \in Proc, f \in Archivo : PunteroDe(p, f)
    /\ PunteroPedido

ArchivosInv ==
    /\ EstructuraInv
    /\ danio = "ninguno" => DuenioInv
    /\ danio # "ninguno" => pedido = SinPedido
    /\ SoloCaeEnLaVentana

-----------------------------------------------------------------------------
(* Queues                                                                  *)

\* What each operation on a queue without repetitions does to who is in it.
LEMMA ColaVacia == Range(<<>>) = {} /\ SinRepetir(<<>>)
  BY DEF Range, SinRepetir

\* A queue of one process.
LEMMA ColaDeUno ==
  ASSUME NEW x
  PROVE  /\ Range(<<x>>) = {x} /\ <<x>> # <<>>
         /\ Head(<<x>>) = x /\ Tail(<<x>>) = <<>>
  BY DEF Range

\* list_add: who is in the queue, and that it is there once if it was not.
LEMMA ColaAgrega ==
  ASSUME NEW S, NEW s \in Seq(S), NEW x \in S
  PROVE  /\ Append(s, x) \in Seq(S)
         /\ Range(Append(s, x)) = Range(s) \cup {x}
         /\ SinRepetir(s) /\ x \notin Range(s) => SinRepetir(Append(s, x))
<1>1. /\ Append(s, x) \in Seq(S) /\ Len(Append(s, x)) = Len(s) + 1 /\ Len(s) \in Nat
      /\ Append(s, x)[Len(s) + 1] = x
      /\ \A i \in 1..Len(s) : Append(s, x)[i] = s[i]
  OBVIOUS
<1>4. DOMAIN Append(s, x) = 1..Len(Append(s, x)) /\ DOMAIN s = 1..Len(s)
  BY <1>1
<1>2. Range(Append(s, x)) = Range(s) \cup {x}
  BY <1>1, <1>4 DEF Range
<1>3. SinRepetir(s) /\ x \notin Range(s) => SinRepetir(Append(s, x))
  BY <1>1, <1>4 DEF Range, SinRepetir
<1>. QED
  BY <1>1, <1>2, <1>3

\* list_remove of the head.
LEMMA ColaSaca ==
  ASSUME NEW S, NEW s \in Seq(S), s # <<>>
  PROVE  /\ Head(s) \in S /\ Head(s) \in Range(s) /\ Tail(s) \in Seq(S)
         /\ Range(Tail(s)) \subseteq Range(s)
         /\ Range(s) = {Head(s)} \cup Range(Tail(s))
         /\ SinRepetir(s) => SinRepetir(Tail(s)) /\ Range(Tail(s)) = Range(s) \ {Head(s)}
<1>1. /\ Len(s) \in Nat /\ Len(s) > 0 /\ DOMAIN s = 1..Len(s)
      /\ Head(s) = s[1] /\ Head(s) \in S
      /\ Tail(s) \in Seq(S) /\ Len(Tail(s)) = Len(s) - 1
      /\ DOMAIN Tail(s) = 1..(Len(s) - 1)
      /\ \A i \in 1..(Len(s) - 1) : Tail(s)[i] = s[i + 1]
  OBVIOUS
<1>2. Head(s) \in Range(s)
  BY <1>1 DEF Range
<1>3. Range(Tail(s)) \subseteq Range(s)
  BY <1>1 DEF Range
<1>4. Range(s) = {Head(s)} \cup Range(Tail(s))
  <2>1. ASSUME NEW y \in Range(s), y # Head(s) PROVE y \in Range(Tail(s))
    <3>1. PICK i \in 1..Len(s) : s[i] = y
      BY <1>1, <2>1 DEF Range
    <3>2. i - 1 \in 1..(Len(s) - 1) /\ Tail(s)[i - 1] = y
      BY <3>1, <2>1, <1>1
    <3>. QED
      BY <3>2, <1>1 DEF Range
  <2>. QED
    BY <2>1, <1>2, <1>3
<1>5. SinRepetir(s) => SinRepetir(Tail(s))
  BY <1>1 DEF SinRepetir
<1>6. SinRepetir(s) => Head(s) \notin Range(Tail(s))
  BY <1>1 DEF SinRepetir, Range
<1>. QED
  BY <1>1, <1>2, <1>3, <1>4, <1>5, <1>6

\* list_remove_by_condition: the entry goes, and the others stay.
LEMMA ColaQuita ==
  ASSUME NEW S, NEW s \in Seq(S), NEW x, x \in Range(s), SinRepetir(s)
  PROVE  /\ RemoveFirst(s, x) \in Seq(S)
         /\ Range(RemoveFirst(s, x)) = Range(s) \ {x}
         /\ SinRepetir(RemoveFirst(s, x))
<1>. DEFINE n == SelectInSeq(s, LAMBDA v : v = x)
            t == RemoveFirst(s, x)
<1>1. /\ Len(s) \in Nat /\ DOMAIN s = 1..Len(s)
      /\ \E i \in 1..Len(s) : s[i] = x
      /\ \A i, j \in 1..Len(s) : s[i] = s[j] => i = j
  BY DEF Range, SinRepetir
<1>2. PICK m \in 1..Len(s) : s[m] = x
  BY <1>1
<1>3. {i \in 1..Len(s) : s[i] = x} = {m}
  BY <1>1, <1>2
<1>4. n = m
  <2>1. n = Min({m})
    BY <1>3 DEF SelectInSeq
  <2>. QED
    BY <2>1 DEF Min
<1>5. t = SubSeq(s, 1, m - 1) \o SubSeq(s, m + 1, Len(s))
  BY <1>1, <1>4 DEF RemoveFirst, RemoveAt
<1>. HIDE DEF n
<1>. DEFINE a == SubSeq(s, 1, m - 1)
            b == SubSeq(s, m + 1, Len(s))
<1>6. /\ a \in Seq(S) /\ Len(a) = m - 1
      /\ \A i \in 1..(m - 1) : a[i] = s[i]
  <2>1. \A i \in 1..(m - 1) : s[i] \in S
    BY <1>1, <1>2
  <2>. QED
    BY <1>1, <1>2, <2>1, SubSeqProperties
<1>7. /\ b \in Seq(S) /\ Len(b) = Len(s) - m
      /\ \A i \in 1..(Len(s) - m) : b[i] = s[i + m]
  <2>1. \A i \in (m + 1)..Len(s) : s[i] \in S
    BY <1>1, <1>2
  <2>2. /\ b \in Seq(S)
        /\ Len(b) = IF m + 1 <= Len(s) THEN Len(s) - (m + 1) + 1 ELSE 0
        /\ \A i \in 1..(Len(s) - (m + 1) + 1) : b[i] = s[m + 1 + i - 1]
    BY <1>1, <1>2, <2>1, SubSeqProperties
  <2>. HIDE DEF b
  <2>3. Len(b) = Len(s) - m
    <3>1. m \in Nat /\ Len(s) \in Nat /\ m <= Len(s)
      BY <1>1, <1>2
    <3>2. CASE m = Len(s)
      BY <3>1, <3>2, <2>2
    <3>3. CASE m + 1 <= Len(s)
      BY <3>1, <3>3, <2>2
    <3>. QED
      BY <3>1, <3>2, <3>3
  <2>4. ASSUME NEW i \in 1..(Len(s) - m) PROVE b[i] = s[i + m]
    <3>1. i \in 1..(Len(s) - (m + 1) + 1) /\ m + 1 + i - 1 = i + m
      BY <1>1, <1>2
    <3>. QED
      BY <3>1, <2>2
  <2>. QED
    BY <2>2, <2>3, <2>4
<1>8. t = a \o b
  BY <1>5
<1>. HIDE DEF a, b, t
<1>9. /\ t \in Seq(S) /\ Len(t) = Len(s) - 1 /\ DOMAIN t = 1..(Len(s) - 1)
      /\ \A i \in 1..(Len(s) - 1) : t[i] = IF i < m THEN s[i] ELSE s[i + 1]
  <2>1. /\ t \in Seq(S) /\ Len(t) = Len(a) + Len(b)
        /\ \A i \in 1..(Len(a) + Len(b)) :
              t[i] = IF i <= Len(a) THEN a[i] ELSE b[i - Len(a)]
    BY <1>6, <1>7, <1>8, ConcatProperties
  <2>2. Len(a) + Len(b) = Len(s) - 1
    BY <1>6, <1>7, <1>1, <1>2
  <2>3. ASSUME NEW i \in 1..(Len(s) - 1)
        PROVE  t[i] = IF i < m THEN s[i] ELSE s[i + 1]
    <3>1. CASE i < m
      BY <3>1, <2>1, <2>2, <1>6, <1>1, <1>2
    <3>2. CASE ~(i < m)
      <4>1. ~(i <= Len(a)) /\ i - Len(a) \in 1..(Len(s) - m) /\ (i - Len(a)) + m = i + 1
        BY <3>2, <1>6, <1>1, <1>2
      <4>2. b[i - Len(a)] = s[(i - Len(a)) + m]
        BY <4>1, <1>7
      <4>. QED
        BY <4>1, <4>2, <3>2, <2>1, <2>2
    <3>. QED
      BY <3>1, <3>2
  <2>4. DOMAIN t = 1..Len(t)
    BY <2>1
  <2>. QED
    BY <2>1, <2>2, <2>3, <2>4
<1>10. SinRepetir(t)
  BY <1>9, <1>1, <1>2 DEF SinRepetir
<1>11. \A y : y \in Range(t) => y \in Range(s) /\ y # x
  BY <1>9, <1>1, <1>2 DEF Range
<1>12. ASSUME NEW y \in Range(s), y # x PROVE y \in Range(t)
  <2>1. PICK i \in 1..Len(s) : s[i] = y
    BY <1>1 DEF Range
  <2>2. CASE i < m
    BY <2>1, <2>2, <1>9, <1>1, <1>2 DEF Range
  <2>3. CASE i > m
    <3>1. i - 1 \in 1..(Len(s) - 1) /\ t[i - 1] = y
      BY <2>1, <2>3, <1>9, <1>1, <1>2
    <3>. QED
      BY <3>1, <1>9 DEF Range
  <2>. QED
    BY <2>1, <2>2, <2>3, <1>2, <1>12
<1>. QED
  BY <1>9, <1>10, <1>11, <1>12 DEF t

-----------------------------------------------------------------------------
(* Facts of one state                                                      *)

PcsCpu == {"espera", "procesa", "espera_apertura", "saca", "marca", "apila",
           "pide_compactar", "compacta", "libera"}
PcsFs == {"espera", "recibe", "recibe_creacion", "despierta", "apila"}
Vistos == {"NADA", "EXEC", "BLOCK"}
Danios == {"ninguno", "entrada_nula", "pcb_nulo", "pcb_ajeno"}
Estados == {"NEW", "READY", "EXEC", "BLOCK", "EXIT"}

\* TipoArchivos, one variable at a time.
Llanos ==
    /\ programa \in [Proc -> Seq(Instruccion)] /\ program_counter \in [Proc -> Nat]
    /\ estado_actual \in [Proc -> Estados]
    /\ cola_ready \in Seq(Proc) /\ cola_exec \in Seq(Proc) /\ cola_archivos \in Seq(Proc)
    /\ cola_block \in [Proc -> Nat]
    /\ cpu_liberada \in Nat /\ request_file_system \in Nat /\ f_open_done \in Nat
    /\ en_cpu \in ProcONull
    /\ hilo_cpu \in [pc : PcsCpu, pcb : ProcONull]
    /\ hilo_cpu.pc \in PcsCpu /\ hilo_cpu.pcb \in ProcONull
    /\ archivos_abiertos \in Seq(Archivo)
    /\ cola_bloqueados \in [Archivo -> Seq(Proc)] /\ puntero \in [Archivo -> ProcONull]
    /\ puede_compactar \in BOOLEAN /\ danio \in Danios
    /\ hilo_fs \in [pc : PcsFs, pcb : ProcONull, visto : Vistos]
    /\ hilo_fs.pc \in PcsFs /\ hilo_fs.pcb \in ProcONull /\ hilo_fs.visto \in Vistos
    /\ pedido \in {SinPedido} \cup [codigo : DeArchivo \cup {"F_CREATE"}, archivo : Archivo,
                                    pid : Proc, puntero : ProcONull]
    /\ respuesta \in Respuestas
    /\ existentes \subseteq Archivo

\* The two ways to write the types say the same.
LEMMA TipoLlano == TipoArchivos <=> Llanos
  BY SMTT(30) DEF TipoArchivos, Llanos, PcsCpu, PcsFs, Vistos, Danios, Estados

\* And after a step.
LEMMA TipoLlanoPrima == TipoArchivos' <=> Llanos'
  BY SMTT(30) DEF TipoArchivos, Llanos, PcsCpu, PcsFs, Vistos, Danios, Estados

\* A line of a program is an instruction, of a file or of none.
LEMMA InstruccionTipo ==
  ASSUME TipoArchivos, NEW p \in Proc, EnSuPrograma(p)
  PROVE  /\ InstruccionDe(p) = [codigo |-> InstruccionDe(p).codigo, archivo |-> ArchivoDe(p)]
         /\ InstruccionDe(p) \in Instruccion
         /\ InstruccionDe(p).codigo \in DeArchivo => ArchivoDe(p) \in Archivo
<1>1. programa[p] \in Seq(Instruccion) /\ program_counter[p] \in 1..Len(programa[p])
  BY TipoLlano DEF Llanos, EnSuPrograma
<1>2. InstruccionDe(p) \in Instruccion
  BY <1>1 DEF InstruccionDe
<1>. QED
  BY <1>2 DEF Instruccion, ArchivoDe, DeArchivo, SinArchivo

\* Who is in cola_exec: nobody, or the one in the CPU, or the one in hand.
LEMMA QuienEjecuta ==
  ASSUME Llanos, TurnoInv, NEW p \in Proc
  PROVE  p \in Range(cola_exec) <=>
             \/ en_cpu = p
             \/ hilo_cpu.pcb = p /\ \/ hilo_cpu.pc \in EnManos
                                    \/ hilo_cpu.pc = "saca" /\ p \in SinSacar
<1>1. NoProc \notin Proc
  BY ConstantesAssumption
<1>2. CASE en_cpu # NoProc
  BY <1>1, <1>2, ColaDeUno DEF TurnoInv, Ejecuta, Llanos, EnManos
<1>3. CASE en_cpu = NoProc
  BY <1>1, <1>3, ColaDeUno, ColaVacia DEF TurnoInv, Ejecuta, Llanos, EnManos
<1>. QED
  BY <1>2, <1>3

\* A request comes from a process that runs or is blocked; one that runs is in the
\* hands of the thread, between the post and the change of state.
LEMMA PedidoEstado ==
  ASSUME Llanos, TurnoInv, NEW p \in Proc, LugarDe(p), p \in Pedidos
  PROVE  /\ estado_actual[p] \in {"EXEC", "BLOCK"}
         /\ en_cpu # p
         /\ hilo_cpu.pcb = p => hilo_cpu.pc \notin {"procesa", "pide_compactar", "compacta"}
         /\ ~EnFila(p)
<1>1. NoProc \notin Proc
  BY ConstantesAssumption
<1>2. p \in Range(cola_exec) => estado_actual[p] = "EXEC"
  BY DEF LugarDe, ExecInv
<1>3. en_cpu = p => p \in Range(cola_exec)
  BY QuienEjecuta
<1>4. hilo_cpu.pcb = p /\ hilo_cpu.pc \in EnManos => p \in Range(cola_exec)
  BY QuienEjecuta
<1>. QED
  BY <1>1, <1>2, <1>3, <1>4 DEF LugarDe, PedidoInv, FilaInv, EnFila, Encargado, TurnoInv,
     EnManos

\* A process a step does not touch.
Igual(p) ==
    /\ p \in Range(cola_ready') <=> p \in Range(cola_ready)
    /\ p \in Range(cola_exec') <=> p \in Range(cola_exec)
    /\ \A f \in Archivo : p \in Range(cola_bloqueados'[f]) <=> p \in Range(cola_bloqueados[f])
    /\ p \in Pedidos' <=> p \in Pedidos
    /\ estado_actual'[p] = estado_actual[p]
    /\ cola_block'[p] >= cola_block[p]
    /\ program_counter'[p] = program_counter[p]
    /\ programa'[p] = programa[p]
    /\ p \in Pedidos => /\ \A c \in {"espera_apertura", "saca", "marca", "apila"} :
                              Encargado(c, p)' <=> Encargado(c, p)
                        /\ Adelantado(p)' <=> Adelantado(p)
                        /\ VistoBlock(p)' <=> VistoBlock(p)

\* What is true of the place of a process stays, if the step does not touch it.
LEMMA Intacto ==
  ASSUME NEW p \in Proc, LugarDe(p), Igual(p), cola_block[p] \in Nat, cola_block'[p] \in Nat
  PROVE  LugarDe(p)'
<1>1. /\ InstruccionDe(p)' = InstruccionDe(p)
      /\ EnSuPrograma(p)' <=> EnSuPrograma(p)
  BY DEF Igual, InstruccionDe, EnSuPrograma
<1>2. Bloqueante(p)' <=> Bloqueante(p)
  BY <1>1 DEF Bloqueante
<1>3. EnFila(p)' <=> EnFila(p)
  BY DEF Igual, EnFila
<1>4. ReadyInv(p)'
  BY <1>3 DEF Igual, LugarDe, ReadyInv
<1>5. ExecInv(p)'
  BY <1>3 DEF Igual, LugarDe, ExecInv
<1>6. FilaInv(p)'
  BY <1>1 DEF Igual, LugarDe, FilaInv
<1>7. PedidoInv(p)'
  <2> SUFFICES ASSUME p \in Pedidos' PROVE PedidoInv(p)'
    BY DEF PedidoInv
  <2>1. p \in Pedidos /\ PedidoInv(p)
    BY DEF Igual, LugarDe
  <2>2. \A c \in {"espera_apertura", "saca", "marca", "apila"} :
            Encargado(c, p)' <=> Encargado(c, p)
    BY <2>1 DEF Igual
  <2>3. /\ Encargado("saca", p)' <=> Encargado("saca", p)
        /\ Encargado("marca", p)' <=> Encargado("marca", p)
        /\ Encargado("apila", p)' <=> Encargado("apila", p)
        /\ Encargado("espera_apertura", p)' <=> Encargado("espera_apertura", p)
    BY <2>2
  <2>4. /\ Adelantado(p)' <=> Adelantado(p)
        /\ VistoBlock(p)' <=> VistoBlock(p)
    BY <2>1 DEF Igual
  <2>5. /\ estado_actual'[p] = estado_actual[p]
        /\ cola_block[p] > 0 => cola_block'[p] > 0
    BY DEF Igual
  <2>. QED
    BY <1>1, <2>1, <2>3, <2>4, <2>5 DEF PedidoInv
<1>8. AlgunLugarInv(p)'
  BY <1>2, <1>3 DEF Igual, LugarDe, AlgunLugarInv
<1>. QED
  BY <1>4, <1>5, <1>6, <1>7, <1>8 DEF LugarDe

-----------------------------------------------------------------------------
(* The types                                                               *)

\* What the invariant says while the Kernel runs.
LEMMA Vivo ==
  ASSUME EstructuraInv, danio = "ninguno"
  PROVE  /\ Llanos /\ TurnoInv /\ LugarInv /\ HiloFsInv /\ CompactarInv /\ TablaInv
         /\ programa \in [Proc -> Programas]
         /\ \A p \in Proc : LugarDe(p)
         /\ NoProc \notin Proc
  BY TipoLlano, ConstantesAssumption DEF EstructuraInv, Partes, LugarInv

\* The two halves of the move to cola_ready keep the types.
LEMMA ApilaTipos ==
  ASSUME Llanos, NEW p \in Proc, ApilarEnReady(p)
  PROVE  cola_ready' \in Seq(Proc) /\ estado_actual' \in [Proc -> Estados]
  BY ColaAgrega DEF ApilarEnReady, Llanos, Estados

\* The one that takes the pcb out of cola_block.
LEMMA QuitaTipos ==
  ASSUME Llanos, NEW p \in Proc, QuitarDeBlock(p)
  PROVE  cola_block' \in [Proc -> Nat]
<1>1. cola_block[p] \in Nat
  BY DEF Llanos
<1>. DEFINE n == IF cola_block[p] > 0 THEN cola_block[p] - 1 ELSE 0
<1>2. n \in Nat
  BY <1>1
<1>3. cola_block' = [cola_block EXCEPT ![p] = n]
  BY DEF QuitarDeBlock
<1>. HIDE DEF n
<1>. QED
  BY <1>2, <1>3 DEF Llanos

\* The whole of it too.
LEMMA ReadyTipos ==
  ASSUME Llanos, NEW p \in Proc, PasarAColaReady(p)
  PROVE  /\ estado_actual' \in [Proc -> Estados]
         /\ cola_ready' \in Seq(Proc) /\ cola_exec' \in Seq(Proc)
         /\ cola_block' \in [Proc -> Nat]
         /\ danio' \in Danios
<1>1. CASE estado_actual[p] = "EXEC" /\ cola_exec = <<>>
  BY <1>1 DEF PasarAColaReady, colas, Llanos, Danios
<1>2. CASE ~(estado_actual[p] = "EXEC" /\ cola_exec = <<>>)
  <2> DEFINE q == IF estado_actual[p] = "EXEC" THEN Head(cola_exec) ELSE p
  <2>1. q \in Proc
    BY <1>2, ColaSaca DEF Llanos
  <2>2. /\ ApilarEnReady(q) /\ danio' = danio
        /\ cola_exec' = (IF estado_actual[p] = "EXEC" THEN Tail(cola_exec) ELSE cola_exec)
        /\ QuitarDeBlock(p) \/ UNCHANGED cola_block
    BY <1>2 DEF PasarAColaReady
  <2> HIDE DEF q
  <2>3. cola_ready' \in Seq(Proc) /\ estado_actual' \in [Proc -> Estados]
    BY <2>1, <2>2, ApilaTipos
  <2>4. cola_exec' \in Seq(Proc)
    BY <1>2, <2>2, ColaSaca DEF Llanos
  <2>5. cola_block' \in [Proc -> Nat]
    BY <2>2, QuitaTipos DEF Llanos
  <2>. QED
    BY <2>2, <2>3, <2>4, <2>5 DEF Llanos
<1>. QED
  BY <1>1, <1>2

\* The pop whose result is dropped keeps the type of cola_exec.
LEMMA ExecTipos == ASSUME Llanos PROVE DescartarExec \in Seq(Proc)
  BY ColaSaca DEF Llanos, DescartarExec

\* The actions of the schedulers and of the CPU.
LEMMA TiposPlanificadores ==
  ASSUME EstructuraInv, (\E p \in Proc : Admite(p)) \/ Despacha \/ CpuDevuelve
  PROVE  Llanos'
<1>0. danio = "ninguno"
  BY DEF Admite, Despacha, CpuDevuelve
<1>1. Llanos /\ NoProc \notin Proc
  BY <1>0, Vivo
<1>2. CASE \E p \in Proc : Admite(p)
  <2>1. PICK p \in Proc : Admite(p)
    BY <1>2
  <2>2. cola_ready' \in Seq(Proc)
    BY <2>1, <1>1, ColaAgrega DEF Admite, Llanos
  <2>. QED
    BY <2>1, <2>2, <1>1 DEF Admite, Llanos, Estados, cola_fs, tabla, servidor
<1>3. CASE Despacha
  <2>1. Head(cola_ready) \in Proc /\ Tail(cola_ready) \in Seq(Proc)
    BY <1>3, <1>1, ColaSaca DEF Despacha, Llanos
  <2>2. Append(cola_exec, Head(cola_ready)) \in Seq(Proc)
    BY <2>1, <1>1, ColaAgrega DEF Llanos
  <2>3. /\ cpu_liberada' \in Nat
        /\ estado_actual' \in [Proc -> Estados]
        /\ cola_ready' \in Seq(Proc) /\ cola_exec' \in Seq(Proc)
        /\ en_cpu' \in ProcONull
    BY <1>3, <2>1, <2>2, <1>1 DEF Despacha, Llanos, Estados, ProcONull
  <2>4. UNCHANGED <<programa, program_counter, cola_block, hilo_cpu, cola_fs, tabla,
                    puede_compactar, hilo_fs, servidor, danio>>
    BY <1>3 DEF Despacha
  <2>. QED
    BY <2>3, <2>4, <1>1 DEF Llanos, cola_fs, tabla, servidor
<1>4. CASE CpuDevuelve
  <2>1. Head(cola_exec) \in Proc
    BY <1>4, <1>1, ColaSaca DEF CpuDevuelve, Llanos
  <2>2. /\ hilo_cpu' \in [pc : PcsCpu, pcb : ProcONull]
        /\ hilo_cpu'.pc \in PcsCpu /\ hilo_cpu'.pcb \in ProcONull
        /\ en_cpu' \in ProcONull
    BY <1>4, <2>1 DEF CpuDevuelve, PcsCpu, ProcONull
  <2>4. program_counter' \in [Proc -> Nat]
    <3>1. program_counter' = [program_counter EXCEPT ![en_cpu] = program_counter[en_cpu] + 1]
      BY <1>4 DEF CpuDevuelve
    <3>2. program_counter \in [Proc -> Nat] /\ en_cpu \in Proc
      BY <1>1, <1>4 DEF Llanos, ProcONull, CpuDevuelve
    <3>. QED
      BY <3>1, <3>2
  <2>3. UNCHANGED <<programa, estado_actual, colas, cpu_liberada, cola_fs, tabla,
                    puede_compactar, hilo_fs, servidor, danio>>
    BY <1>4 DEF CpuDevuelve
  <2>. QED
    BY <2>2, <2>3, <2>4, <1>1 DEF Llanos, colas, cola_fs, tabla, servidor
<1>. QED
  BY <1>2, <1>3, <1>4

\* The actions of the thread of the answers of the CPU.
LEMMA TiposRespuestaCpu ==
  ASSUME EstructuraInv, ManejarRespuestaCpu
  PROVE  Llanos'
<1> USE DEF Procesa, procesos, colas, cola_fs, tabla, servidor
<1>0. danio = "ninguno"
  BY DEF ManejarRespuestaCpu, EjecutarFOpenCerrado, HiloCpuAbierto, EjecutarFOpenAbierto,
     EjecutarFClose, EjecutarFSeek, ProcesarAcceso, ProcesarFTruncate, HiloCpuSaca,
     HiloCpuMarca, HiloCpuApila, ProcesarCreateSegment, PedirCompactacion, Compactado,
     ProcesarYield, ProcesarExit, HiloCpuLibera
<1>1. Llanos /\ NoProc \notin Proc
  BY <1>0, Vivo
<1> DEFINE p == hilo_cpu.pcb
           f == ArchivoDe(p)
<1>2. hilo_cpu.pc # "espera" => p \in Proc /\ EnSuPrograma(p)
  BY <1>0, Vivo DEF TurnoInv
<1>3. hilo_cpu.pc # "espera" /\ InstruccionDe(p).codigo \in DeArchivo => f \in Archivo
  BY <1>1, <1>2, TipoLlano, InstruccionTipo
<1>4. DescartarExec \in Seq(Proc)
  BY <1>1, ExecTipos
<1>5. p \in Proc => Append(cola_archivos, p) \in Seq(Proc)
  BY <1>1, ColaAgrega DEF Llanos
<1> HIDE DEF p, f
<1>6. ASSUME NEW c \in PcsCpu, hilo_cpu' = [hilo_cpu EXCEPT !.pc = c]
      PROVE  /\ hilo_cpu' \in [pc : PcsCpu, pcb : ProcONull]
             /\ hilo_cpu'.pc \in PcsCpu /\ hilo_cpu'.pcb \in ProcONull
  BY <1>1, <1>6 DEF Llanos
<1>7. CASE EjecutarFOpenCerrado
  BY <1>7, <1>1, <1>2, <1>5, <1>6 DEF EjecutarFOpenCerrado, EncolarPedido, Llanos, PcsCpu, p
<1>8. CASE HiloCpuAbierto
  <2>1. f_open_done' \in Nat /\ en_cpu' \in ProcONull
    BY <1>8, <1>1, <1>2 DEF HiloCpuAbierto, Llanos, ProcONull, p
  <2>2. /\ hilo_cpu' = [hilo_cpu EXCEPT !.pc = "espera"]
        /\ UNCHANGED <<procesos, colas, cpu_liberada, cola_archivos, request_file_system,
                       tabla, puede_compactar, hilo_fs, servidor, danio>>
    BY <1>8 DEF HiloCpuAbierto
  <2>. QED
    BY <2>1, <2>2, <1>1, <1>6 DEF Llanos, PcsCpu
<1>9. CASE EjecutarFOpenAbierto
  <2>1. p \in Proc /\ f \in Archivo
    BY <1>9, <1>2, <1>3 DEF EjecutarFOpenAbierto, DeArchivo, p, f
  <2>2. Append(cola_bloqueados[f], p) \in Seq(Proc)
    BY <2>1, <1>1, ColaAgrega DEF Llanos
  <2>3. cola_bloqueados' \in [Archivo -> Seq(Proc)]
    BY <1>9, <2>1, <2>2, <1>1 DEF EjecutarFOpenAbierto, Llanos, p, f
  <2>4. /\ cola_exec' \in Seq(Proc)
        /\ estado_actual' \in [Proc -> Estados]
        /\ cola_block' \in [Proc -> Nat]
    BY <1>9, <2>1, <1>1, <1>4
    DEF EjecutarFOpenAbierto, PasarAColaBlocked, Llanos, Estados, p
  <2>5. /\ hilo_cpu' = [hilo_cpu EXCEPT !.pc = "libera"]
        /\ UNCHANGED <<programa, program_counter, cpu_liberada, hilo_fs, servidor,
                       cola_ready, en_cpu, cola_fs, archivos_abiertos, puntero,
                       puede_compactar, danio>>
    BY <1>9 DEF EjecutarFOpenAbierto, PasarAColaBlocked
  <2>. QED
    BY <2>3, <2>4, <2>5, <1>1, <1>6 DEF Llanos, PcsCpu
<1>10. CASE EjecutarFClose
  <2>1. p \in Proc /\ f \in Archivo
    BY <1>10, <1>2, <1>3 DEF EjecutarFClose, DeArchivo, p, f
  <2>2. /\ hilo_cpu' = [hilo_cpu EXCEPT !.pc = "espera"] /\ en_cpu' = p
        /\ UNCHANGED <<programa, program_counter, cpu_liberada, hilo_fs, servidor, cola_fs,
                       puntero, puede_compactar>>
    BY <1>10 DEF EjecutarFClose, p
  <2>3. CASE /\ UNCHANGED <<estado_actual, colas, cola_bloqueados, danio>>
             /\ archivos_abiertos' \in Seq(Archivo)
    BY <2>1, <2>2, <2>3, <1>1, <1>6 DEF Llanos, PcsCpu, ProcONull
  <2>4. CASE ~Abierto(f)
    BY <2>3, <2>4, <1>10, <1>1 DEF EjecutarFClose, Llanos, p, f
  <2>5. CASE Abierto(f) /\ cola_bloqueados[f] = <<>>
    <3>1. /\ archivos_abiertos' = RemoveFirst(archivos_abiertos, f)
          /\ UNCHANGED <<estado_actual, colas, cola_bloqueados, danio>>
      BY <2>5, <1>10 DEF EjecutarFClose, p, f
    <3>2. RemoveFirst(archivos_abiertos, f) \in Seq(Archivo)
      BY <1>0, <1>1, <2>5, Vivo, ColaQuita DEF Llanos, TablaInv, Abierto
    <3>. QED
      BY <3>1, <3>2, <2>3
  <2>6. CASE Abierto(f) /\ cola_bloqueados[f] # <<>>
    <3> DEFINE q == Head(cola_bloqueados[f])
    <3>1. /\ cola_bloqueados' = [cola_bloqueados EXCEPT ![f] = Tail(@)]
          /\ PasarAColaReady(q) \/ (danio' = "pcb_nulo" /\ UNCHANGED <<estado_actual, colas>>)
          /\ UNCHANGED archivos_abiertos
      BY <2>6, <1>10 DEF EjecutarFClose, p, f
    <3>2. q \in Proc /\ Tail(cola_bloqueados[f]) \in Seq(Proc)
      BY <2>6, <2>1, <1>1, ColaSaca DEF Llanos
    <3>3. cola_bloqueados' \in [Archivo -> Seq(Proc)]
      BY <3>1, <3>2, <2>1, <1>1 DEF Llanos
    <3>4. /\ estado_actual' \in [Proc -> Estados]
          /\ cola_ready' \in Seq(Proc) /\ cola_exec' \in Seq(Proc)
          /\ cola_block' \in [Proc -> Nat]
          /\ danio' \in Danios
      BY <3>1, <3>2, <1>1, ReadyTipos DEF Llanos, Danios
    <3>. QED
      BY <2>1, <2>2, <3>1, <3>3, <3>4, <1>1, <1>6 DEF Llanos, PcsCpu, ProcONull
  <2>. QED
    BY <2>4, <2>5, <2>6
<1>11. CASE EjecutarFSeek
  <2>1. p \in Proc /\ f \in Archivo
    BY <1>11, <1>2, <1>3 DEF EjecutarFSeek, DeArchivo, p, f
  <2>2. puntero' \in [Archivo -> ProcONull]
    BY <1>11, <2>1, <1>1 DEF EjecutarFSeek, Llanos, ProcONull, p, f
  <2>3. /\ hilo_cpu' = [hilo_cpu EXCEPT !.pc = "espera"]
        /\ en_cpu' = p
        /\ UNCHANGED <<programa, program_counter, cpu_liberada, hilo_fs, servidor,
                       estado_actual, colas, cola_fs, archivos_abiertos, cola_bloqueados,
                       puede_compactar, danio>>
    BY <1>11 DEF EjecutarFSeek, p
  <2>. QED
    BY <2>1, <2>2, <2>3, <1>1, <1>6 DEF Llanos, PcsCpu, ProcONull
<1>12. CASE ProcesarAcceso
  <2>4. p \in Proc /\ danio \in Danios
    BY <1>12, <1>1, <1>2 DEF ProcesarAcceso, Llanos
  <2>5. \/ danio' = "entrada_nula" /\ UNCHANGED cola_fs
        \/ EncolarPedido(p) /\ UNCHANGED danio
    BY <1>12 DEF ProcesarAcceso, p
  <2>1. /\ cola_archivos' \in Seq(Proc)
        /\ request_file_system' \in Nat /\ f_open_done' \in Nat
    <3>1. CASE UNCHANGED cola_fs
      BY <3>1, <1>1 DEF Llanos
    <3>2. CASE EncolarPedido(p)
      BY <3>2, <2>4, <1>1, <1>5 DEF EncolarPedido, Llanos
    <3>. QED
      BY <2>5, <3>1, <3>2
  <2>6. puede_compactar' \in BOOLEAN
    BY <1>12 DEF ProcesarAcceso
  <2>7. danio' \in Danios
    <3>1. danio' = "entrada_nula" \/ danio' = danio
      BY <2>5
    <3>. QED
      BY <2>4, <3>1 DEF Danios
  <2>2. /\ hilo_cpu' = [hilo_cpu EXCEPT !.pc = "saca"]
        /\ UNCHANGED <<programa, program_counter, cpu_liberada, hilo_fs, servidor,
                       estado_actual, colas, en_cpu, tabla>>
    BY <1>12 DEF ProcesarAcceso
  <2>. QED
    BY <2>1, <2>2, <2>6, <2>7, <1>1, <1>6 DEF Llanos, PcsCpu
<1>13. CASE ProcesarFTruncate
  <2>1. /\ EncolarPedido(p) /\ p \in Proc
        /\ hilo_cpu' = [hilo_cpu EXCEPT !.pc = "saca"]
        /\ UNCHANGED <<programa, program_counter, cpu_liberada, hilo_fs, servidor,
                       estado_actual, colas, en_cpu, tabla, puede_compactar, danio>>
    BY <1>13, <1>2 DEF ProcesarFTruncate, p
  <2>2. cola_archivos' \in Seq(Proc) /\ request_file_system' \in Nat /\ f_open_done' \in Nat
    BY <2>1, <1>1, <1>5 DEF EncolarPedido, Llanos
  <2>. QED
    BY <2>1, <2>2, <1>1, <1>6 DEF Llanos, PcsCpu
<1>14. CASE HiloCpuSaca
  BY <1>14, <1>1, <1>4, <1>6 DEF HiloCpuSaca, Llanos, PcsCpu
<1>15. CASE HiloCpuMarca
  BY <1>15, <1>1, <1>2, <1>6 DEF HiloCpuMarca, Llanos, PcsCpu, Estados, p
<1>16. CASE HiloCpuApila
  BY <1>16, <1>1, <1>2, <1>6 DEF HiloCpuApila, Llanos, PcsCpu, p
<1>17. CASE ProcesarCreateSegment
  BY <1>17, <1>1, <1>2, <1>6 DEF ProcesarCreateSegment, Llanos, PcsCpu, ProcONull, p
<1>18. CASE PedirCompactacion \/ Compactado
  BY <1>18, <1>1, <1>2, <1>6 DEF PedirCompactacion, Compactado, Llanos, PcsCpu, ProcONull, p
<1>19. CASE ProcesarYield
  <2>1. p \in Proc
    BY <1>19, <1>2 DEF ProcesarYield
  <2>2. /\ estado_actual' \in [Proc -> Estados]
        /\ cola_ready' \in Seq(Proc) /\ cola_exec' \in Seq(Proc)
        /\ cola_block' \in [Proc -> Nat]
        /\ danio' \in Danios
    BY <1>19, <2>1, <1>1, ReadyTipos DEF ProcesarYield, p
  <2>. QED
    BY <1>19, <2>2, <1>1, <1>6 DEF ProcesarYield, Llanos, PcsCpu
<1>20. CASE ProcesarExit
  BY <1>20, <1>1, <1>2, <1>4, <1>6 DEF ProcesarExit, Llanos, PcsCpu, Estados, p
<1>21. CASE HiloCpuLibera
  BY <1>21, <1>1 DEF HiloCpuLibera, Llanos, PcsCpu, ProcONull
<1>. QED
  BY <1>7, <1>8, <1>9, <1>10, <1>11, <1>12, <1>13, <1>14, <1>15, <1>16, <1>17, <1>18, <1>19,
     <1>20, <1>21 DEF ManejarRespuestaCpu

\* The one whose request the thread of the file system has, or takes next.
LEMMA QuienPide ==
  ASSUME EstructuraInv, danio = "ninguno", NEW p, p \in Pedidos
  PROVE  /\ p \in Proc /\ EnSuPrograma(p) /\ LugarDe(p)
         /\ InstruccionDe(p).codigo \in Bloqueantes \cup {"F_OPEN"}
         /\ InstruccionDe(p).codigo \in DeArchivo
         /\ ArchivoDe(p) \in Archivo
         /\ InstruccionDe(p) = [codigo |-> InstruccionDe(p).codigo, archivo |-> ArchivoDe(p)]
<1>1. p \in Proc
  <2>1. cola_archivos \in Seq(Proc) /\ hilo_fs.pcb \in ProcONull
    BY Vivo DEF Llanos
  <2>2. \A q \in Range(cola_archivos) : q \in Proc
    BY <2>1 DEF Range
  <2>. QED
    BY <2>1, <2>2 DEF Pedidos, ProcONull
<1>2. LugarDe(p)
  BY <1>1, Vivo
<1>3. EnSuPrograma(p) /\ InstruccionDe(p).codigo \in Bloqueantes \cup {"F_OPEN"}
  BY <1>2 DEF LugarDe, PedidoInv
<1>4. InstruccionDe(p).codigo \in DeArchivo
  BY <1>3 DEF Bloqueantes, Accesos, DeArchivo
<1>5. TipoArchivos
  BY DEF EstructuraInv
<1>. QED
  BY <1>1, <1>2, <1>3, <1>4, <1>5, InstruccionTipo

\* A thread of the file system that is busy has a request, which left the queue.
LEMMA QuienAtiende ==
  ASSUME EstructuraInv, danio = "ninguno", hilo_fs.pc # "espera"
  PROVE  /\ hilo_fs.pcb \in Pedidos /\ hilo_fs.pcb # NoProc
         /\ hilo_fs.pcb \notin Range(cola_archivos)
  BY Vivo DEF HiloFsInv, Pedidos

\* The next request, of an idle thread.
LEMMA QuienSigue ==
  ASSUME EstructuraInv, danio = "ninguno", hilo_fs.pc = "espera", cola_archivos # <<>>
  PROVE  /\ Head(cola_archivos) \in Pedidos
         /\ Pedidos = Range(cola_archivos)
         /\ Tail(cola_archivos) \in Seq(Proc) /\ SinRepetir(Tail(cola_archivos))
         /\ Range(Tail(cola_archivos)) = Range(cola_archivos) \ {Head(cola_archivos)}
<1>1. cola_archivos \in Seq(Proc)
  BY Vivo DEF Llanos
<1>2. SinRepetir(cola_archivos) /\ hilo_fs.pcb = NoProc
  BY Vivo DEF HiloFsInv
<1>3. Pedidos = Range(cola_archivos)
  BY <1>2 DEF Pedidos
<1>. QED
  BY <1>1, <1>2, <1>3, ColaSaca

\* The actions of the thread of the file system and of the FileSystem.
LEMMA TiposFileSystem ==
  ASSUME EstructuraInv, ProcesarFileSystem \/ AtenderRequest
  PROVE  Llanos'
<1> USE DEF procesos, colas, cola_fs, tabla, servidor
<1>0. danio = "ninguno"
  BY DEF ProcesarFileSystem, ProcesarRequestFs, RecibirNoExiste, RecibirCreado,
     RecibirAbierto, RecibirTruncado, RecibirAcceso, Recibe, HiloFsSaca, HiloFsApila,
     AtenderRequest
<1>1. Llanos /\ NoProc \notin Proc
  BY <1>0, Vivo
<1> DEFINE h == hilo_fs.pcb
<1>2. hilo_fs.pc # "espera" => h \in Proc /\ ArchivoDe(h) \in Archivo
  BY <1>0, QuienAtiende, QuienPide
<1>3. ASSUME NEW c \in DeArchivo \cup {"F_CREATE"}, NEW p \in Proc, NEW f \in Archivo,
             Enviar(c, p, f)
      PROVE  pedido' \in [codigo : DeArchivo \cup {"F_CREATE"}, archivo : Archivo,
                          pid : Proc, puntero : ProcONull]
  <2>1. puntero[f] \in ProcONull
    BY <1>1 DEF Llanos
  <2>. QED
    BY <1>3, <2>1 DEF Enviar
<1>4. ASSUME NEW c \in PcsFs, NEW q \in ProcONull, NEW v \in Vistos,
             hilo_fs' = [pc |-> c, pcb |-> q, visto |-> v]
      PROVE  /\ hilo_fs' \in [pc : PcsFs, pcb : ProcONull, visto : Vistos]
             /\ hilo_fs'.pc \in PcsFs /\ hilo_fs'.pcb \in ProcONull
             /\ hilo_fs'.visto \in Vistos
  BY <1>4
<1>5. hilo_fs = [pc |-> hilo_fs.pc, pcb |-> h, visto |-> hilo_fs.visto]
      /\ h \in ProcONull /\ hilo_fs.visto \in Vistos
  BY <1>1 DEF Llanos
<1>6. "NINGUNA" \in Respuestas
  BY DEF Respuestas
<1> HIDE DEF h
<1>7. CASE ProcesarRequestFs
  <2> DEFINE p == Head(cola_archivos)
             i == InstruccionDe(p)
  <2>1. p \in Pedidos /\ Tail(cola_archivos) \in Seq(Proc)
    BY <1>0, <1>7, QuienSigue DEF ProcesarRequestFs
  <2>2. p \in Proc /\ i.codigo \in DeArchivo /\ i.archivo \in Archivo
    BY <1>0, <2>1, QuienPide DEF ArchivoDe
  <2>3. \/ danio' = "entrada_nula" /\ UNCHANGED pedido
        \/ Enviar(i.codigo, p, i.archivo) /\ UNCHANGED danio
    BY <1>7 DEF ProcesarRequestFs
  <2>4. /\ hilo_fs' = [pc |-> "recibe", pcb |-> p, visto |-> "NADA"]
        /\ cola_archivos' = Tail(cola_archivos)
        /\ request_file_system > 0 /\ request_file_system' = request_file_system - 1
        /\ UNCHANGED <<procesos, colas, cpu_liberada, en_cpu, hilo_cpu, f_open_done, tabla,
                       puede_compactar, respuesta, existentes>>
    BY <1>7 DEF ProcesarRequestFs
  <2> HIDE DEF p, i
  <2>5. /\ hilo_fs' \in [pc : PcsFs, pcb : ProcONull, visto : Vistos]
        /\ hilo_fs'.pc \in PcsFs /\ hilo_fs'.pcb \in ProcONull /\ hilo_fs'.visto \in Vistos
    BY <2>2, <2>4, <1>4 DEF PcsFs, ProcONull, Vistos
  <2>6. pedido' \in {SinPedido} \cup [codigo : DeArchivo \cup {"F_CREATE"}, archivo : Archivo,
                                      pid : Proc, puntero : ProcONull]
    BY <2>2, <2>3, <1>1, <1>3 DEF Llanos
  <2>7. danio' \in Danios
    <3>1. danio' = "entrada_nula" \/ danio' = danio
      BY <2>3
    <3>2. danio \in Danios
      BY <1>1 DEF Llanos
    <3>. QED
      BY <3>1, <3>2 DEF Danios
  <2>8. cola_archivos' \in Seq(Proc) /\ request_file_system' \in Nat
    BY <2>1, <2>4, <1>1 DEF Llanos
  <2>. QED
    BY <2>4, <2>5, <2>6, <2>7, <2>8, <1>1 DEF Llanos
<1>8. CASE RecibirNoExiste
  <2>1. /\ hilo_fs.pc = "recibe" /\ respuesta' = "NINGUNA"
        /\ hilo_fs' = [hilo_fs EXCEPT !.pc = "recibe_creacion"]
        /\ Enviar("F_CREATE", h, ArchivoDe(h))
        /\ UNCHANGED <<programa, program_counter, cpu_liberada, en_cpu, hilo_cpu, cola_archivos,
                       request_file_system, cola_bloqueados, existentes>>
        /\ UNCHANGED <<estado_actual, colas, f_open_done, archivos_abiertos, puntero,
                       puede_compactar, danio>>
    BY <1>8 DEF RecibirNoExiste, Recibe, h
  <2>2. pedido' \in {SinPedido} \cup [codigo : DeArchivo \cup {"F_CREATE"}, archivo : Archivo,
                                      pid : Proc, puntero : ProcONull]
    BY <2>1, <1>2, <1>3
  <2>3. /\ hilo_fs' \in [pc : PcsFs, pcb : ProcONull, visto : Vistos]
        /\ hilo_fs'.pc \in PcsFs /\ hilo_fs'.pcb \in ProcONull /\ hilo_fs'.visto \in Vistos
    BY <2>1, <1>5 DEF PcsFs
  <2>. QED
    BY <2>1, <2>2, <2>3, <1>1, <1>6 DEF Llanos
<1>9. CASE RecibirCreado
  <2>1. /\ hilo_fs.pc = "recibe_creacion" /\ respuesta' = "NINGUNA"
        /\ hilo_fs' = [hilo_fs EXCEPT !.pc = "recibe"]
        /\ Enviar("F_OPEN", h, ArchivoDe(h))
        /\ UNCHANGED <<programa, program_counter, cpu_liberada, en_cpu, hilo_cpu, cola_archivos,
                       request_file_system, cola_bloqueados, existentes>>
        /\ UNCHANGED <<estado_actual, colas, f_open_done, archivos_abiertos, puntero,
                       puede_compactar, danio>>
    BY <1>9 DEF RecibirCreado, Recibe, h
  <2>2. pedido' \in {SinPedido} \cup [codigo : DeArchivo \cup {"F_CREATE"}, archivo : Archivo,
                                      pid : Proc, puntero : ProcONull]
    BY <2>1, <1>2, <1>3 DEF DeArchivo
  <2>3. /\ hilo_fs' \in [pc : PcsFs, pcb : ProcONull, visto : Vistos]
        /\ hilo_fs'.pc \in PcsFs /\ hilo_fs'.pcb \in ProcONull /\ hilo_fs'.visto \in Vistos
    BY <2>1, <1>5 DEF PcsFs
  <2>. QED
    BY <2>1, <2>2, <2>3, <1>1, <1>6 DEF Llanos
<1>10. CASE RecibirAbierto
  <2> DEFINE f == ArchivoDe(h)
  <2>1. /\ hilo_fs.pc = "recibe" /\ respuesta' = "NINGUNA" /\ hilo_fs' = Ocioso
        /\ archivos_abiertos' = Append(archivos_abiertos, f)
        /\ puntero' = IF Abierto(f) THEN puntero ELSE [puntero EXCEPT ![f] = NoProc]
        /\ f_open_done' = f_open_done + 1
        /\ UNCHANGED <<programa, program_counter, cpu_liberada, en_cpu, hilo_cpu, cola_archivos,
                       request_file_system, cola_bloqueados, existentes>>
        /\ UNCHANGED <<estado_actual, colas, pedido, puede_compactar, danio>>
    BY <1>10 DEF RecibirAbierto, Recibe, h
  <2>2. f \in Archivo
    BY <2>1, <1>2
  <2> HIDE DEF f
  <2>3. archivos_abiertos' \in Seq(Archivo)
    BY <2>1, <2>2, <1>1, ColaAgrega DEF Llanos
  <2>4. puntero' \in [Archivo -> ProcONull]
    BY <2>1, <2>2, <1>1 DEF Llanos, ProcONull
  <2>5. f_open_done' \in Nat
    BY <2>1, <1>1 DEF Llanos
  <2>6. /\ hilo_fs' \in [pc : PcsFs, pcb : ProcONull, visto : Vistos]
        /\ hilo_fs'.pc \in PcsFs /\ hilo_fs'.pcb \in ProcONull /\ hilo_fs'.visto \in Vistos
    BY <2>1, <1>4 DEF Ocioso, PcsFs, ProcONull, Vistos
  <2>. QED
    BY <2>1, <2>3, <2>4, <2>5, <2>6, <1>1, <1>6 DEF Llanos
<1>11. CASE RecibirTruncado \/ RecibirAcceso
  <2>1. /\ hilo_fs.pc = "recibe" /\ respuesta' = "NINGUNA" /\ hilo_fs' = Despierta
        /\ Despertar(h)
        /\ UNCHANGED <<programa, program_counter, cpu_liberada, en_cpu, hilo_cpu, cola_archivos,
                       request_file_system, cola_bloqueados, existentes>>
        /\ UNCHANGED <<estado_actual, colas, f_open_done, archivos_abiertos, puntero, pedido>>
    BY <1>11 DEF RecibirTruncado, RecibirAcceso, Recibe, Despertar, h
  <2>2. puede_compactar' \in BOOLEAN
    BY <1>11, <1>1 DEF RecibirTruncado, RecibirAcceso, Llanos
  <2>3. danio' \in Danios
    BY <2>1, <1>1 DEF Despertar, Llanos, Danios
  <2>4. /\ hilo_fs' \in [pc : PcsFs, pcb : ProcONull, visto : Vistos]
        /\ hilo_fs'.pc \in PcsFs /\ hilo_fs'.pcb \in ProcONull /\ hilo_fs'.visto \in Vistos
    <3>1. h \in Pedidos
      BY <1>0, <2>1, QuienAtiende DEF h
    <3>2. estado_actual[h] \in {"EXEC", "BLOCK"}
      BY <1>0, <1>2, <2>1, <3>1, Vivo, PedidoEstado
    <3>3. hilo_fs' = [pc |-> "despierta", pcb |-> h, visto |-> estado_actual[h]]
      BY <2>1, <1>5 DEF Despierta, h
    <3>. QED
      BY <3>2, <3>3, <1>4, <1>5 DEF PcsFs, Vistos
  <2>. QED
    BY <2>1, <2>2, <2>3, <2>4, <1>1, <1>6 DEF Llanos
<1>13. CASE HiloFsSaca
  <2>1. hilo_fs.pc = "despierta" /\ h \in Proc
    BY <1>13, <1>2 DEF HiloFsSaca
  <2>2. /\ UNCHANGED <<procesos, cola_ready, cpu_liberada, en_cpu, hilo_cpu, cola_fs, tabla,
                       puede_compactar, servidor>>
        /\ \/ /\ QuitarDeBlock(h) /\ UNCHANGED <<cola_exec, danio>>
              /\ hilo_fs' = [hilo_fs EXCEPT !.pc = "apila"]
           \/ UNCHANGED <<cola_exec, cola_block, hilo_fs>> /\ danio' = "pcb_nulo"
           \/ /\ cola_exec # <<>> /\ cola_exec' = Tail(cola_exec) /\ UNCHANGED cola_block
              /\ hilo_fs' = [hilo_fs EXCEPT !.pc = "apila", !.pcb = Head(cola_exec)]
              /\ danio' = IF Head(cola_exec) = h THEN danio ELSE "pcb_ajeno"
    BY <1>13 DEF HiloFsSaca, h
  <2>3. cola_exec # <<>> => Head(cola_exec) \in Proc /\ Tail(cola_exec) \in Seq(Proc)
    BY <1>1, ColaSaca DEF Llanos
  <2>4. cola_exec' \in Seq(Proc) /\ cola_block' \in [Proc -> Nat] /\ danio' \in Danios
    BY <2>1, <2>2, <2>3, <1>1, QuitaTipos DEF Llanos, Danios
  <2>5. /\ hilo_fs' \in [pc : PcsFs, pcb : ProcONull, visto : Vistos]
        /\ hilo_fs'.pc \in PcsFs /\ hilo_fs'.pcb \in ProcONull /\ hilo_fs'.visto \in Vistos
    <3>1. PICK c \in PcsFs, q \in ProcONull :
              hilo_fs' = [pc |-> c, pcb |-> q, visto |-> hilo_fs.visto]
      BY <2>2, <2>3, <1>1, <1>5 DEF Llanos, PcsFs, ProcONull
    <3>. QED
      BY <3>1, <1>4, <1>5
  <2>. QED
    BY <2>2, <2>4, <2>5, <1>1 DEF Llanos
<1>14. CASE HiloFsApila
  <2>1. h \in Proc /\ ApilarEnReady(h) /\ hilo_fs' = Ocioso
        /\ UNCHANGED <<programa, program_counter, cola_exec, cola_block, cpu_liberada, en_cpu,
                       hilo_cpu, cola_fs, tabla, puede_compactar, servidor, danio>>
    BY <1>14, <1>2 DEF HiloFsApila, h
  <2>2. cola_ready' \in Seq(Proc) /\ estado_actual' \in [Proc -> Estados]
    BY <2>1, <1>1, ApilaTipos
  <2>3. /\ hilo_fs' \in [pc : PcsFs, pcb : ProcONull, visto : Vistos]
        /\ hilo_fs'.pc \in PcsFs /\ hilo_fs'.pcb \in ProcONull /\ hilo_fs'.visto \in Vistos
    BY <2>1, <1>4 DEF Ocioso, PcsFs, ProcONull, Vistos
  <2>. QED
    BY <2>1, <2>2, <2>3, <1>1 DEF Llanos
<1>12. CASE AtenderRequest
  <2>1. pedido.codigo = "F_CREATE" => pedido.archivo \in Archivo
    BY <1>1 DEF Llanos, SinPedido
  <2>2. existentes' \subseteq Archivo
    BY <1>12, <2>1, <1>1 DEF AtenderRequest, Llanos
  <2>3. respuesta' \in Respuestas
    BY <1>12 DEF AtenderRequest, Respuestas
  <2>4. /\ pedido' = SinPedido
        /\ UNCHANGED <<procesos, colas, cpu_liberada, en_cpu, hilo_cpu, cola_fs, tabla,
                       puede_compactar, hilo_fs, danio>>
    BY <1>12 DEF AtenderRequest
  <2>. QED
    BY <2>2, <2>3, <2>4, <1>1 DEF Llanos
<1>. QED
  BY <1>7, <1>8, <1>9, <1>10, <1>11, <1>12, <1>13, <1>14 DEF ProcesarFileSystem

-----------------------------------------------------------------------------
(* Where each process is: the steps of the thread of the CPU's answers     *)

\* A step that leaves the programs, the requests and who serves them alone.
LEMMA MismosPedidos ==
  ASSUME UNCHANGED <<programa, program_counter, cola_archivos, hilo_fs>>
  PROVE  /\ Pedidos' = Pedidos /\ AccesosEnCurso' = AccesosEnCurso /\ SinSacar' = SinSacar
         /\ \A p : /\ InstruccionDe(p)' = InstruccionDe(p)
                   /\ ArchivoDe(p)' = ArchivoDe(p)
                   /\ EnSuPrograma(p)' <=> EnSuPrograma(p)
                   /\ Bloqueante(p)' <=> Bloqueante(p)
                   /\ Adelantado(p)' <=> Adelantado(p)
                   /\ VistoBlock(p)' <=> VistoBlock(p)
<1>1. Pedidos' = Pedidos
  BY DEF Pedidos
<1>2. \A p : InstruccionDe(p)' = InstruccionDe(p)
  BY DEF InstruccionDe
<1>3. AccesosEnCurso' = AccesosEnCurso
  BY <1>1, <1>2 DEF AccesosEnCurso
<1>4. \A p : /\ Adelantado(p)' <=> Adelantado(p)
             /\ VistoBlock(p)' <=> VistoBlock(p)
  BY DEF Adelantado, VistoBlock
<1>5. SinSacar' = SinSacar
  BY <1>1, <1>4 DEF SinSacar
<1>. QED
  BY <1>1, <1>2, <1>3, <1>4, <1>5 DEF ArchivoDe, EnSuPrograma, Bloqueante

\* The thread gives the process back to the CPU.
Sigue ==
    /\ hilo_cpu.pc \in EnManos
    /\ hilo_cpu' = [hilo_cpu EXCEPT !.pc = "espera"]
    /\ en_cpu' = hilo_cpu.pcb
    /\ hilo_cpu.pc = "espera_apertura" => f_open_done > 0
    /\ f_open_done' = IF hilo_cpu.pc = "espera_apertura" THEN f_open_done - 1 ELSE f_open_done
    /\ hilo_cpu.pc = "compacta" => puede_compactar'
    /\ hilo_cpu.pc # "compacta" => puede_compactar' = puede_compactar
    /\ SinRepetir(archivos_abiertos')
    /\ Range(archivos_abiertos') \subseteq Range(archivos_abiertos)
    /\ UNCHANGED <<programa, program_counter, cpu_liberada, cola_archivos, hilo_fs, pedido,
                   respuesta>>

\* Sigue leaves the requests, the mutex and the table as they are.
LEMMA SigueOtros ==
  ASSUME EstructuraInv, danio = "ninguno", Sigue, UNCHANGED cola_exec
  PROVE  TurnoInv' /\ HiloFsInv' /\ CompactarInv' /\ TablaInv'
<1>1. Llanos /\ TurnoInv /\ HiloFsInv /\ CompactarInv /\ TablaInv /\ NoProc \notin Proc
  BY Vivo
<1>2. /\ Pedidos' = Pedidos /\ AccesosEnCurso' = AccesosEnCurso /\ SinSacar' = SinSacar
      /\ \A p : /\ InstruccionDe(p)' = InstruccionDe(p)
                /\ ArchivoDe(p)' = ArchivoDe(p)
                /\ EnSuPrograma(p)' <=> EnSuPrograma(p)
                /\ Adelantado(p)' <=> Adelantado(p)
                /\ VistoBlock(p)' <=> VistoBlock(p)
  BY MismosPedidos DEF Sigue
<1>3. /\ hilo_cpu.pc # "espera" /\ hilo_cpu.pcb \in Proc
      /\ hilo_cpu'.pc = "espera" /\ hilo_cpu'.pcb = hilo_cpu.pcb
      /\ en_cpu = NoProc /\ en_cpu' = hilo_cpu.pcb
  BY <1>1 DEF Sigue, EnManos, TurnoInv, Llanos
<1>4. TurnoInv'
  BY <1>1, <1>2, <1>3 DEF Sigue, TurnoInv, Ejecuta, EnManos
<1>6. HiloFsInv'
  <2>1. f_open_done' = 0
    BY <1>1 DEF HiloFsInv, Sigue
  <2>. QED
    BY <1>1, <1>2, <1>3, <2>1 DEF HiloFsInv, Sigue
<1>7. CompactarInv'
  BY <1>1, <1>2, <1>3 DEF CompactarInv, Sigue, Llanos
<1>8. TablaInv'
  BY <1>1, <1>2 DEF TablaInv, AbreInv, Abierto, Sigue
<1>. QED
  BY <1>4, <1>6, <1>7, <1>8

\* The one it gives back has no request, so that nobody's request changes hands.
LEMMA SigueEncargado ==
  ASSUME EstructuraInv, danio = "ninguno", Sigue, NEW p \in Pedidos
  PROVE  /\ \A c \in {"espera_apertura", "saca", "marca", "apila"} :
               Encargado(c, p)' <=> Encargado(c, p)
         /\ Adelantado(p)' <=> Adelantado(p)
         /\ VistoBlock(p)' <=> VistoBlock(p)
<1>1. Llanos /\ HiloFsInv
  BY Vivo
<1>2. hilo_cpu'.pc = "espera"
  BY <1>1 DEF Sigue, Llanos
<1>3. ~(hilo_cpu.pcb = p /\ hilo_cpu.pc = "espera_apertura")
  BY <1>1 DEF HiloFsInv, Sigue
<1>4. /\ Adelantado(p)' <=> Adelantado(p)
      /\ VistoBlock(p)' <=> VistoBlock(p)
  BY DEF Sigue, Adelantado, VistoBlock
<1>5. \A c \in {"espera_apertura", "saca", "marca", "apila"} : Encargado(c, p)' <=> Encargado(c, p)
  BY <1>2, <1>3 DEF Encargado, Sigue, EnManos
<1>. QED
  BY <1>4, <1>5

\* F_SEEK, CREATE_SEGMENT and the other answers after which the process keeps the CPU
\* and nobody else moves.
LEMMA PasoSigue ==
  ASSUME EstructuraInv, danio = "ninguno", Sigue, UNCHANGED <<estado_actual, colas, cola_bloqueados>>
  PROVE  Partes'
<1>1. Llanos /\ LugarInv
  BY Vivo
<1>2. Pedidos' = Pedidos
  BY MismosPedidos DEF Sigue
<1>3. ASSUME NEW p \in Proc PROVE LugarDe(p)'
  <2>1. LugarDe(p) /\ cola_block[p] \in Nat /\ cola_block'[p] = cola_block[p]
    BY <1>1, Vivo DEF colas, Llanos
  <2>2. Igual(p)
    BY <1>2, <2>1, SigueEncargado DEF Igual, Sigue, colas
  <2>. QED
    BY <2>1, <2>2, Intacto
<1>4. LugarInv'
  BY <1>1, <1>3 DEF LugarInv, colas
<1>. QED
  BY <1>4, SigueOtros DEF Partes, colas

\* F_CLOSE of a file with processes waiting: the first of them goes to cola_ready.
LEMMA PasoEntrega ==
  ASSUME EstructuraInv, danio = "ninguno", Sigue, NEW f \in Archivo, cola_bloqueados[f] # <<>>,
         cola_bloqueados' = [cola_bloqueados EXCEPT ![f] = Tail(@)],
         PasarAColaReady(Head(cola_bloqueados[f]))
  PROVE  Partes' /\ danio' = "ninguno"
<1>0. PICK q : q = Head(cola_bloqueados[f])
  OBVIOUS
<1>1. Llanos /\ TurnoInv /\ LugarInv
  BY Vivo
<1>2. Pedidos' = Pedidos
  BY MismosPedidos DEF Sigue
<1>3. /\ q \in Proc /\ q \in Range(cola_bloqueados[f])
      /\ SinRepetir(Tail(cola_bloqueados[f]))
      /\ Range(Tail(cola_bloqueados[f])) = Range(cola_bloqueados[f]) \ {q}
  <2>1. cola_bloqueados[f] \in Seq(Proc) /\ SinRepetir(cola_bloqueados[f])
    BY <1>1 DEF Llanos, LugarInv
  <2>. QED
    BY <2>1, <1>0, ColaSaca
<1>4. LugarDe(q)
  BY <1>1, <1>3 DEF LugarInv
<1>5. /\ estado_actual[q] = "BLOCK" /\ cola_block[q] > 0 /\ q \notin Pedidos
      /\ InstruccionDe(q) = [codigo |-> "F_OPEN", archivo |-> f]
  BY <1>3, <1>4 DEF LugarDe, FilaInv
<1>6. q \notin Range(cola_ready) /\ q \notin Range(cola_exec)
  BY <1>3, <1>4, <1>5 DEF LugarDe, ReadyInv, ExecInv, EnFila
<1>7. /\ estado_actual' = [estado_actual EXCEPT ![q] = "READY"]
      /\ cola_ready' = Append(cola_ready, q)
      /\ UNCHANGED <<cola_exec, danio>>
      /\ cola_block' = [cola_block EXCEPT ![q] = @ - 1]
  BY <1>0, <1>5 DEF PasarAColaReady, QuitarDeBlock, ApilarEnReady
<1>8. /\ Range(cola_ready') = Range(cola_ready) \cup {q}
      /\ SinRepetir(cola_ready')
  BY <1>1, <1>3, <1>6, <1>7, ColaAgrega DEF Llanos, LugarInv
<1>9. \A g \in Archivo : cola_bloqueados'[g] = IF g = f THEN Tail(cola_bloqueados[f])
                                                        ELSE cola_bloqueados[g]
  BY <1>1 DEF Llanos
<1>10. LugarDe(q)'
  <2>1. \A g \in Archivo : q \notin Range(cola_bloqueados'[g])
    <3>1. ASSUME NEW g \in Archivo, g # f PROVE q \notin Range(cola_bloqueados[g])
      <4>1. q \in Range(cola_bloqueados[g]) =>
                InstruccionDe(q) = [codigo |-> "F_OPEN", archivo |-> g]
        BY <1>4 DEF LugarDe, FilaInv
      <4>. QED
        BY <4>1, <1>5, <3>1
    <3>. QED
      BY <1>3, <1>9, <3>1
  <2>2. estado_actual'[q] = "READY"
    BY <1>1, <1>3, <1>7 DEF Llanos
  <2>. QED
    BY <2>1, <2>2, <1>2, <1>5, <1>6, <1>7, <1>8
    DEF LugarDe, ReadyInv, ExecInv, FilaInv, PedidoInv, AlgunLugarInv, EnFila
<1>11. ASSUME NEW p \in Proc, p # q PROVE LugarDe(p)'
  <2>1. LugarDe(p) /\ cola_block[p] \in Nat /\ cola_block'[p] = cola_block[p]
    BY <1>1, <1>7, <1>11, Vivo DEF Llanos
  <2>2. estado_actual'[p] = estado_actual[p]
    BY <1>1, <1>7, <1>11 DEF Llanos
  <2>3. \A g \in Archivo :
            p \in Range(cola_bloqueados'[g]) <=> p \in Range(cola_bloqueados[g])
    BY <1>3, <1>9, <1>11
  <2>4. Igual(p)
    BY <1>2, <1>7, <1>8, <1>11, <2>1, <2>2, <2>3, SigueEncargado DEF Igual, Sigue
  <2>. QED
    BY <2>1, <2>4, Intacto
<1>12. LugarInv'
  <2>1. \A g \in Archivo : SinRepetir(cola_bloqueados'[g])
    BY <1>1, <1>3, <1>9 DEF LugarInv
  <2>. QED
    BY <2>1, <1>8, <1>10, <1>11 DEF LugarInv
<1>. QED
  BY <1>7, <1>12, SigueOtros DEF Partes

\* CREATE_SEGMENT with a compaction: the thread keeps the process in hand.
LEMMA PasoCompacta ==
  ASSUME EstructuraInv, danio = "ninguno", NEW c \in {"pide_compactar", "compacta"},
         hilo_cpu.pc = IF c = "compacta" THEN "pide_compactar" ELSE "procesa",
         hilo_cpu' = [hilo_cpu EXCEPT !.pc = c],
         c = "compacta" => puede_compactar /\ ~puede_compactar',
         c # "compacta" => puede_compactar' = puede_compactar,
         UNCHANGED <<procesos, colas, cpu_liberada, en_cpu, cola_fs, tabla, hilo_fs, pedido,
                     respuesta, danio>>
  PROVE  Partes'
<1> USE DEF procesos, colas, cola_fs, tabla
<1>1. Llanos /\ TurnoInv /\ LugarInv /\ HiloFsInv /\ CompactarInv /\ TablaInv
  BY Vivo
<1>2. /\ Pedidos' = Pedidos /\ AccesosEnCurso' = AccesosEnCurso /\ SinSacar' = SinSacar
      /\ \A p : /\ InstruccionDe(p)' = InstruccionDe(p)
                /\ ArchivoDe(p)' = ArchivoDe(p)
                /\ EnSuPrograma(p)' <=> EnSuPrograma(p)
                /\ Adelantado(p)' <=> Adelantado(p)
                /\ VistoBlock(p)' <=> VistoBlock(p)
  BY MismosPedidos
<1>3. hilo_cpu'.pc = c /\ hilo_cpu'.pcb = hilo_cpu.pcb
  BY <1>1 DEF Llanos
<1>4. TurnoInv'
  BY <1>1, <1>2, <1>3 DEF TurnoInv, Ejecuta, EnManos
<1>5. LugarInv'
  <2>1. ASSUME NEW p \in Proc PROVE LugarDe(p)'
    <3>1. LugarDe(p) /\ cola_block[p] \in Nat
      BY <1>1, Vivo DEF Llanos
    <3>2. Igual(p)
      BY <1>2, <1>3, <3>1 DEF Igual, Encargado
    <3>. QED
      BY <3>1, <3>2, Intacto
  <2>. QED
    BY <1>1, <2>1 DEF LugarInv
<1>6. HiloFsInv'
  BY <1>1, <1>2, <1>3 DEF HiloFsInv
<1>7. CompactarInv'
  BY <1>1, <1>2, <1>3 DEF CompactarInv, Llanos
<1>8. TablaInv'
  BY <1>1, <1>2 DEF TablaInv, AbreInv, Abierto
<1>. QED
  BY <1>4, <1>5, <1>6, <1>7, <1>8 DEF Partes

\* A new request.
LEMMA PedidosMas ==
  ASSUME EstructuraInv, danio = "ninguno", NEW p \in Proc, p \notin Pedidos,
         cola_archivos' = Append(cola_archivos, p),
         UNCHANGED <<programa, program_counter, hilo_fs>>
  PROVE  /\ Pedidos' = Pedidos \cup {p} /\ SinSacar' = SinSacar \cup {p}
         /\ SinRepetir(cola_archivos')
         /\ hilo_fs.pcb \notin Range(cola_archivos')
         /\ p # hilo_fs.pcb
         /\ \A q : /\ InstruccionDe(q)' = InstruccionDe(q)
                   /\ ArchivoDe(q)' = ArchivoDe(q)
                   /\ EnSuPrograma(q)' <=> EnSuPrograma(q)
                   /\ Bloqueante(q)' <=> Bloqueante(q)
                   /\ Adelantado(q)' <=> Adelantado(q)
                   /\ VistoBlock(q)' <=> VistoBlock(q)
<1>1. cola_archivos \in Seq(Proc) /\ SinRepetir(cola_archivos) /\ NoProc \notin Proc
      /\ hilo_fs.pcb \notin Range(cola_archivos)
  BY Vivo DEF Llanos, HiloFsInv
<1>2. p \notin Range(cola_archivos) /\ p # hilo_fs.pcb
  BY <1>1 DEF Pedidos
<1>3. Range(cola_archivos') = Range(cola_archivos) \cup {p} /\ SinRepetir(cola_archivos')
  BY <1>1, <1>2, ColaAgrega
<1>4. Pedidos' = Pedidos \cup {p}
  BY <1>3 DEF Pedidos
<1>5. hilo_fs.pcb \notin Range(cola_archivos')
  BY <1>1, <1>2, <1>3
<1>6. SinSacar' = SinSacar \cup {p}
  BY <1>2, <1>4 DEF SinSacar, Adelantado
<1>. QED
  BY <1>2, <1>3, <1>4, <1>5, <1>6
  DEF InstruccionDe, ArchivoDe, EnSuPrograma, Bloqueante, Adelantado, VistoBlock

\* The process the thread is serving.
LEMMA EnMano ==
  ASSUME EstructuraInv, danio = "ninguno", NEW p, p = hilo_cpu.pcb, hilo_cpu.pc = "procesa"
  PROVE  /\ p \in Proc /\ EnSuPrograma(p) /\ LugarDe(p)
         /\ p \notin Pedidos /\ p \in Range(cola_exec) /\ cola_exec = <<p>>
         /\ p \notin Range(cola_ready) /\ ~EnFila(p) /\ estado_actual[p] = "EXEC"
         /\ en_cpu = NoProc /\ cpu_liberada = 0 /\ f_open_done = 0
         /\ InstruccionDe(p) \in Instruccion
         /\ InstruccionDe(p) = [codigo |-> InstruccionDe(p).codigo, archivo |-> ArchivoDe(p)]
         /\ InstruccionDe(p).codigo \in DeArchivo => ArchivoDe(p) \in Archivo
<1>1. Llanos /\ TurnoInv /\ HiloFsInv /\ TipoArchivos
  BY Vivo, TipoLlano
<1>2. p \in Proc /\ EnSuPrograma(p) /\ en_cpu = NoProc /\ cpu_liberada = 0
      /\ cola_exec = <<p>>
  BY <1>1 DEF TurnoInv, Ejecuta, EnManos
<1>3. LugarDe(p)
  BY <1>2, Vivo
<1>4. p \in Range(cola_exec)
  BY <1>2, ColaDeUno
<1>5. p \notin Pedidos
  BY <1>1, <1>2, <1>3, PedidoEstado
<1>6. p \notin Range(cola_ready) /\ ~EnFila(p) /\ estado_actual[p] = "EXEC"
  BY <1>3, <1>4 DEF LugarDe, ReadyInv, ExecInv
<1>7. f_open_done = 0
  BY <1>1 DEF HiloFsInv
<1>. QED
  BY <1>1, <1>2, <1>3, <1>4, <1>5, <1>6, <1>7, InstruccionTipo

\* The request goes out while the process is still in cola_exec: F_OPEN of a file
\* nobody has, F_READ, F_WRITE and F_TRUNCATE.
LEMMA PasoPide ==
  ASSUME EstructuraInv, danio = "ninguno", NEW p, p = hilo_cpu.pcb, hilo_cpu.pc = "procesa",
         NEW c, InstruccionDe(p).codigo \in Bloqueantes \cup {"F_OPEN"},
         c = IF InstruccionDe(p).codigo = "F_OPEN" THEN "espera_apertura" ELSE "saca",
         hilo_cpu' = [hilo_cpu EXCEPT !.pc = c],
         InstruccionDe(p).codigo \in Accesos => puede_compactar /\ ~puede_compactar',
         InstruccionDe(p).codigo \notin Accesos => puede_compactar' = puede_compactar,
         InstruccionDe(p).codigo = "F_OPEN" => ~Abierto(ArchivoDe(p)),
         EncolarPedido(p),
         UNCHANGED <<procesos, colas, cpu_liberada, en_cpu, tabla, hilo_fs, pedido,
                     respuesta, danio>>
  PROVE  Partes'
<1> USE DEF procesos, colas, tabla
<1>1. Llanos /\ TurnoInv /\ LugarInv /\ HiloFsInv /\ CompactarInv /\ TablaInv
  BY Vivo
<1>2. /\ p \in Proc /\ EnSuPrograma(p) /\ LugarDe(p)
      /\ p \notin Pedidos /\ p \in Range(cola_exec) /\ cola_exec = <<p>>
      /\ p \notin Range(cola_ready) /\ ~EnFila(p) /\ estado_actual[p] = "EXEC"
      /\ en_cpu = NoProc /\ cpu_liberada = 0 /\ f_open_done = 0
  BY EnMano
<1>3. /\ Pedidos' = Pedidos \cup {p} /\ SinSacar' = SinSacar \cup {p}
      /\ SinRepetir(cola_archivos')
      /\ hilo_fs.pcb \notin Range(cola_archivos')
      /\ p # hilo_fs.pcb
      /\ \A q : /\ InstruccionDe(q)' = InstruccionDe(q)
                /\ ArchivoDe(q)' = ArchivoDe(q)
                /\ EnSuPrograma(q)' <=> EnSuPrograma(q)
                /\ Bloqueante(q)' <=> Bloqueante(q)
                /\ Adelantado(q)' <=> Adelantado(q)
                /\ VistoBlock(q)' <=> VistoBlock(q)
  BY <1>2, PedidosMas DEF EncolarPedido
<1>4. hilo_cpu'.pc = c /\ hilo_cpu'.pcb = p /\ c \in {"espera_apertura", "saca"}
  BY <1>1 DEF Llanos
<1>5. TurnoInv'
  <2>1. Ejecuta' = <<p>>
    BY <1>2, <1>3, <1>4 DEF Ejecuta, EnManos
  <2>2. c = "espera_apertura" => InstruccionDe(p)'.codigo = "F_OPEN"
    BY <1>3
  <2>3. c # "espera_apertura" => InstruccionDe(p)'.codigo \in Bloqueantes
    BY <1>3
  <2>. QED
    BY <1>2, <1>3, <1>4, <2>1, <2>2, <2>3 DEF TurnoInv
<1>6. LugarDe(p)'
  <2>1. ReadyInv(p)' /\ ExecInv(p)'
    BY <1>2 DEF ReadyInv, ExecInv, EnFila
  <2>2. FilaInv(p)'
    BY <1>2 DEF FilaInv, EnFila
  <2>3. PedidoInv(p)'
    BY <1>2, <1>3, <1>4 DEF PedidoInv, Encargado, VistoBlock
  <2>4. AlgunLugarInv(p)'
    BY <1>2 DEF AlgunLugarInv
  <2>. QED
    BY <2>1, <2>2, <2>3, <2>4 DEF LugarDe
<1>7. ASSUME NEW q \in Proc, q # p PROVE LugarDe(q)'
  <2>1. LugarDe(q) /\ cola_block[q] \in Nat
    BY <1>1, Vivo DEF Llanos
  <2>2. Igual(q)
    BY <1>3, <1>4, <1>7, <2>1 DEF Igual, Encargado
  <2>. QED
    BY <2>1, <2>2, Intacto
<1>8. LugarInv'
  BY <1>1, <1>6, <1>7 DEF LugarInv
<1>9. HiloFsInv'
  <2>1. /\ f_open_done' = 0
        /\ ~(hilo_cpu'.pc = "espera_apertura" /\ hilo_cpu'.pcb \notin Pedidos')
    BY <1>2, <1>3, <1>4 DEF EncolarPedido
  <2>. QED
    BY <1>1, <1>3, <2>1 DEF HiloFsInv
<1>10. CompactarInv'
  <2>1. InstruccionDe(p).codigo \in Accesos => AccesosEnCurso' = {p}
    BY <1>1, <1>3 DEF AccesosEnCurso, CompactarInv
  <2>2. InstruccionDe(p).codigo \notin Accesos => AccesosEnCurso' = AccesosEnCurso
    BY <1>3 DEF AccesosEnCurso
  <2>3. CASE InstruccionDe(p).codigo \in Accesos
    BY <2>1, <2>3, <1>4 DEF CompactarInv
  <2>4. CASE InstruccionDe(p).codigo \notin Accesos
    BY <2>2, <2>4, <1>1, <1>4 DEF CompactarInv
  <2>. QED
    BY <2>3, <2>4
<1>11. TablaInv'
  BY <1>1, <1>3 DEF TablaInv, AbreInv, Abierto
<1>. QED
  BY <1>5, <1>8, <1>9, <1>10, <1>11 DEF Partes

\* F_OPEN of a file somebody has: the process waits for it in BLOCK.
LEMMA PasoBloquea ==
  ASSUME EstructuraInv, danio = "ninguno", NEW p, p = hilo_cpu.pcb, hilo_cpu.pc = "procesa",
         InstruccionDe(p).codigo = "F_OPEN",
         NEW f, f = ArchivoDe(p),
         hilo_cpu' = [hilo_cpu EXCEPT !.pc = "libera"],
         PasarAColaBlocked(p),
         cola_bloqueados' = [cola_bloqueados EXCEPT ![f] = Append(@, p)],
         UNCHANGED <<programa, program_counter, cpu_liberada, en_cpu, cola_fs,
                     archivos_abiertos, puede_compactar, hilo_fs, pedido, respuesta, danio>>
  PROVE  Partes'
<1> USE DEF cola_fs
<1>1. Llanos /\ TurnoInv /\ LugarInv /\ HiloFsInv /\ CompactarInv /\ TablaInv
  BY Vivo
<1>2. /\ p \in Proc /\ EnSuPrograma(p) /\ LugarDe(p)
      /\ p \notin Pedidos /\ p \in Range(cola_exec) /\ cola_exec = <<p>>
      /\ p \notin Range(cola_ready) /\ ~EnFila(p) /\ estado_actual[p] = "EXEC"
      /\ en_cpu = NoProc /\ cpu_liberada = 0 /\ f_open_done = 0
  BY EnMano
<1>3. f \in Archivo /\ InstruccionDe(p) = [codigo |-> "F_OPEN", archivo |-> f]
  BY EnMano DEF DeArchivo
<1>4. /\ Pedidos' = Pedidos /\ AccesosEnCurso' = AccesosEnCurso /\ SinSacar' = SinSacar
      /\ \A q : /\ InstruccionDe(q)' = InstruccionDe(q)
                /\ ArchivoDe(q)' = ArchivoDe(q)
                /\ EnSuPrograma(q)' <=> EnSuPrograma(q)
                /\ Adelantado(q)' <=> Adelantado(q)
                /\ VistoBlock(q)' <=> VistoBlock(q)
  BY MismosPedidos
<1>5. hilo_cpu'.pc = "libera" /\ hilo_cpu'.pcb = p
  BY <1>1 DEF Llanos
<1>6. /\ cola_exec' = <<>> /\ Range(cola_exec') = {}
      /\ estado_actual' = [estado_actual EXCEPT ![p] = "BLOCK"]
      /\ cola_block' = [cola_block EXCEPT ![p] = @ + 1]
      /\ UNCHANGED cola_ready
  BY <1>2, ColaDeUno, ColaVacia DEF PasarAColaBlocked, DescartarExec
<1>7. /\ Range(cola_bloqueados'[f]) = Range(cola_bloqueados[f]) \cup {p}
      /\ SinRepetir(cola_bloqueados'[f])
      /\ \A g \in Archivo : g # f => cola_bloqueados'[g] = cola_bloqueados[g]
  <2>1. cola_bloqueados[f] \in Seq(Proc) /\ SinRepetir(cola_bloqueados[f])
        /\ p \notin Range(cola_bloqueados[f])
    BY <1>1, <1>2, <1>3 DEF Llanos, LugarInv, EnFila
  <2>2. cola_bloqueados'[f] = Append(cola_bloqueados[f], p)
        /\ \A g \in Archivo : g # f => cola_bloqueados'[g] = cola_bloqueados[g]
    BY <1>1, <1>3 DEF Llanos
  <2>. QED
    BY <1>2, <2>1, <2>2, ColaAgrega
<1>8. TurnoInv'
  <2>1. Ejecuta' = <<>>
    BY <1>2, <1>5 DEF Ejecuta, EnManos
  <2>. QED
    BY <1>2, <1>4, <1>5, <1>6, <2>1 DEF TurnoInv
<1>9. LugarDe(p)'
  <2>1. estado_actual'[p] = "BLOCK" /\ cola_block'[p] > 0
    BY <1>1, <1>2, <1>6 DEF Llanos
  <2>2. ReadyInv(p)' /\ ExecInv(p)'
    BY <1>2, <1>6 DEF ReadyInv, ExecInv
  <2>3. \A g \in Archivo : p \in Range(cola_bloqueados'[g]) => g = f
    BY <1>2, <1>7 DEF EnFila
  <2>4. FilaInv(p)'
    BY <1>2, <1>3, <1>4, <2>1, <2>3 DEF FilaInv
  <2>5. PedidoInv(p)'
    BY <1>2, <1>4 DEF PedidoInv
  <2>6. AlgunLugarInv(p)'
    BY <1>3, <1>7 DEF AlgunLugarInv, EnFila
  <2>. QED
    BY <2>2, <2>4, <2>5, <2>6 DEF LugarDe
<1>10. ASSUME NEW q \in Proc, q # p PROVE LugarDe(q)'
  <2>1. LugarDe(q) /\ cola_block[q] \in Nat /\ cola_block'[q] = cola_block[q]
        /\ estado_actual'[q] = estado_actual[q]
    BY <1>1, <1>6, <1>10, Vivo DEF Llanos
  <2>2. q \notin Range(cola_exec)
    BY <1>2, <1>10, ColaDeUno
  <2>3. \A g \in Archivo :
            q \in Range(cola_bloqueados'[g]) <=> q \in Range(cola_bloqueados[g])
    BY <1>7, <1>10
  <2>4. Igual(q)
    BY <1>4, <1>5, <1>6, <1>10, <2>1, <2>2, <2>3 DEF Igual, Encargado
  <2>. QED
    BY <2>1, <2>4, Intacto
<1>11. LugarInv'
  <2>1. \A g \in Archivo : SinRepetir(cola_bloqueados'[g])
    BY <1>1, <1>7 DEF LugarInv
  <2>. QED
    BY <2>1, <1>1, <1>6, <1>9, <1>10 DEF LugarInv
<1>12. HiloFsInv'
  BY <1>1, <1>2, <1>4, <1>5 DEF HiloFsInv
<1>13. CompactarInv'
  BY <1>1, <1>4, <1>5 DEF CompactarInv
<1>14. TablaInv'
  BY <1>1, <1>4 DEF TablaInv, AbreInv, Abierto
<1>. QED
  BY <1>8, <1>11, <1>12, <1>13, <1>14 DEF Partes

\* The three steps of pasar_a_cola_blocked with the request on its way, and the post
\* of cpu_liberada.
LEMMA PasoBloquear ==
  ASSUME EstructuraInv, danio = "ninguno",
         HiloCpuSaca \/ HiloCpuMarca \/ HiloCpuApila \/ HiloCpuLibera
  PROVE  Partes'
<1> USE DEF procesos, colas, cola_fs, tabla, servidor
<1>1. Llanos /\ TurnoInv /\ LugarInv /\ HiloFsInv /\ CompactarInv /\ TablaInv
      /\ NoProc \notin Proc
  BY Vivo
<1>2. PICK p : p = hilo_cpu.pcb
  OBVIOUS
<1>3. /\ Pedidos' = Pedidos /\ AccesosEnCurso' = AccesosEnCurso /\ SinSacar' = SinSacar
      /\ \A q : /\ InstruccionDe(q)' = InstruccionDe(q)
                /\ ArchivoDe(q)' = ArchivoDe(q)
                /\ EnSuPrograma(q)' <=> EnSuPrograma(q)
                /\ Bloqueante(q)' <=> Bloqueante(q)
                /\ Adelantado(q)' <=> Adelantado(q)
                /\ VistoBlock(q)' <=> VistoBlock(q)
  <2>1. UNCHANGED <<programa, program_counter, cola_archivos, hilo_fs>>
    BY DEF HiloCpuSaca, HiloCpuMarca, HiloCpuApila, HiloCpuLibera
  <2>. QED
    BY <2>1, MismosPedidos
<1>4. /\ hilo_cpu.pc \in {"saca", "marca", "apila", "libera"}
      /\ p \in Proc /\ EnSuPrograma(p) /\ LugarDe(p)
      /\ en_cpu = NoProc /\ en_cpu' = NoProc /\ cpu_liberada = 0
  <2>1. hilo_cpu.pc \in {"saca", "marca", "apila", "libera"} /\ en_cpu' = en_cpu
    BY DEF HiloCpuSaca, HiloCpuMarca, HiloCpuApila, HiloCpuLibera
  <2>. QED
    BY <1>1, <1>2, <2>1 DEF TurnoInv, LugarInv
<1>5. cola_exec' = <<>> /\ Range(cola_exec') = {}
  <2>1. CASE HiloCpuSaca
    BY <1>1, <1>4, <2>1, ColaDeUno, ColaVacia DEF HiloCpuSaca, DescartarExec, TurnoInv, Ejecuta
  <2>2. CASE HiloCpuMarca \/ HiloCpuApila \/ HiloCpuLibera
    <3>1. hilo_cpu.pc \in {"marca", "apila", "libera"} /\ cola_exec' = cola_exec
      BY <2>2 DEF HiloCpuMarca, HiloCpuApila, HiloCpuLibera
    <3>. QED
      BY <1>1, <1>4, <3>1, ColaVacia DEF TurnoInv, Ejecuta, EnManos
  <2>. QED
    BY <2>1, <2>2
<1>6. hilo_cpu'.pc = CASE hilo_cpu.pc = "saca" -> "marca" [] hilo_cpu.pc = "marca" -> "apila"
                       [] hilo_cpu.pc = "apila" -> "libera" [] OTHER -> "espera"
  BY <1>1 DEF HiloCpuSaca, HiloCpuMarca, HiloCpuApila, HiloCpuLibera, Llanos
<1>7. hilo_cpu.pc # "libera" => hilo_cpu'.pcb = p
  BY <1>1, <1>2 DEF HiloCpuSaca, HiloCpuMarca, HiloCpuApila, HiloCpuLibera, Llanos
<1>8. /\ \A q \in Proc : estado_actual'[q] = IF hilo_cpu.pc = "marca" /\ q = p THEN "BLOCK"
                                             ELSE estado_actual[q]
      /\ \A q \in Proc : cola_block'[q] >= cola_block[q] /\ cola_block'[q] \in Nat
      /\ hilo_cpu.pc = "apila" => cola_block'[p] > 0
      /\ UNCHANGED <<cola_ready, cola_bloqueados, cola_archivos, hilo_fs, pedido, respuesta,
                     f_open_done, puede_compactar, archivos_abiertos, programa,
                     program_counter>>
  <2>1. UNCHANGED <<cola_ready, cola_bloqueados, cola_archivos, hilo_fs, pedido, respuesta,
                     f_open_done, puede_compactar, archivos_abiertos, programa,
                     program_counter>>
    BY DEF HiloCpuSaca, HiloCpuMarca, HiloCpuApila, HiloCpuLibera
  <2>2. estado_actual' = IF hilo_cpu.pc = "marca" THEN [estado_actual EXCEPT ![p] = "BLOCK"]
                                                  ELSE estado_actual
    BY <1>2 DEF HiloCpuSaca, HiloCpuMarca, HiloCpuApila, HiloCpuLibera
  <2>3. cola_block' = IF hilo_cpu.pc = "apila"
                      THEN [cola_block EXCEPT ![p] = cola_block[p] + 1] ELSE cola_block
    BY <1>2 DEF HiloCpuSaca, HiloCpuMarca, HiloCpuApila, HiloCpuLibera
  <2>4. estado_actual \in [Proc -> Estados] /\ cola_block \in [Proc -> Nat]
    BY <1>1 DEF Llanos
  <2>5. \A q \in Proc : cola_block'[q] = IF hilo_cpu.pc = "apila" /\ q = p
                                         THEN cola_block[q] + 1 ELSE cola_block[q]
    BY <2>3, <2>4
  <2>6. \A q \in Proc : cola_block'[q] >= cola_block[q] /\ cola_block'[q] \in Nat
    BY <2>4, <2>5
  <2>7. \A q \in Proc : estado_actual'[q] = IF hilo_cpu.pc = "marca" /\ q = p THEN "BLOCK"
                                             ELSE estado_actual[q]
    BY <2>2, <2>4
  <2>8. hilo_cpu.pc = "apila" => cola_block'[p] > 0
    BY <1>4, <2>4, <2>5
  <2>. QED
    BY <2>1, <2>6, <2>7, <2>8
<1>9. TurnoInv'
  <2>1. cpu_liberada' = IF hilo_cpu.pc = "libera" THEN 1 ELSE 0
    BY <1>4 DEF HiloCpuSaca, HiloCpuMarca, HiloCpuApila, HiloCpuLibera
  <2>2. Ejecuta' = <<>>
    BY <1>4, <1>6 DEF Ejecuta, EnManos
  <2>3. hilo_cpu.pc \in {"saca", "marca", "apila"} =>
           /\ InstruccionDe(p).codigo \in Bloqueantes
           /\ estado_actual[p] \notin {"NEW", "EXIT"}
    BY <1>1, <1>2 DEF TurnoInv
  <2>4. hilo_cpu'.pc \in {"saca", "marca", "apila"} =>
           /\ hilo_cpu.pc \in {"saca", "marca"}
           /\ InstruccionDe(p)'.codigo \in Bloqueantes
           /\ estado_actual'[p] \notin {"NEW", "EXIT"}
    BY <1>3, <1>4, <1>6, <1>8, <2>3
  <2>. QED
    BY <1>3, <1>4, <1>5, <1>6, <1>7, <2>1, <2>2, <2>4 DEF TurnoInv
<1>10. ASSUME NEW q \in Proc, q # p PROVE LugarDe(q)'
  <2>1. LugarDe(q) /\ cola_block[q] \in Nat
    BY <1>1, Vivo DEF Llanos
  <2>2. q \notin Range(cola_exec)
    BY <1>1, <1>2, <1>4, <1>10, QuienEjecuta
  <2>3. \A c \in {"espera_apertura", "saca", "marca", "apila"} :
            Encargado(c, q)' <=> Encargado(c, q)
    BY <1>2, <1>4, <1>6, <1>7, <1>10 DEF Encargado
  <2>4. Igual(q)
    BY <1>3, <1>5, <1>8, <1>10, <2>1, <2>2, <2>3 DEF Igual
  <2>. QED
    BY <2>1, <2>4, <1>8, Intacto
<1>11. LugarDe(p)'
  <2>1. ReadyInv(p)'
    BY <1>3, <1>4, <1>5, <1>8 DEF LugarDe, ReadyInv, EnFila
  <2>2. ExecInv(p)'
    BY <1>5 DEF ExecInv
  <2>3. FilaInv(p)'
    <3>1. cola_block[p] \in Nat
      BY <1>1, <1>4 DEF Llanos
    <3>. QED
      BY <3>1, <1>3, <1>4, <1>8 DEF LugarDe, FilaInv
  <2>4. PedidoInv(p)'
    <3>1. cola_block[p] \in Nat /\ cola_block'[p] \in Nat /\ cola_block'[p] >= cola_block[p]
      BY <1>1, <1>4, <1>8 DEF Llanos
    <3>. QED
      BY <3>1, <1>2, <1>3, <1>4, <1>6, <1>7, <1>8 DEF LugarDe, PedidoInv, Encargado
  <2>5. AlgunLugarInv(p)'
    <3>1. p \in Range(cola_exec) => p \in Pedidos /\ Bloqueante(p)
      BY <1>1, <1>2, <1>4, QuienEjecuta DEF TurnoInv, EnManos, Bloqueante, Bloqueantes, SinSacar
    <3>2. hilo_cpu.pc = "marca" => estado_actual[p] \notin {"NEW", "EXIT"}
      BY <1>1, <1>2 DEF TurnoInv
    <3>. QED
      BY <3>1, <3>2, <1>3, <1>4, <1>8 DEF LugarDe, AlgunLugarInv, EnFila
  <2>. QED
    BY <2>1, <2>2, <2>3, <2>4, <2>5 DEF LugarDe
<1>12. LugarInv'
  BY <1>1, <1>8, <1>10, <1>11 DEF LugarInv
<1>13. HiloFsInv'
  BY <1>1, <1>3, <1>4, <1>6, <1>8 DEF HiloFsInv
<1>14. CompactarInv'
  BY <1>1, <1>3, <1>4, <1>6, <1>8 DEF CompactarInv
<1>15. TablaInv'
  BY <1>1, <1>3, <1>8 DEF TablaInv, AbreInv, Abierto
<1>. QED
  BY <1>9, <1>12, <1>13, <1>14, <1>15 DEF Partes

\* YIELD and EXIT: the process leaves cola_exec.
LEMMA PasoDeja ==
  ASSUME EstructuraInv, danio = "ninguno", ProcesarYield \/ ProcesarExit
  PROVE  Partes' /\ danio' = "ninguno"
<1> USE DEF procesos, colas, cola_fs, tabla, servidor
<1>1. Llanos /\ TurnoInv /\ LugarInv /\ HiloFsInv /\ CompactarInv /\ TablaInv
  BY Vivo
<1>2. PICK p : p = hilo_cpu.pcb
  OBVIOUS
<1>3. hilo_cpu.pc = "procesa" /\ InstruccionDe(p).codigo \in {"YIELD", "EXIT"}
  BY <1>2 DEF ProcesarYield, ProcesarExit, Procesa
<1>4. /\ p \in Proc /\ EnSuPrograma(p) /\ LugarDe(p)
      /\ p \notin Pedidos /\ p \in Range(cola_exec) /\ cola_exec = <<p>>
      /\ p \notin Range(cola_ready) /\ ~EnFila(p) /\ estado_actual[p] = "EXEC"
      /\ en_cpu = NoProc /\ cpu_liberada = 0 /\ f_open_done = 0
  BY <1>2, <1>3, EnMano
<1>5. UNCHANGED <<programa, program_counter, cpu_liberada, hilo_fs, servidor, en_cpu, cola_fs,
                  tabla, puede_compactar>>
  BY DEF ProcesarYield, ProcesarExit, Procesa
<1>6. /\ Pedidos' = Pedidos /\ AccesosEnCurso' = AccesosEnCurso /\ SinSacar' = SinSacar
      /\ \A q : /\ InstruccionDe(q)' = InstruccionDe(q)
                /\ ArchivoDe(q)' = ArchivoDe(q)
                /\ EnSuPrograma(q)' <=> EnSuPrograma(q)
                /\ Bloqueante(q)' <=> Bloqueante(q)
                /\ Adelantado(q)' <=> Adelantado(q)
                /\ VistoBlock(q)' <=> VistoBlock(q)
  BY <1>5, MismosPedidos
<1>7. hilo_cpu'.pc = "libera" /\ hilo_cpu'.pcb = p
  BY <1>1, <1>2 DEF ProcesarYield, ProcesarExit, Procesa, Llanos
<1>8. /\ cola_exec' = <<>> /\ Range(cola_exec') = {}
      /\ UNCHANGED <<cola_block, danio>>
      /\ \/ /\ estado_actual' = [estado_actual EXCEPT ![p] = "READY"]
            /\ cola_ready' = Append(cola_ready, p)
         \/ /\ estado_actual' = [estado_actual EXCEPT ![p] = "EXIT"]
            /\ cola_ready' = cola_ready
  <2>1. Head(cola_exec) = p /\ Tail(cola_exec) = <<>> /\ cola_exec # <<>>
    BY <1>4, ColaDeUno
  <2>2. CASE ProcesarYield
    <3>1. PasarAColaReady(p)
      BY <1>2, <2>2 DEF ProcesarYield
    <3>. QED
      BY <3>1, <1>4, <2>1, ColaVacia DEF PasarAColaReady, ApilarEnReady
  <2>3. CASE ProcesarExit
    BY <1>2, <2>1, <2>3, ColaVacia DEF ProcesarExit, DescartarExec
  <2>. QED
    BY <2>2, <2>3
<1>9. /\ SinRepetir(cola_ready')
      /\ estado_actual'[p] \in {"READY", "EXIT"}
      /\ estado_actual'[p] = "READY" <=> p \in Range(cola_ready')
      /\ \A q \in Proc : q # p =>
            /\ estado_actual'[q] = estado_actual[q]
            /\ q \in Range(cola_ready') <=> q \in Range(cola_ready)
  <2>1. SinRepetir(cola_ready) /\ cola_ready \in Seq(Proc)
    BY <1>1 DEF LugarInv, Llanos
  <2>2. /\ SinRepetir(Append(cola_ready, p))
        /\ Range(Append(cola_ready, p)) = Range(cola_ready) \cup {p}
    BY <1>4, <2>1, ColaAgrega
  <2>. QED
    BY <1>1, <1>4, <1>8, <2>1, <2>2 DEF Llanos
<1>10. TurnoInv'
  <2>1. Ejecuta' = <<>>
    BY <1>4, <1>5, <1>7 DEF Ejecuta, EnManos
  <2>. QED
    BY <1>4, <1>5, <1>6, <1>7, <1>8, <2>1 DEF TurnoInv
<1>11. LugarDe(p)'
  BY <1>4, <1>5, <1>6, <1>8, <1>9
  DEF LugarDe, ReadyInv, ExecInv, FilaInv, PedidoInv, AlgunLugarInv, EnFila
<1>12. ASSUME NEW q \in Proc, q # p PROVE LugarDe(q)'
  <2>1. LugarDe(q) /\ cola_block[q] \in Nat
    BY <1>1, Vivo DEF Llanos
  <2>2. q \notin Range(cola_exec)
    BY <1>4, <1>12, ColaDeUno
  <2>3. Igual(q)
    BY <1>2, <1>5, <1>6, <1>7, <1>8, <1>9, <1>12, <2>1, <2>2 DEF Igual, Encargado
  <2>. QED
    BY <2>1, <2>3, <1>8, Intacto
<1>13. LugarInv'
  BY <1>1, <1>5, <1>9, <1>11, <1>12 DEF LugarInv
<1>14. HiloFsInv'
  BY <1>1, <1>3, <1>5, <1>6, <1>7 DEF HiloFsInv
<1>15. CompactarInv'
  BY <1>1, <1>3, <1>5, <1>6, <1>7 DEF CompactarInv
<1>16. TablaInv'
  BY <1>1, <1>5, <1>6 DEF TablaInv, AbreInv, Abierto
<1>. QED
  BY <1>8, <1>10, <1>13, <1>14, <1>15, <1>16 DEF Partes

\* The thread of the answers of the CPU, unless it makes the Kernel fall.
LEMMA PasoRespuestaCpu ==
  ASSUME EstructuraInv, ManejarRespuestaCpu, danio' = "ninguno"
  PROVE  Partes'
<1> USE DEF procesos, colas, cola_fs, tabla, servidor
<1>0. danio = "ninguno"
  BY DEF ManejarRespuestaCpu, Procesa, EjecutarFOpenCerrado, HiloCpuAbierto,
     EjecutarFOpenAbierto, EjecutarFClose, EjecutarFSeek, ProcesarAcceso, ProcesarFTruncate,
     HiloCpuSaca, HiloCpuMarca, HiloCpuApila, ProcesarCreateSegment, PedirCompactacion,
     Compactado, ProcesarYield, ProcesarExit, HiloCpuLibera
<1>1. Llanos /\ HiloFsInv /\ TablaInv
  BY <1>0, Vivo
<1>2. PICK p : p = hilo_cpu.pcb
  OBVIOUS
<1>3. CASE EjecutarFOpenCerrado
  <2>1. /\ hilo_cpu.pc = "procesa" /\ InstruccionDe(p).codigo = "F_OPEN"
        /\ hilo_cpu' = [hilo_cpu EXCEPT !.pc = "espera_apertura"]
        /\ ~Abierto(ArchivoDe(p)) /\ EncolarPedido(p)
        /\ UNCHANGED <<procesos, colas, cpu_liberada, en_cpu, tabla, hilo_fs, pedido,
                       respuesta, puede_compactar, danio>>
    BY <1>2, <1>3 DEF EjecutarFOpenCerrado, Procesa
  <2>2. "F_OPEN" \notin Accesos
    BY DEF Accesos
  <2>. QED
    BY <1>0, <1>2, <2>1, <2>2, PasoPide
<1>4. CASE HiloCpuAbierto
  <2>1. Sigue
    BY <1>1, <1>4 DEF HiloCpuAbierto, Sigue, EnManos, TablaInv
  <2>. QED
    BY <1>0, <1>4, <2>1, PasoSigue DEF HiloCpuAbierto
<1>5. CASE EjecutarFOpenAbierto
  <2> DEFINE f == ArchivoDe(p)
  <2>1. /\ hilo_cpu.pc = "procesa" /\ InstruccionDe(p).codigo = "F_OPEN"
        /\ hilo_cpu' = [hilo_cpu EXCEPT !.pc = "libera"]
        /\ PasarAColaBlocked(p)
        /\ cola_bloqueados' = [cola_bloqueados EXCEPT ![f] = Append(@, p)]
        /\ UNCHANGED <<programa, program_counter, cpu_liberada, en_cpu, cola_fs,
                     archivos_abiertos, puede_compactar, hilo_fs, pedido, respuesta, danio>>
    BY <1>2, <1>5 DEF EjecutarFOpenAbierto, Procesa
  <2>2. PICK g : g = f
    OBVIOUS
  <2> HIDE DEF f
  <2>3. cola_bloqueados' = [cola_bloqueados EXCEPT ![g] = Append(@, p)]
    BY <2>1, <2>2
  <2>4. g = ArchivoDe(p)
    BY <2>2 DEF f
  <2>. QED
    BY <1>0, <1>2, <2>1, <2>3, <2>4, PasoBloquea
<1>6. CASE EjecutarFClose
  <2>1. PICK f : f = ArchivoDe(p)
    OBVIOUS
  <2>2. /\ hilo_cpu.pc = "procesa" /\ InstruccionDe(p).codigo = "F_CLOSE"
        /\ hilo_cpu' = [hilo_cpu EXCEPT !.pc = "espera"] /\ en_cpu' = p
        /\ UNCHANGED <<programa, program_counter, cpu_liberada, cola_fs, puede_compactar,
                       hilo_fs, servidor>>
    BY <1>2, <1>6 DEF EjecutarFClose, Procesa
  <2>3. f \in Archivo
    BY <1>0, <1>2, <2>1, <2>2, EnMano DEF DeArchivo
  <2>4. archivos_abiertos \in Seq(Archivo) /\ SinRepetir(archivos_abiertos)
    BY <1>1 DEF Llanos, TablaInv
  <2>5. SinRepetir(archivos_abiertos')
        /\ Range(archivos_abiertos') \subseteq Range(archivos_abiertos) => Sigue
    BY <1>2, <2>2 DEF Sigue, EnManos
  <2>6. CASE ~Abierto(f)
    <3>1. UNCHANGED <<estado_actual, colas, archivos_abiertos, cola_bloqueados>>
      BY <1>2, <1>6, <2>1, <2>6 DEF EjecutarFClose
    <3>. QED
      BY <1>0, <2>4, <2>5, <3>1, PasoSigue
  <2>7. CASE Abierto(f) /\ cola_bloqueados[f] = <<>>
    <3>1. /\ archivos_abiertos' = RemoveFirst(archivos_abiertos, f)
          /\ UNCHANGED <<estado_actual, colas, cola_bloqueados>>
      BY <1>2, <1>6, <2>1, <2>7 DEF EjecutarFClose
    <3>2. SinRepetir(archivos_abiertos')
          /\ Range(archivos_abiertos') \subseteq Range(archivos_abiertos)
      BY <2>4, <2>7, <3>1, ColaQuita DEF Abierto
    <3>. QED
      BY <1>0, <2>5, <3>1, <3>2, PasoSigue
  <2>8. CASE Abierto(f) /\ cola_bloqueados[f] # <<>>
    <3>1. /\ cola_bloqueados' = [cola_bloqueados EXCEPT ![f] = Tail(@)]
          /\ UNCHANGED archivos_abiertos
          /\ PasarAColaReady(Head(cola_bloqueados[f])) \/ danio' = "pcb_nulo"
      BY <1>2, <1>6, <2>1, <2>8 DEF EjecutarFClose
    <3>2. Sigue /\ PasarAColaReady(Head(cola_bloqueados[f]))
      BY <2>4, <2>5, <3>1
    <3>. QED
      BY <1>0, <2>3, <2>8, <3>1, <3>2, PasoEntrega
  <2>. QED
    BY <2>6, <2>7, <2>8
<1>7. CASE EjecutarFSeek
  <2>1. Sigue
    BY <1>1, <1>7 DEF EjecutarFSeek, Procesa, Sigue, EnManos, TablaInv
  <2>. QED
    BY <1>0, <1>7, <2>1, PasoSigue DEF EjecutarFSeek
<1>8. CASE ProcesarAcceso
  <2>1. /\ hilo_cpu.pc = "procesa" /\ InstruccionDe(p).codigo \in Accesos
        /\ hilo_cpu' = [hilo_cpu EXCEPT !.pc = "saca"]
        /\ puede_compactar /\ ~puede_compactar'
        /\ EncolarPedido(p)
        /\ UNCHANGED <<procesos, colas, cpu_liberada, en_cpu, tabla, hilo_fs, pedido,
                       respuesta, danio>>
    BY <1>2, <1>8 DEF ProcesarAcceso, Procesa
  <2>2. InstruccionDe(p).codigo \in Bloqueantes /\ InstruccionDe(p).codigo # "F_OPEN"
    BY <2>1 DEF Accesos, Bloqueantes
  <2>. QED
    BY <1>0, <1>2, <2>1, <2>2, PasoPide
<1>9. CASE ProcesarFTruncate
  <2>1. /\ hilo_cpu.pc = "procesa" /\ InstruccionDe(p).codigo = "F_TRUNCATE"
        /\ hilo_cpu' = [hilo_cpu EXCEPT !.pc = "saca"]
        /\ EncolarPedido(p)
        /\ UNCHANGED <<procesos, colas, cpu_liberada, en_cpu, tabla, hilo_fs, pedido,
                       respuesta, puede_compactar, danio>>
    BY <1>2, <1>9 DEF ProcesarFTruncate, Procesa
  <2>2. "F_TRUNCATE" \in Bloqueantes /\ "F_TRUNCATE" \notin Accesos
    BY DEF Accesos, Bloqueantes
  <2>. QED
    BY <1>0, <1>2, <2>1, <2>2, PasoPide
<1>10. CASE HiloCpuSaca \/ HiloCpuMarca \/ HiloCpuApila \/ HiloCpuLibera
  BY <1>0, <1>10, PasoBloquear
<1>11. CASE ProcesarCreateSegment
  <2>1. CASE hilo_cpu'.pc = "espera"
    <3>1. Sigue /\ UNCHANGED <<estado_actual, colas, cola_bloqueados>>
      BY <1>1, <1>11, <2>1
      DEF ProcesarCreateSegment, Procesa, Sigue, EnManos, TablaInv, Llanos
    <3>. QED
      BY <1>0, <3>1, PasoSigue
  <2>2. CASE hilo_cpu'.pc # "espera"
    <3>1. /\ hilo_cpu.pc = "procesa" /\ hilo_cpu' = [hilo_cpu EXCEPT !.pc = "pide_compactar"]
          /\ UNCHANGED <<procesos, colas, cpu_liberada, en_cpu, cola_fs, tabla, hilo_fs,
                         pedido, respuesta, danio, puede_compactar>>
      BY <1>1, <1>11, <2>2 DEF ProcesarCreateSegment, Procesa, Llanos
    <3>. QED
      BY <1>0, <3>1, PasoCompacta
  <2>. QED
    BY <2>1, <2>2
<1>12. CASE PedirCompactacion
  BY <1>0, <1>12, PasoCompacta DEF PedirCompactacion
<1>13. CASE Compactado
  <2>1. Sigue
    BY <1>1, <1>13 DEF Compactado, Sigue, EnManos, TablaInv
  <2>. QED
    BY <1>0, <1>13, <2>1, PasoSigue DEF Compactado
<1>14. CASE ProcesarYield \/ ProcesarExit
  BY <1>0, <1>14, PasoDeja
<1>. QED
  BY <1>3, <1>4, <1>5, <1>6, <1>7, <1>8, <1>9, <1>10, <1>11, <1>12, <1>13, <1>14
  DEF ManejarRespuestaCpu

-----------------------------------------------------------------------------
(* Where each process is: the schedulers and the CPU                       *)

\* A process that is admitted or leaves cola_ready has no request.
LEMMA PasoPlanificadores ==
  ASSUME EstructuraInv, (\E p \in Proc : Admite(p)) \/ Despacha
  PROVE  Partes'
<1> USE DEF procesos, colas, cola_fs, tabla, servidor
<1>0. danio = "ninguno"
  BY DEF Admite, Despacha
<1>1. Llanos /\ TurnoInv /\ LugarInv /\ HiloFsInv /\ CompactarInv /\ TablaInv
      /\ NoProc \notin Proc
  BY <1>0, Vivo
<1>2. UNCHANGED <<programa, program_counter, cola_block, hilo_cpu, cola_fs, tabla,
                  puede_compactar, hilo_fs, servidor, danio>>
  BY DEF Admite, Despacha
<1>3. /\ Pedidos' = Pedidos /\ AccesosEnCurso' = AccesosEnCurso /\ SinSacar' = SinSacar
      /\ \A q : /\ InstruccionDe(q)' = InstruccionDe(q)
                /\ ArchivoDe(q)' = ArchivoDe(q)
                /\ EnSuPrograma(q)' <=> EnSuPrograma(q)
                /\ Bloqueante(q)' <=> Bloqueante(q)
                /\ Adelantado(q)' <=> Adelantado(q)
                /\ VistoBlock(q)' <=> VistoBlock(q)
  BY <1>2, MismosPedidos
<1>4. cola_ready \in Seq(Proc) /\ SinRepetir(cola_ready)
      /\ estado_actual \in [Proc -> Estados] /\ hilo_cpu.pcb \in ProcONull
  BY <1>1 DEF Llanos, LugarInv
<1>5. HiloFsInv' /\ CompactarInv' /\ TablaInv'
  <2>1. HiloFsInv'
    BY <1>1, <1>2, <1>3 DEF HiloFsInv
  <2>2. CompactarInv'
    BY <1>1, <1>2, <1>3 DEF CompactarInv
  <2>3. TablaInv'
    BY <1>1, <1>2, <1>3 DEF TablaInv, AbreInv, Abierto
  <2>. QED
    BY <2>1, <2>2, <2>3
<1>6. CASE \E p \in Proc : Admite(p)
  <2>1. PICK p \in Proc : Admite(p)
    BY <1>6
  <2>2. /\ estado_actual[p] = "NEW" /\ cola_ready' = Append(cola_ready, p)
        /\ \A q \in Proc : estado_actual'[q] = IF q = p THEN "READY" ELSE estado_actual[q]
        /\ UNCHANGED <<cola_exec, cpu_liberada, en_cpu>>
    BY <2>1, <1>4 DEF Admite
  <2>3. LugarDe(p)
    BY <1>1 DEF LugarInv
  <2>4. p \notin Range(cola_ready) /\ p \notin Range(cola_exec) /\ ~EnFila(p)
    BY <2>2, <2>3 DEF LugarDe, ReadyInv, ExecInv, FilaInv, EnFila
  <2>5. p \notin Pedidos
    BY <1>1, <2>2, <2>3, PedidoEstado
  <2>6. Range(cola_ready') = Range(cola_ready) \cup {p} /\ SinRepetir(cola_ready')
    BY <1>4, <2>2, <2>4, ColaAgrega
  <2>7. TurnoInv'
    <3>1. Ejecuta' = Ejecuta
      BY <1>2, <1>3, <2>2 DEF Ejecuta
    <3>2. hilo_cpu.pcb \in Proc =>
              (estado_actual[hilo_cpu.pcb] \notin {"NEW", "EXIT"} =>
               estado_actual'[hilo_cpu.pcb] \notin {"NEW", "EXIT"})
      BY <2>2
    <3>. QED
      BY <1>1, <1>2, <1>3, <2>2, <3>1, <3>2 DEF TurnoInv
  <2>8. LugarDe(p)'
    BY <1>2, <1>3, <2>2, <2>4, <2>5, <2>6
    DEF LugarDe, ReadyInv, ExecInv, FilaInv, PedidoInv, AlgunLugarInv, EnFila
  <2>9. ASSUME NEW q \in Proc, q # p PROVE LugarDe(q)'
    <3>1. LugarDe(q) /\ cola_block[q] \in Nat
      BY <1>0, <1>1, Vivo DEF Llanos
    <3>2. Igual(q)
      BY <1>2, <1>3, <2>2, <2>6, <2>9, <3>1 DEF Igual, Encargado
    <3>. QED
      BY <1>2, <3>1, <3>2, Intacto
  <2>10. LugarInv'
    BY <1>1, <1>2, <2>6, <2>8, <2>9 DEF LugarInv
  <2>. QED
    BY <1>5, <2>7, <2>10 DEF Partes
<1>7. CASE Despacha
  <2>1. PICK p : p = Head(cola_ready)
    OBVIOUS
  <2>2. /\ p \in Proc /\ p \in Range(cola_ready)
        /\ SinRepetir(Tail(cola_ready))
        /\ Range(Tail(cola_ready)) = Range(cola_ready) \ {p}
    BY <1>4, <1>7, <2>1, ColaSaca DEF Despacha
  <2>3. en_cpu = NoProc /\ hilo_cpu.pc = "espera" /\ cola_exec = <<>> /\ cpu_liberada = 1
    BY <1>1, <1>7 DEF Despacha, TurnoInv, Ejecuta, EnManos
  <2>4. /\ cpu_liberada' = 0 /\ cola_ready' = Tail(cola_ready)
        /\ cola_exec' = <<p>> /\ Range(cola_exec') = {p}
        /\ \A q \in Proc : estado_actual'[q] = IF q = p THEN "EXEC" ELSE estado_actual[q]
        /\ en_cpu' = p
    <3>1. /\ cpu_liberada' = cpu_liberada - 1 /\ cola_ready' = Tail(cola_ready)
          /\ cola_exec' = Append(<<>>, p)
          /\ estado_actual' = [estado_actual EXCEPT ![p] = "EXEC"]
          /\ en_cpu' = p
      BY <1>7, <2>1, <2>3 DEF Despacha
    <3>2. Append(<<>>, p) = <<p>>
      OBVIOUS
    <3>. QED
      BY <1>4, <2>3, <3>1, <3>2, ColaDeUno
  <2>5. LugarDe(p)
    BY <1>1, <2>2 DEF LugarInv
  <2>6. p \notin Pedidos /\ ~EnFila(p)
    BY <2>2, <2>5 DEF LugarDe, ReadyInv
  <2>7. TurnoInv'
    BY <1>1, <1>2, <2>2, <2>3, <2>4 DEF TurnoInv, Ejecuta
  <2>8. LugarDe(p)'
    BY <1>2, <1>3, <2>2, <2>4, <2>6
    DEF LugarDe, ReadyInv, ExecInv, FilaInv, PedidoInv, AlgunLugarInv, EnFila
  <2>9. ASSUME NEW q \in Proc, q # p PROVE LugarDe(q)'
    <3>1. LugarDe(q) /\ cola_block[q] \in Nat
      BY <1>0, <1>1, Vivo DEF Llanos
    <3>2. q \notin Range(cola_exec)
      BY <2>3, ColaVacia
    <3>3. Igual(q)
      BY <1>2, <1>3, <2>2, <2>4, <2>9, <3>1, <3>2 DEF Igual, Encargado
    <3>. QED
      BY <1>2, <3>1, <3>3, Intacto
  <2>10. LugarInv'
    BY <1>1, <1>2, <2>2, <2>4, <2>8, <2>9 DEF LugarInv
  <2>. QED
    BY <1>5, <2>7, <2>10 DEF Partes
<1>. QED
  BY <1>6, <1>7

\* The CPU gives the process back: its counter moves, and nobody has its request.
LEMMA PasoCpuDevuelve ==
  ASSUME EstructuraInv, CpuDevuelve
  PROVE  Partes'
<1> USE DEF procesos, colas, cola_fs, tabla, servidor
<1>0. danio = "ninguno"
  BY DEF CpuDevuelve
<1>1. Llanos /\ TurnoInv /\ LugarInv /\ HiloFsInv /\ CompactarInv /\ TablaInv
      /\ NoProc \notin Proc
  BY <1>0, Vivo
<1>2. PICK p : p = en_cpu
  OBVIOUS
<1>3. /\ p \in Proc /\ hilo_cpu.pc = "espera" /\ cola_exec = <<p>> /\ cpu_liberada = 0
      /\ Head(cola_exec) = p /\ p \in Range(cola_exec)
  <2>1. p \in Proc /\ hilo_cpu.pc = "espera" /\ cola_exec = <<p>> /\ cpu_liberada = 0
    BY <1>1, <1>2 DEF CpuDevuelve, TurnoInv, Ejecuta, Llanos, ProcONull
  <2>. QED
    BY <2>1, ColaDeUno
<1>4. LugarDe(p)
  BY <1>1, <1>3 DEF LugarInv
<1>5. p \notin Pedidos /\ ~EnFila(p) /\ p \notin Range(cola_ready)
  BY <1>1, <1>2, <1>3, <1>4, PedidoEstado DEF LugarDe, ExecInv, ReadyInv
<1>6. /\ program_counter[p] < Len(programa[p])
      /\ program_counter' = [program_counter EXCEPT ![p] = program_counter[p] + 1]
      /\ en_cpu' = NoProc /\ hilo_cpu' = [pc |-> "procesa", pcb |-> p]
      /\ UNCHANGED <<programa, estado_actual, colas, cpu_liberada, cola_fs, tabla,
                     puede_compactar, hilo_fs, servidor, danio>>
  BY <1>2, <1>3 DEF CpuDevuelve
<1>7. /\ \A q \in Proc : q # p => program_counter'[q] = program_counter[q]
      /\ program_counter'[p] = program_counter[p] + 1
      /\ program_counter[p] \in Nat /\ Len(programa[p]) \in Nat
  <2>1. program_counter \in [Proc -> Nat] /\ programa[p] \in Seq(Instruccion)
    BY <1>1, <1>3 DEF Llanos
  <2>. QED
    BY <1>3, <1>6, <2>1
<1>8. \A q \in Proc : q # p => /\ InstruccionDe(q)' = InstruccionDe(q)
                               /\ ArchivoDe(q)' = ArchivoDe(q)
                               /\ EnSuPrograma(q)' <=> EnSuPrograma(q)
                               /\ Bloqueante(q)' <=> Bloqueante(q)
  BY <1>6, <1>7 DEF InstruccionDe, ArchivoDe, EnSuPrograma, Bloqueante
<1>9. /\ Pedidos' = Pedidos /\ Pedidos \subseteq Proc /\ SinSacar' = SinSacar
      /\ \A q : /\ Adelantado(q)' <=> Adelantado(q)
                /\ VistoBlock(q)' <=> VistoBlock(q)
  <2>1. \A q \in Pedidos : q \in Proc
    BY <1>0, QuienPide
  <2>2. Pedidos' = Pedidos
    BY <1>6 DEF Pedidos
  <2>3. \A q : /\ Adelantado(q)' <=> Adelantado(q)
               /\ VistoBlock(q)' <=> VistoBlock(q)
    BY <1>6 DEF Adelantado, VistoBlock
  <2>. QED
    BY <2>1, <2>2, <2>3 DEF SinSacar
<1>10. AccesosEnCurso' = AccesosEnCurso
  BY <1>5, <1>6, <1>8, <1>9 DEF AccesosEnCurso
<1>11. EnSuPrograma(p)'
  BY <1>6, <1>7 DEF EnSuPrograma
<1>12. TurnoInv'
  <2>1. Ejecuta' = <<p>>
    BY <1>6 DEF Ejecuta, EnManos
  <2>. QED
    BY <1>3, <1>6, <1>11, <2>1 DEF TurnoInv
<1>13. LugarDe(p)'
  <2>1. estado_actual[p] = "EXEC"
    BY <1>3, <1>4 DEF LugarDe, ExecInv
  <2>. QED
    BY <1>3, <1>5, <1>6, <1>9, <2>1
    DEF LugarDe, ReadyInv, ExecInv, FilaInv, PedidoInv, AlgunLugarInv, EnFila
<1>14. ASSUME NEW q \in Proc, q # p PROVE LugarDe(q)'
  <2>1. LugarDe(q) /\ cola_block[q] \in Nat
    BY <1>0, <1>1, Vivo DEF Llanos
  <2>2. Igual(q)
    BY <1>3, <1>6, <1>7, <1>9, <1>14, <2>1 DEF Igual, Encargado
  <2>. QED
    BY <1>6, <2>1, <2>2, Intacto
<1>15. LugarInv'
  BY <1>1, <1>6, <1>13, <1>14 DEF LugarInv
<1>16. HiloFsInv'
  <2>1. hilo_fs.pc # "espera" => /\ InstruccionDe(hilo_fs.pcb)' = InstruccionDe(hilo_fs.pcb)
                                 /\ ArchivoDe(hilo_fs.pcb)' = ArchivoDe(hilo_fs.pcb)
    <3>1. hilo_fs.pc # "espera" => hilo_fs.pcb \in Pedidos
      BY <1>0, QuienAtiende
    <3>2. PICK h : h = hilo_fs.pcb
      OBVIOUS
    <3>3. hilo_fs' = hilo_fs
      BY <1>6
    <3>4. hilo_fs.pc # "espera" => /\ InstruccionDe(h)' = InstruccionDe(h)
                                   /\ ArchivoDe(h)' = ArchivoDe(h)
      BY <1>5, <1>8, <1>9, <3>1, <3>2
    <3>. QED
      BY <3>2, <3>3, <3>4 DEF InstruccionDe, ArchivoDe
  <2>. QED
    BY <1>1, <1>3, <1>6, <1>9, <2>1 DEF HiloFsInv, Recibiendo, Despertando
<1>17. CompactarInv'
  BY <1>1, <1>3, <1>6, <1>10 DEF CompactarInv
<1>18. TablaInv'
  <2>1. ASSUME NEW q \in Proc PROVE AbreInv(q)'
    <3>1. CASE q = p
      BY <1>5, <1>9, <3>1 DEF AbreInv
    <3>2. CASE q # p
      BY <1>1, <1>6, <1>8, <1>9, <3>2 DEF AbreInv, TablaInv, Abierto
    <3>. QED
      BY <3>1, <3>2
  <2>. QED
    BY <1>1, <1>6, <2>1 DEF TablaInv
<1>. QED
  BY <1>12, <1>15, <1>16, <1>17, <1>18 DEF Partes

-----------------------------------------------------------------------------
(* Where each process is: the thread of the file system                    *)

\* A step of it that moves no process.
LEMMA MismosLugares ==
  ASSUME EstructuraInv, danio = "ninguno", Pedidos' = Pedidos,
         hilo_fs.pc \notin Despertando, hilo_fs'.pc \notin Despertando,
         hilo_fs'.visto # "BLOCK",
         UNCHANGED <<programa, program_counter, estado_actual, colas, cpu_liberada, en_cpu,
                     hilo_cpu, cola_bloqueados, archivos_abiertos, puede_compactar>>
  PROVE  TurnoInv' /\ LugarInv' /\ CompactarInv' /\ TablaInv'
<1>1. Llanos /\ TurnoInv /\ LugarInv /\ CompactarInv /\ TablaInv
  BY Vivo
<1>2. \A q : /\ InstruccionDe(q)' = InstruccionDe(q)
             /\ ArchivoDe(q)' = ArchivoDe(q)
             /\ EnSuPrograma(q)' <=> EnSuPrograma(q)
  BY DEF InstruccionDe, ArchivoDe, EnSuPrograma
<1>3. AccesosEnCurso' = AccesosEnCurso
  BY <1>2 DEF AccesosEnCurso, Despertando
<1>9. \A q : ~Adelantado(q) /\ ~Adelantado(q)' /\ ~VistoBlock(q) /\ ~VistoBlock(q)'
  <2>1. hilo_fs.visto = "NADA"
    BY Vivo DEF HiloFsInv
  <2>. QED
    BY <2>1 DEF Adelantado, VistoBlock, Despertando
<1>10. SinSacar' = SinSacar
  BY <1>9 DEF SinSacar
<1>4. TurnoInv'
  BY <1>1, <1>2, <1>10 DEF TurnoInv, Ejecuta, colas
<1>5. ASSUME NEW p \in Proc PROVE LugarDe(p)'
  <2>1. LugarDe(p) /\ cola_block[p] \in Nat
    BY <1>1 DEF Llanos, LugarInv
  <2>2. Igual(p)
    BY <1>9, <2>1 DEF Igual, Encargado, colas
  <2>. QED
    BY <2>1, <2>2, Intacto DEF colas
<1>6. LugarInv'
  BY <1>1, <1>5 DEF LugarInv, colas
<1>7. CompactarInv'
  BY <1>1, <1>3 DEF CompactarInv
<1>8. TablaInv'
  BY <1>1, <1>2 DEF TablaInv, AbreInv, Abierto
<1>. QED
  BY <1>4, <1>6, <1>7, <1>8

\* Taking a request, asking for the creation and for the opening again, and the
\* answer of the FileSystem.
LEMMA PasoAtiende ==
  ASSUME EstructuraInv, danio' = "ninguno",
         ProcesarRequestFs \/ RecibirNoExiste \/ RecibirCreado \/ AtenderRequest
  PROVE  Partes'
<1> USE DEF procesos, colas, cola_fs, tabla, servidor
<1>0. danio = "ninguno"
  BY DEF ProcesarRequestFs, RecibirNoExiste, RecibirCreado, Recibe, AtenderRequest
<1>1. Llanos /\ HiloFsInv /\ NoProc \notin Proc
  BY <1>0, Vivo
<1>2. UNCHANGED <<programa, program_counter, estado_actual, colas, cpu_liberada, en_cpu,
                  hilo_cpu, cola_bloqueados, archivos_abiertos, puede_compactar, f_open_done>>
  BY DEF ProcesarRequestFs, RecibirNoExiste, RecibirCreado, Recibe, AtenderRequest
<1>3. \A q : /\ InstruccionDe(q)' = InstruccionDe(q)
             /\ ArchivoDe(q)' = ArchivoDe(q)
  BY <1>2 DEF InstruccionDe, ArchivoDe
<1>4. Pedidos' = Pedidos /\ HiloFsInv'
  <2>1. CASE ProcesarRequestFs
    <3>1. PICK p : p = Head(cola_archivos)
      OBVIOUS
    <3>2. /\ p \in Pedidos /\ Pedidos = Range(cola_archivos)
          /\ SinRepetir(Tail(cola_archivos))
          /\ Range(Tail(cola_archivos)) = Range(cola_archivos) \ {p}
      BY <1>0, <2>1, <3>1, QuienSigue DEF ProcesarRequestFs
    <3>3. p \in Proc /\ InstruccionDe(p).codigo \in DeArchivo
      BY <1>0, <3>2, QuienPide
    <3>4. /\ hilo_fs' = [pc |-> "recibe", pcb |-> p, visto |-> "NADA"]
          /\ cola_archivos' = Tail(cola_archivos)
          /\ respuesta' = respuesta /\ hilo_fs.pc = "espera"
          /\ Enviar(InstruccionDe(p).codigo, p, ArchivoDe(p))
      BY <2>1, <3>1 DEF ProcesarRequestFs, ArchivoDe
    <3>5. Pedidos' = Pedidos
      BY <1>1, <3>2, <3>3, <3>4 DEF Pedidos
    <3>6. respuesta = "NINGUNA"
      BY <1>1, <3>4 DEF HiloFsInv, Recibiendo
    <3>7. /\ pedido'.codigo = InstruccionDe(p).codigo
          /\ pedido'.pid = p
          /\ pedido'.archivo = ArchivoDe(p)
          /\ pedido' # SinPedido
      BY <3>3, <3>4 DEF Enviar, SinPedido, DeArchivo
    <3>8. hilo_fs'.pc = "recibe" /\ hilo_fs'.pcb = p /\ p # NoProc /\ hilo_fs'.visto = "NADA"
      BY <1>1, <3>3, <3>4
    <3>9. p \notin Range(cola_archivos')
      BY <3>2, <3>4
    <3>10. f_open_done' = IF hilo_cpu'.pc = "espera_apertura" /\ hilo_cpu'.pcb \notin Pedidos'
                          THEN 1 ELSE 0
      BY <1>1, <1>2, <3>5 DEF HiloFsInv
    <3>11. pedido'.codigo = InstruccionDe(p)'.codigo /\ pedido'.archivo = ArchivoDe(p)'
      BY <1>3, <3>7
    <3>. QED
      BY <3>2, <3>4, <3>5, <3>6, <3>7, <3>8, <3>9, <3>10, <3>11
      DEF HiloFsInv, InstruccionDe, ArchivoDe, Recibiendo, Despertando
  <2>2. CASE RecibirNoExiste \/ RecibirCreado
    <3>1. PICK p : p = hilo_fs.pcb
      OBVIOUS
    <3>2. /\ hilo_fs'.pcb = p /\ cola_archivos' = cola_archivos /\ respuesta' = "NINGUNA"
          /\ hilo_fs'.visto = hilo_fs.visto
          /\ \/ /\ hilo_fs.pc = "recibe" /\ hilo_fs'.pc = "recibe_creacion"
                /\ respuesta = "F_NOT_EXISTS"
                /\ Enviar("F_CREATE", p, ArchivoDe(p))
             \/ /\ hilo_fs.pc = "recibe_creacion" /\ hilo_fs'.pc = "recibe"
                /\ Enviar("F_OPEN", p, ArchivoDe(p))
      BY <1>1, <2>2, <3>1 DEF RecibirNoExiste, RecibirCreado, Recibe, Llanos
    <3>3. Pedidos' = Pedidos
      BY <3>1, <3>2 DEF Pedidos
    <3>4. InstruccionDe(p).codigo = "F_OPEN"
      <4>1. CASE hilo_fs.pc = "recibe_creacion"
        BY <1>1, <3>1, <4>1 DEF HiloFsInv, Recibiendo
      <4>2. CASE hilo_fs.pc = "recibe"
        <5>1. respuesta = "F_NOT_EXISTS"
          BY <3>2, <4>2
        <5>2. pedido = SinPedido
          BY <1>1, <4>2, <5>1 DEF HiloFsInv, Recibiendo
        <5>3. "F_NOT_EXISTS" \in Contesta(InstruccionDe(p).codigo)
          BY <1>1, <3>1, <4>2, <5>1, <5>2 DEF HiloFsInv, Recibiendo
        <5>. QED
          BY <5>3 DEF Contesta
      <4>. QED
        BY <3>2, <4>1, <4>2
    <3>5. /\ pedido'.codigo = IF hilo_fs'.pc = "recibe" THEN InstruccionDe(p).codigo
                              ELSE "F_CREATE"
          /\ pedido'.pid = p
          /\ pedido'.archivo = ArchivoDe(p)
          /\ pedido' # SinPedido
      BY <3>2, <3>4 DEF Enviar, SinPedido
    <3>6. /\ pedido'.codigo = IF hilo_fs'.pc = "recibe" THEN InstruccionDe(p)'.codigo
                              ELSE "F_CREATE"
          /\ pedido'.archivo = ArchivoDe(p)'
          /\ InstruccionDe(p)'.codigo = "F_OPEN"
      BY <1>3, <3>4, <3>5
    <3>7. p # NoProc /\ p \notin Range(cola_archivos) /\ SinRepetir(cola_archivos)
      BY <1>1, <3>1, <3>2 DEF HiloFsInv
    <3>8. f_open_done' = IF hilo_cpu'.pc = "espera_apertura" /\ hilo_cpu'.pcb \notin Pedidos'
                         THEN 1 ELSE 0
      BY <1>1, <1>2, <3>3 DEF HiloFsInv
    <3>9. hilo_fs'.pc \in Recibiendo /\ hilo_fs'.pc \notin Despertando /\ hilo_fs'.pc # "espera"
      BY <3>2 DEF Recibiendo, Despertando
    <3>10. hilo_fs'.visto = "NADA"
      BY <1>1, <3>2 DEF HiloFsInv, Recibiendo, Despertando
    <3>. QED
      BY <3>2, <3>3, <3>5, <3>6, <3>7, <3>8, <3>9, <3>10 DEF HiloFsInv, InstruccionDe, ArchivoDe
  <2>3. CASE AtenderRequest
    <3>1. /\ pedido # SinPedido /\ pedido' = SinPedido
          /\ UNCHANGED <<cola_archivos, hilo_fs>>
      BY <2>3 DEF AtenderRequest
    <3>2. Pedidos' = Pedidos
      BY <3>1 DEF Pedidos
    <3>3. PICK p : p = hilo_fs.pcb
      OBVIOUS
    <3>4. hilo_fs.pc \in Recibiendo /\ hilo_fs.pc # "espera" /\ hilo_fs.pc \notin Despertando
      BY <1>1, <3>1 DEF HiloFsInv, Recibiendo, Despertando
    <3>5. p \in Pedidos
      BY <1>0, <3>3, <3>4, QuienAtiende
    <3>6. InstruccionDe(p).codigo \in {"F_OPEN", "F_READ", "F_WRITE", "F_TRUNCATE"}
      BY <1>0, <3>5, QuienPide DEF Bloqueantes, Accesos
    <3>7. pedido.codigo = IF hilo_fs.pc = "recibe" THEN InstruccionDe(p).codigo ELSE "F_CREATE"
      BY <1>1, <3>1, <3>3, <3>4 DEF HiloFsInv
    <3>8. respuesta' \in Contesta(pedido.codigo)
      BY <2>3, <3>6, <3>7 DEF AtenderRequest, Contesta
    <3>9. respuesta' \in Contesta(IF hilo_fs'.pc = "recibe" THEN InstruccionDe(p)'.codigo
                                                            ELSE "F_CREATE")
      BY <1>3, <3>1, <3>7, <3>8
    <3>10. f_open_done' = IF hilo_cpu'.pc = "espera_apertura" /\ hilo_cpu'.pcb \notin Pedidos'
                          THEN 1 ELSE 0
      BY <1>1, <1>2, <3>2 DEF HiloFsInv
    <3>11. hilo_fs'.pc = "recibe_creacion" => InstruccionDe(p)'.codigo = "F_OPEN"
      BY <1>1, <1>3, <3>1, <3>3, <3>4 DEF HiloFsInv
    <3>. QED
      BY <1>1, <3>1, <3>2, <3>3, <3>4, <3>9, <3>10, <3>11 DEF HiloFsInv, InstruccionDe
  <2>. QED
    BY <2>1, <2>2, <2>3
<1>5. /\ hilo_fs.pc \notin Despertando /\ hilo_fs'.pc \notin Despertando
      /\ hilo_fs'.visto # "BLOCK"
  <2>1. hilo_fs.pc \notin Despertando
    BY <1>1 DEF ProcesarRequestFs, RecibirNoExiste, RecibirCreado, Recibe, AtenderRequest,
       HiloFsInv, Recibiendo, Despertando
  <2>2. hilo_fs'.pc \notin Despertando
    BY <1>1, <2>1 DEF ProcesarRequestFs, RecibirNoExiste, RecibirCreado, Recibe, AtenderRequest,
       Llanos, Despertando
  <2>. QED
    BY <1>4, <2>1, <2>2 DEF HiloFsInv
<1>. QED
  BY <1>0, <1>2, <1>4, <1>5, MismosLugares DEF Partes

\* The end of a request: nobody has it any more.
LEMMA PedidosMenos ==
  ASSUME EstructuraInv, danio = "ninguno", hilo_fs' = Ocioso, hilo_fs.pc # "espera",
         NEW p, p = hilo_fs.pcb, UNCHANGED <<programa, program_counter, cola_archivos>>
  PROVE  /\ p \in Proc /\ p \in Pedidos /\ LugarDe(p) /\ ArchivoDe(p) \in Archivo
         /\ Pedidos' = Pedidos \ {p}
         /\ \A q : /\ InstruccionDe(q)' = InstruccionDe(q)
                   /\ ArchivoDe(q)' = ArchivoDe(q)
                   /\ EnSuPrograma(q)' <=> EnSuPrograma(q)
                   /\ Bloqueante(q)' <=> Bloqueante(q)
                   /\ q # p => /\ Adelantado(q)' <=> Adelantado(q)
                               /\ VistoBlock(q)' <=> VistoBlock(q)
         /\ SinRepetir(cola_archivos') /\ NoProc \notin Range(cola_archivos')
         /\ hilo_fs'.pcb = NoProc /\ hilo_fs'.pc = "espera" /\ hilo_fs'.visto = "NADA"
<1>1. HiloFsInv /\ cola_archivos \in Seq(Proc) /\ NoProc \notin Proc
  BY Vivo DEF Llanos
<1>2. p \in Pedidos /\ p # NoProc /\ p \notin Range(cola_archivos)
  BY QuienAtiende
<1>3. p \in Proc /\ LugarDe(p) /\ ArchivoDe(p) \in Archivo
  BY <1>2, QuienPide
<1>4. Pedidos' = Pedidos \ {p}
  BY <1>2 DEF Pedidos, Ocioso
<1>5. \A q : q # p => /\ Adelantado(q)' <=> Adelantado(q)
                      /\ VistoBlock(q)' <=> VistoBlock(q)
  BY DEF Adelantado, VistoBlock, Ocioso
<1>6. NoProc \notin Range(cola_archivos)
  BY <1>1 DEF Range
<1>. QED
  BY <1>1, <1>2, <1>3, <1>4, <1>5, <1>6
  DEF HiloFsInv, Ocioso, InstruccionDe, ArchivoDe, EnSuPrograma, Bloqueante

\* What the FileSystem answers is of the kind of the request.
LEMMA Respondido ==
  ASSUME EstructuraInv, danio = "ninguno", hilo_fs.pc = "recibe", respuesta # "NINGUNA",
         NEW p, p = hilo_fs.pcb
  PROVE  pedido = SinPedido /\ respuesta \in Contesta(InstruccionDe(p).codigo)
<1>1. HiloFsInv
  BY Vivo
<1>. QED
  BY <1>1 DEF HiloFsInv, Recibiendo

\* F_OPEN_OK: the thread of the answers of the CPU is waiting for it.
LEMMA PasoAbierto ==
  ASSUME EstructuraInv, RecibirAbierto
  PROVE  Partes'
<1> USE DEF procesos, colas, cola_fs, tabla, servidor
<1>0. danio = "ninguno"
  BY DEF RecibirAbierto, Recibe
<1>1. Llanos /\ TurnoInv /\ LugarInv /\ HiloFsInv /\ CompactarInv /\ TablaInv
      /\ NoProc \notin Proc
  BY <1>0, Vivo
<1>2. PICK p : p = hilo_fs.pcb
  OBVIOUS
<1>3. /\ hilo_fs.pc = "recibe" /\ hilo_fs' = Ocioso /\ respuesta = "F_OPEN_OK"
      /\ respuesta' = "NINGUNA"
      /\ archivos_abiertos' = Append(archivos_abiertos, ArchivoDe(p))
      /\ f_open_done' = f_open_done + 1
      /\ UNCHANGED <<programa, program_counter, cpu_liberada, en_cpu, hilo_cpu, cola_archivos,
                     request_file_system, cola_bloqueados, existentes>>
      /\ UNCHANGED <<estado_actual, colas, pedido, puede_compactar, danio>>
  BY <1>2 DEF RecibirAbierto, Recibe
<1>4. /\ p \in Proc /\ p \in Pedidos /\ LugarDe(p) /\ ArchivoDe(p) \in Archivo
      /\ Pedidos' = Pedidos \ {p}
      /\ \A q : /\ InstruccionDe(q)' = InstruccionDe(q)
                /\ ArchivoDe(q)' = ArchivoDe(q)
                /\ EnSuPrograma(q)' <=> EnSuPrograma(q)
                /\ Bloqueante(q)' <=> Bloqueante(q)
                /\ q # p => /\ Adelantado(q)' <=> Adelantado(q)
                            /\ VistoBlock(q)' <=> VistoBlock(q)
      /\ SinRepetir(cola_archivos') /\ NoProc \notin Range(cola_archivos')
      /\ hilo_fs'.pcb = NoProc /\ hilo_fs'.pc = "espera" /\ hilo_fs'.visto = "NADA"
  BY <1>0, <1>2, <1>3, PedidosMenos
<1>5. pedido = SinPedido /\ InstruccionDe(p).codigo = "F_OPEN"
  BY <1>0, <1>2, <1>3, Respondido DEF Contesta
<1>6. hilo_cpu.pc = "espera_apertura" /\ hilo_cpu.pcb = p
  BY <1>4, <1>5 DEF LugarDe, PedidoInv, Encargado
<1>7. TurnoInv'
  <2>1. Ejecuta' = Ejecuta
    BY <1>3, <1>6 DEF Ejecuta, EnManos
  <2>. QED
    BY <1>1, <1>3, <1>4, <2>1 DEF TurnoInv
<1>8. LugarDe(p)'
  <2>1. p \in Range(cola_exec)
    BY <1>1, <1>4, <1>6, QuienEjecuta DEF EnManos
  <2>. QED
    BY <1>3, <1>4, <2>1
    DEF LugarDe, ReadyInv, ExecInv, FilaInv, PedidoInv, AlgunLugarInv, EnFila
<1>9. ASSUME NEW q \in Proc, q # p PROVE LugarDe(q)'
  <2>1. LugarDe(q) /\ cola_block[q] \in Nat
    BY <1>1 DEF Llanos, LugarInv
  <2>2. Igual(q)
    BY <1>3, <1>4, <1>9, <2>1 DEF Igual, Encargado
  <2>. QED
    BY <1>3, <2>1, <2>2, Intacto
<1>10. LugarInv'
  BY <1>1, <1>3, <1>8, <1>9 DEF LugarInv
<1>11. HiloFsInv'
  <2>1. f_open_done = 0
    BY <1>1, <1>4, <1>6 DEF HiloFsInv
  <2>2. f_open_done' = IF hilo_cpu'.pc = "espera_apertura" /\ hilo_cpu'.pcb \notin Pedidos'
                       THEN 1 ELSE 0
    BY <1>3, <1>4, <1>6, <2>1
  <2>. QED
    BY <1>3, <1>4, <1>5, <2>2 DEF HiloFsInv, Recibiendo, Despertando
<1>12. CompactarInv'
  <2>1. AccesosEnCurso' = AccesosEnCurso
    BY <1>2, <1>4, <1>5 DEF AccesosEnCurso, Accesos
  <2>. QED
    BY <1>1, <1>3, <2>1 DEF CompactarInv
<1>13. TablaInv'
  <2>1. ~Abierto(ArchivoDe(p))
    BY <1>1, <1>4, <1>5 DEF TablaInv, AbreInv
  <2>2. SinRepetir(archivos_abiertos')
    BY <1>1, <1>3, <1>4, <2>1, ColaAgrega DEF Llanos, TablaInv, Abierto
  <2>3. ASSUME NEW q \in Proc PROVE AbreInv(q)'
    <3>1. LugarDe(q)
      BY <1>1 DEF LugarInv
    <3>2. q \in Pedidos /\ InstruccionDe(q).codigo = "F_OPEN" => q = p
      BY <1>6, <3>1 DEF LugarDe, PedidoInv, Encargado
    <3>. QED
      BY <1>4, <3>2 DEF AbreInv
  <2>. QED
    BY <2>2, <2>3 DEF TablaInv
<1>. QED
  BY <1>7, <1>10, <1>11, <1>12, <1>13 DEF Partes

\* F_READ_OK, F_WRITE_OK and F_TRUNCATE_OK: the state of the process is read, and it
\* stays where it is.
LEMMA PasoDespierta ==
  ASSUME EstructuraInv, RecibirTruncado \/ RecibirAcceso, danio' = "ninguno"
  PROVE  Partes'
<1> USE DEF procesos, colas, cola_fs, tabla, servidor
<1>0. danio = "ninguno"
  BY DEF RecibirTruncado, RecibirAcceso, Recibe
<1>1. Llanos /\ TurnoInv /\ LugarInv /\ HiloFsInv /\ CompactarInv /\ TablaInv
      /\ NoProc \notin Proc
  BY <1>0, Vivo
<1>2. PICK p : p = hilo_fs.pcb
  OBVIOUS
<1>3. /\ hilo_fs.pc = "recibe"
      /\ hilo_fs'.pc = "despierta" /\ hilo_fs'.pcb = p /\ hilo_fs'.visto = estado_actual[p]
      /\ respuesta \in {"F_TRUNCATE_OK", "F_READ_OK", "F_WRITE_OK"}
      /\ respuesta' = "NINGUNA"
      /\ UNCHANGED <<programa, program_counter, cpu_liberada, en_cpu, hilo_cpu, cola_archivos,
                     cola_bloqueados>>
      /\ UNCHANGED <<estado_actual, colas, f_open_done, archivos_abiertos, pedido>>
  BY <1>1, <1>2 DEF RecibirTruncado, RecibirAcceso, Recibe, Despertar, Despierta, Llanos
<1>4. /\ p \in Proc /\ p \in Pedidos /\ LugarDe(p) /\ p # NoProc
      /\ p \notin Range(cola_archivos)
  BY <1>0, <1>2, <1>3, QuienAtiende, QuienPide
<1>5. /\ InstruccionDe(p).codigo \in Bloqueantes
      /\ InstruccionDe(p).codigo \in Accesos <=> respuesta # "F_TRUNCATE_OK"
      /\ pedido = SinPedido
  BY <1>0, <1>2, <1>3, Respondido DEF Contesta, Bloqueantes, Accesos
<1>6. \A q : /\ InstruccionDe(q)' = InstruccionDe(q)
             /\ ArchivoDe(q)' = ArchivoDe(q)
             /\ EnSuPrograma(q)' <=> EnSuPrograma(q)
             /\ Bloqueante(q)' <=> Bloqueante(q)
             /\ ~Adelantado(q) /\ ~Adelantado(q)'
             /\ q # p => ~VistoBlock(q) /\ ~VistoBlock(q)'
  BY <1>2, <1>3 DEF InstruccionDe, ArchivoDe, EnSuPrograma, Bloqueante, Adelantado, VistoBlock
<1>7. Pedidos' = Pedidos /\ SinSacar' = SinSacar
  <2>1. Pedidos' = Pedidos
    BY <1>2, <1>3 DEF Pedidos
  <2>. QED
    BY <1>6, <2>1 DEF SinSacar
<1>8. TurnoInv'
  <2>1. Ejecuta' = Ejecuta
    BY <1>3, <1>7 DEF Ejecuta
  <2>. QED
    BY <1>1, <1>3, <1>6, <2>1 DEF TurnoInv
<1>9. LugarDe(p)'
  <2>1. PedidoInv(p)'
    <3>1. VistoBlock(p)' => estado_actual'[p] = "BLOCK"
      BY <1>3 DEF VistoBlock
    <3>. QED
      BY <1>3, <1>4, <1>6, <3>1 DEF LugarDe, PedidoInv, Encargado
  <2>2. ReadyInv(p)' /\ ExecInv(p)' /\ FilaInv(p)' /\ AlgunLugarInv(p)'
    BY <1>3, <1>4, <1>6, <1>7 DEF LugarDe, ReadyInv, ExecInv, FilaInv, AlgunLugarInv, EnFila
  <2>. QED
    BY <2>1, <2>2 DEF LugarDe
<1>10. ASSUME NEW q \in Proc, q # p PROVE LugarDe(q)'
  <2>1. LugarDe(q) /\ cola_block[q] \in Nat
    BY <1>1 DEF Llanos, LugarInv
  <2>2. Igual(q)
    BY <1>3, <1>6, <1>7, <1>10, <2>1 DEF Igual, Encargado
  <2>. QED
    BY <1>3, <2>1, <2>2, Intacto
<1>11. LugarInv'
  BY <1>1, <1>3, <1>9, <1>10 DEF LugarInv
<1>12. HiloFsInv'
  <2>1. hilo_fs'.visto \in {"EXEC", "BLOCK"}
    BY <1>1, <1>3, <1>4, PedidoEstado
  <2>2. InstruccionDe(p)'.codigo \in Bloqueantes
    BY <1>5, <1>6
  <2>3. f_open_done' = IF hilo_cpu'.pc = "espera_apertura" /\ hilo_cpu'.pcb \notin Pedidos'
                       THEN 1 ELSE 0
    BY <1>1, <1>3, <1>7 DEF HiloFsInv
  <2>4. SinRepetir(cola_archivos') /\ p \notin Range(cola_archivos')
    BY <1>1, <1>3, <1>4 DEF HiloFsInv
  <2>. QED
    BY <1>3, <1>4, <1>5, <2>1, <2>2, <2>3, <2>4
    DEF HiloFsInv, Recibiendo, Despertando, InstruccionDe
<1>13. AccesosEnCurso' = AccesosEnCurso \ {p}
  BY <1>2, <1>3, <1>6, <1>7 DEF AccesosEnCurso
<1>14. CompactarInv'
  <2>1. CASE InstruccionDe(p).codigo \in Accesos
    <3>1. p \in AccesosEnCurso
      BY <1>3, <1>4, <2>1 DEF AccesosEnCurso
    <3>2. AccesosEnCurso' = {} /\ hilo_cpu.pc # "compacta"
      BY <1>1, <1>13, <3>1 DEF CompactarInv
    <3>3. puede_compactar'
      BY <1>3, <1>5, <2>1 DEF RecibirTruncado, RecibirAcceso, Recibe
    <3>. QED
      BY <1>3, <3>2, <3>3 DEF CompactarInv
  <2>2. CASE InstruccionDe(p).codigo \notin Accesos
    <3>1. AccesosEnCurso' = AccesosEnCurso
      BY <1>13, <2>2 DEF AccesosEnCurso
    <3>2. puede_compactar' = puede_compactar
      BY <1>3, <1>5, <2>2 DEF RecibirTruncado, RecibirAcceso, Recibe
    <3>. QED
      BY <1>1, <1>3, <3>1, <3>2 DEF CompactarInv
  <2>. QED
    BY <2>1, <2>2
<1>15. TablaInv'
  BY <1>1, <1>3, <1>6, <1>7 DEF TablaInv, AbreInv, Abierto
<1>. QED
  BY <1>8, <1>11, <1>12, <1>14, <1>15 DEF Partes

\* The thread takes the process out of the queue it saw it in: cola_block, or cola_exec
\* if the other thread has not popped it yet.
LEMMA PasoFsSaca ==
  ASSUME EstructuraInv, HiloFsSaca, danio' = "ninguno"
  PROVE  Partes'
<1> USE DEF procesos, colas, cola_fs, tabla, servidor
<1>0. danio = "ninguno"
  BY DEF HiloFsSaca
<1>1. Llanos /\ TurnoInv /\ LugarInv /\ HiloFsInv /\ CompactarInv /\ TablaInv
      /\ NoProc \notin Proc
  BY <1>0, Vivo
<1>2. PICK p : p = hilo_fs.pcb
  OBVIOUS
<1>3. /\ hilo_fs.pc = "despierta"
      /\ UNCHANGED <<programa, program_counter, estado_actual, cola_ready, cpu_liberada, en_cpu,
                     hilo_cpu, cola_archivos, f_open_done, archivos_abiertos, cola_bloqueados,
                     puede_compactar, pedido, respuesta>>
      /\ hilo_fs'.pc = "apila" /\ hilo_fs'.pcb = p /\ hilo_fs'.visto = hilo_fs.visto
      /\ \/ hilo_fs.visto = "BLOCK" /\ QuitarDeBlock(p) /\ UNCHANGED cola_exec
         \/ /\ hilo_fs.visto = "EXEC" /\ cola_exec # <<>> /\ Head(cola_exec) = p
            /\ cola_exec' = Tail(cola_exec) /\ UNCHANGED cola_block
  <2>1. (danio' = IF Head(cola_exec) = p THEN danio ELSE "pcb_ajeno") => Head(cola_exec) = p
    OBVIOUS
  <2>. QED
    BY <1>1, <1>2, <2>1 DEF HiloFsSaca, Llanos
<1>4. /\ p \in Proc /\ p \in Pedidos /\ LugarDe(p) /\ p # NoProc
      /\ p \notin Range(cola_archivos)
  BY <1>0, <1>2, <1>3, QuienAtiende, QuienPide
<1>5. InstruccionDe(p).codigo \in Bloqueantes /\ InstruccionDe(p).codigo # "F_OPEN"
      /\ pedido = SinPedido /\ respuesta = "NINGUNA"
      /\ hilo_fs.visto \in {"EXEC", "BLOCK"}
  BY <1>1, <1>2, <1>3 DEF HiloFsInv, Recibiendo, Despertando, Bloqueantes, Accesos
<1>6. \A q : /\ InstruccionDe(q)' = InstruccionDe(q)
             /\ ArchivoDe(q)' = ArchivoDe(q)
             /\ EnSuPrograma(q)' <=> EnSuPrograma(q)
             /\ Bloqueante(q)' <=> Bloqueante(q)
             /\ ~Adelantado(q)
             /\ Adelantado(q)' <=> q = p
             /\ VistoBlock(q)' <=> VistoBlock(q)
  BY <1>2, <1>3 DEF InstruccionDe, ArchivoDe, EnSuPrograma, Bloqueante, Adelantado, VistoBlock
<1>7. Pedidos' = Pedidos /\ SinSacar = Pedidos /\ SinSacar' = SinSacar \ {p}
  <2>1. Pedidos' = Pedidos
    BY <1>2, <1>3 DEF Pedidos
  <2>. QED
    BY <1>6, <2>1 DEF SinSacar
<1>8. /\ cola_exec' = Ejecuta'
      /\ p \in Range(cola_exec') => p \in Range(cola_exec)
      /\ \A q \in Proc : q # p => (q \in Range(cola_exec') <=> q \in Range(cola_exec))
      /\ cola_block' = [cola_block EXCEPT ![p] = cola_block'[p]] /\ cola_block'[p] \in Nat
  <2>1. cola_block \in [Proc -> Nat] /\ cola_exec \in Seq(Proc)
    BY <1>1 DEF Llanos
  <2>2. CASE hilo_fs.visto = "BLOCK"
    <3>1. QuitarDeBlock(p) /\ cola_exec' = cola_exec
      BY <1>3, <2>2
    <3>2. estado_actual[p] = "BLOCK"
      BY <1>2, <1>4, <1>5, <2>2 DEF LugarDe, PedidoInv, VistoBlock
    <3>3. ~(hilo_cpu.pc = "saca" /\ hilo_cpu.pcb = p)
      BY <1>4, <1>5, <3>2 DEF LugarDe, PedidoInv, Encargado
    <3>4. hilo_cpu.pc = "saca" => (hilo_cpu.pcb \in SinSacar' <=> hilo_cpu.pcb \in SinSacar)
      BY <1>7, <3>3
    <3>5. Ejecuta' = Ejecuta
      BY <1>3, <3>4 DEF Ejecuta
    <3>6. cola_exec' = Ejecuta'
      BY <1>1, <3>1, <3>5 DEF TurnoInv
    <3>7. cola_block' = [cola_block EXCEPT ![p] = cola_block'[p]] /\ cola_block'[p] \in Nat
      <4>1. cola_block[p] \in Nat
        BY <1>4, <2>1
      <4>2. PICK n : n = IF cola_block[p] > 0 THEN cola_block[p] - 1 ELSE 0
        OBVIOUS
      <4>3. n \in Nat
        BY <4>1, <4>2
      <4>4. cola_block' = [cola_block EXCEPT ![p] = n]
        BY <3>1, <4>2 DEF QuitarDeBlock
      <4>5. cola_block'[p] = n
        BY <1>4, <2>1, <4>4
      <4>. QED
        BY <4>3, <4>4, <4>5
    <3>. QED
      BY <3>1, <3>6, <3>7
  <2>3. CASE hilo_fs.visto = "EXEC"
    <3>1. cola_exec # <<>> /\ Head(cola_exec) = p /\ cola_exec' = Tail(cola_exec)
          /\ cola_block' = cola_block
      BY <1>3, <2>3
    <3>2. p \in Range(cola_exec)
      BY <2>1, <3>1, ColaSaca
    <3>3. en_cpu # p
      BY <1>1, <1>4, PedidoEstado
    <3>4. hilo_cpu.pcb = p => hilo_cpu.pc \notin EnManos
      BY <1>1, <1>4, <1>5, PedidoEstado DEF LugarDe, PedidoInv, Encargado, EnManos
    <3>5. hilo_cpu.pc = "saca" /\ hilo_cpu.pcb = p
      BY <1>1, <1>4, <3>2, <3>3, <3>4, QuienEjecuta
    <3>6. en_cpu = NoProc
      BY <1>1, <3>5 DEF TurnoInv
    <3>7. cola_exec = <<p>>
      BY <1>1, <1>4, <1>7, <3>5, <3>6 DEF TurnoInv, Ejecuta, EnManos
    <3>8. cola_exec' = <<>> /\ Range(cola_exec') = {} /\ Range(cola_exec) = {p}
      BY <3>1, <3>7, ColaDeUno, ColaVacia
    <3>9. Ejecuta' = <<>>
      BY <1>3, <1>7, <3>5, <3>6 DEF Ejecuta, EnManos
    <3>10. cola_block' = [cola_block EXCEPT ![p] = cola_block'[p]] /\ cola_block'[p] \in Nat
      BY <1>4, <2>1, <3>1
    <3>. QED
      BY <3>8, <3>9, <3>10
  <2>. QED
    BY <1>5, <2>2, <2>3
<1>9. TurnoInv'
  BY <1>1, <1>3, <1>6, <1>8 DEF TurnoInv
<1>10. LugarDe(p)'
  <2>1. ReadyInv(p)' /\ FilaInv(p)' /\ ExecInv(p)'
    BY <1>3, <1>4, <1>8 DEF LugarDe, ReadyInv, FilaInv, ExecInv, EnFila
  <2>2. PedidoInv(p)'
    BY <1>3, <1>4, <1>6 DEF LugarDe, PedidoInv, Encargado
  <2>3. AlgunLugarInv(p)'
    BY <1>4, <1>5, <1>6, <1>7 DEF AlgunLugarInv, Bloqueante, Bloqueantes
  <2>. QED
    BY <2>1, <2>2, <2>3 DEF LugarDe
<1>11. ASSUME NEW q \in Proc, q # p PROVE LugarDe(q)'
  <2>1. LugarDe(q) /\ cola_block[q] \in Nat
    BY <1>1 DEF Llanos, LugarInv
  <2>2. cola_block'[q] = cola_block[q]
    <3>1. cola_block \in [Proc -> Nat]
      BY <1>1 DEF Llanos
    <3>. QED
      BY <1>8, <1>11, <3>1
  <2>3. Igual(q)
    BY <1>3, <1>6, <1>7, <1>8, <1>11, <2>1, <2>2 DEF Igual, Encargado
  <2>. QED
    BY <2>1, <2>2, <2>3, Intacto
<1>12. LugarInv'
  BY <1>1, <1>3, <1>10, <1>11 DEF LugarInv
<1>13. HiloFsInv'
  <2>1. InstruccionDe(p)'.codigo \in Bloqueantes
    BY <1>5, <1>6
  <2>2. f_open_done' = IF hilo_cpu'.pc = "espera_apertura" /\ hilo_cpu'.pcb \notin Pedidos'
                       THEN 1 ELSE 0
    BY <1>1, <1>3, <1>7 DEF HiloFsInv
  <2>3. SinRepetir(cola_archivos') /\ p \notin Range(cola_archivos')
    BY <1>1, <1>3, <1>4 DEF HiloFsInv
  <2>. QED
    BY <1>3, <1>4, <1>5, <2>1, <2>2, <2>3 DEF HiloFsInv, Recibiendo, Despertando, InstruccionDe
<1>14. CompactarInv'
  <2>1. AccesosEnCurso' = AccesosEnCurso
    BY <1>2, <1>3, <1>6, <1>7 DEF AccesosEnCurso
  <2>. QED
    BY <1>1, <1>3, <2>1 DEF CompactarInv
<1>15. TablaInv'
  BY <1>1, <1>3, <1>6, <1>7 DEF TablaInv, AbreInv, Abierto
<1>. QED
  BY <1>9, <1>12, <1>13, <1>14, <1>15 DEF Partes

\* The process goes to cola_ready, and its request is over.
LEMMA PasoFsApila ==
  ASSUME EstructuraInv, HiloFsApila
  PROVE  Partes'
<1> USE DEF procesos, colas, cola_fs, tabla, servidor
<1>0. danio = "ninguno"
  BY DEF HiloFsApila
<1>1. Llanos /\ TurnoInv /\ LugarInv /\ HiloFsInv /\ CompactarInv /\ TablaInv
      /\ NoProc \notin Proc
  BY <1>0, Vivo
<1>2. PICK p : p = hilo_fs.pcb
  OBVIOUS
<1>3. /\ hilo_fs.pc = "apila" /\ hilo_fs' = Ocioso
      /\ estado_actual' = [estado_actual EXCEPT ![p] = "READY"]
      /\ cola_ready' = Append(cola_ready, p)
      /\ UNCHANGED <<programa, program_counter, cola_exec, cola_block, cpu_liberada, en_cpu,
                     hilo_cpu, cola_archivos, f_open_done, archivos_abiertos, cola_bloqueados,
                     puede_compactar, pedido, respuesta>>
  BY <1>2 DEF HiloFsApila, ApilarEnReady
<1>4. /\ p \in Proc /\ p \in Pedidos /\ LugarDe(p) /\ ArchivoDe(p) \in Archivo
      /\ Pedidos' = Pedidos \ {p}
      /\ \A q : /\ InstruccionDe(q)' = InstruccionDe(q)
                /\ ArchivoDe(q)' = ArchivoDe(q)
                /\ EnSuPrograma(q)' <=> EnSuPrograma(q)
                /\ Bloqueante(q)' <=> Bloqueante(q)
                /\ q # p => /\ Adelantado(q)' <=> Adelantado(q)
                            /\ VistoBlock(q)' <=> VistoBlock(q)
      /\ SinRepetir(cola_archivos') /\ NoProc \notin Range(cola_archivos')
      /\ hilo_fs'.pcb = NoProc /\ hilo_fs'.pc = "espera" /\ hilo_fs'.visto = "NADA"
  BY <1>0, <1>2, <1>3, PedidosMenos
<1>5. InstruccionDe(p).codigo \in Bloqueantes /\ InstruccionDe(p).codigo # "F_OPEN"
      /\ pedido = SinPedido /\ respuesta = "NINGUNA"
  BY <1>1, <1>2, <1>3 DEF HiloFsInv, Recibiendo, Despertando, Bloqueantes, Accesos
<1>6. Adelantado(p) /\ \A q : q # p => ~Adelantado(q)
  BY <1>2, <1>3 DEF Adelantado
<1>7. SinSacar = Pedidos \ {p} /\ SinSacar' = SinSacar
  <2>1. \A q : ~Adelantado(q)'
    BY <1>4 DEF Adelantado
  <2>. QED
    BY <1>4, <1>6, <2>1 DEF SinSacar
<1>8. /\ p \notin Range(cola_ready) /\ ~EnFila(p) /\ p \notin Range(cola_exec)
      /\ ~(hilo_cpu.pcb = p /\ hilo_cpu.pc \in EnManos)
  <2>1. en_cpu # p /\ ~EnFila(p)
    BY <1>1, <1>4, PedidoEstado
  <2>2. ~(hilo_cpu.pcb = p /\ hilo_cpu.pc \in EnManos)
    BY <1>1, <1>4, <1>5, PedidoEstado DEF LugarDe, PedidoInv, Encargado, EnManos
  <2>3. p \notin Range(cola_exec)
    BY <1>1, <1>4, <1>7, <2>1, <2>2, QuienEjecuta
  <2>. QED
    BY <1>4, <2>1, <2>2, <2>3 DEF LugarDe, ReadyInv
<1>9. /\ Range(cola_ready') = Range(cola_ready) \cup {p} /\ SinRepetir(cola_ready')
      /\ \A q \in Proc : q # p => estado_actual'[q] = estado_actual[q]
      /\ estado_actual'[p] = "READY"
  <2>1. Range(cola_ready') = Range(cola_ready) \cup {p} /\ SinRepetir(cola_ready')
    BY <1>1, <1>3, <1>4, <1>8, ColaAgrega DEF Llanos, LugarInv
  <2>. QED
    BY <1>1, <1>3, <1>4, <2>1 DEF Llanos
<1>10. TurnoInv'
  <2>1. Ejecuta' = Ejecuta
    BY <1>3, <1>7 DEF Ejecuta
  <2>2. hilo_cpu.pc # "espera" => hilo_cpu.pcb \in Proc
    BY <1>1 DEF TurnoInv
  <2>3. hilo_cpu.pc # "espera" =>
            (estado_actual[hilo_cpu.pcb] \notin {"NEW", "EXIT"} =>
             estado_actual'[hilo_cpu.pcb] \notin {"NEW", "EXIT"})
    BY <1>9, <2>2
  <2>. QED
    BY <1>1, <1>3, <1>4, <2>1, <2>3 DEF TurnoInv
<1>11. LugarDe(p)'
  BY <1>3, <1>4, <1>8, <1>9
  DEF LugarDe, ReadyInv, ExecInv, FilaInv, PedidoInv, AlgunLugarInv, EnFila
<1>12. ASSUME NEW q \in Proc, q # p PROVE LugarDe(q)'
  <2>1. LugarDe(q) /\ cola_block[q] \in Nat
    BY <1>1 DEF Llanos, LugarInv
  <2>2. Igual(q)
    BY <1>3, <1>4, <1>9, <1>12, <2>1 DEF Igual, Encargado
  <2>. QED
    BY <1>3, <2>1, <2>2, Intacto
<1>13. LugarInv'
  BY <1>1, <1>3, <1>9, <1>11, <1>12 DEF LugarInv
<1>14. HiloFsInv'
  <2>1. hilo_cpu.pc = "espera_apertura" => hilo_cpu.pcb # p
    BY <1>8 DEF EnManos
  <2>2. f_open_done' = IF hilo_cpu'.pc = "espera_apertura" /\ hilo_cpu'.pcb \notin Pedidos'
                       THEN 1 ELSE 0
    BY <1>1, <1>3, <1>4, <2>1 DEF HiloFsInv
  <2>. QED
    BY <1>3, <1>4, <1>5, <2>2 DEF HiloFsInv, Recibiendo, Despertando
<1>15. CompactarInv'
  <2>1. AccesosEnCurso' = AccesosEnCurso
    BY <1>2, <1>3, <1>4 DEF AccesosEnCurso
  <2>. QED
    BY <1>1, <1>3, <2>1 DEF CompactarInv
<1>16. TablaInv'
  BY <1>1, <1>3, <1>4 DEF TablaInv, AbreInv, Abierto
<1>. QED
  BY <1>10, <1>13, <1>14, <1>15, <1>16 DEF Partes

-----------------------------------------------------------------------------
(* The structure is inductive                                              *)

\* At the start nobody is anywhere.
LEMMA InitEstructura == Init => EstructuraInv
<1> SUFFICES ASSUME Init PROVE EstructuraInv
  OBVIOUS
<1>1. Programas \subseteq Seq(Instruccion) /\ NoProc \notin Proc /\ Existentes \subseteq Archivo
  BY ConstantesAssumption
<1>2. Llanos
  <2>1. <<>> \in Seq(Proc) /\ <<>> \in Seq(Archivo)
    OBVIOUS
  <2>2. programa \in [Proc -> Seq(Instruccion)]
    BY <1>1 DEF Init
  <2>3. /\ hilo_cpu \in [pc : PcsCpu, pcb : ProcONull]
        /\ hilo_cpu.pc \in PcsCpu /\ hilo_cpu.pcb \in ProcONull
    BY DEF Init, PcsCpu, ProcONull
  <2>4. /\ hilo_fs \in [pc : PcsFs, pcb : ProcONull, visto : Vistos]
        /\ hilo_fs.pc \in PcsFs /\ hilo_fs.pcb \in ProcONull /\ hilo_fs.visto \in Vistos
    BY DEF Init, PcsFs, ProcONull, Vistos, Ocioso
  <2>5. puede_compactar \in BOOLEAN /\ danio \in Danios
    BY DEF Init, Danios
  <2>6. /\ program_counter \in [Proc -> Nat] /\ estado_actual \in [Proc -> Estados]
        /\ cola_block \in [Proc -> Nat] /\ cola_bloqueados \in [Archivo -> Seq(Proc)]
        /\ puntero \in [Archivo -> ProcONull]
    BY <2>1 DEF Init, Estados, ProcONull
  <2>7. respuesta \in Respuestas
    BY DEF Init, Respuestas
  <2>. QED
    BY <1>1, <2>1, <2>2, <2>3, <2>4, <2>5, <2>6, <2>7 DEF Init, Llanos, ProcONull
<1>3. Pedidos = {}
  BY ColaVacia DEF Init, Pedidos, Ocioso
<1>4. TurnoInv
  BY <1>3 DEF Init, TurnoInv, Ejecuta, EnManos, SinSacar
<1>5. LugarInv
  <2>1. \A f \in Archivo : cola_bloqueados[f] = <<>>
    BY DEF Init
  <2>. QED
    BY <1>3, <2>1, ColaVacia
    DEF Init, LugarInv, LugarDe, ReadyInv, ExecInv, FilaInv, PedidoInv, AlgunLugarInv, EnFila
<1>6. HiloFsInv
  BY <1>3, ColaVacia DEF Init, HiloFsInv, Ocioso, Recibiendo, Despertando
<1>7. CompactarInv
  BY <1>3 DEF Init, CompactarInv, AccesosEnCurso
<1>8. TablaInv
  BY <1>3, ColaVacia DEF Init, TablaInv, AbreInv
<1>. QED
  BY <1>2, <1>4, <1>5, <1>6, <1>7, <1>8, TipoLlano DEF Init, EstructuraInv, Partes

\* Every step keeps the structure, unless something goes wrong in it.
LEMMA PasoEstructura == EstructuraInv /\ [Next]_vars => EstructuraInv'
<1> SUFFICES ASSUME EstructuraInv, [Next]_vars PROVE EstructuraInv'
  OBVIOUS
<1>1. CASE Next
  <2>1. Llanos'
    BY <1>1, TiposPlanificadores, TiposRespuestaCpu, TiposFileSystem DEF Next
  <2>2. danio' = "ninguno" => Partes'
    BY <1>1, PasoPlanificadores, PasoCpuDevuelve, PasoRespuestaCpu, PasoAtiende, PasoAbierto,
       PasoDespierta, PasoFsSaca, PasoFsApila DEF Next, ProcesarFileSystem
  <2>3. programa' = programa
    BY <1>1 DEF Next, Admite, Despacha, CpuDevuelve, ManejarRespuestaCpu, Procesa,
       EjecutarFOpenCerrado, HiloCpuAbierto, EjecutarFOpenAbierto, EjecutarFClose,
       EjecutarFSeek, ProcesarAcceso, ProcesarFTruncate, HiloCpuSaca, HiloCpuMarca,
       HiloCpuApila, ProcesarCreateSegment, PedirCompactacion, Compactado, ProcesarYield,
       ProcesarExit, HiloCpuLibera, ProcesarFileSystem, ProcesarRequestFs, RecibirNoExiste,
       RecibirCreado, RecibirAbierto, RecibirTruncado, RecibirAcceso, Recibe, HiloFsSaca,
       HiloFsApila, AtenderRequest, procesos
  <2>. QED
    BY <2>1, <2>2, <2>3, TipoLlanoPrima DEF EstructuraInv
<1>2. CASE UNCHANGED vars
  <2>1. /\ UNCHANGED <<programa, program_counter, estado_actual, cola_ready, cola_exec,
                       cola_block, cpu_liberada, en_cpu, hilo_cpu, cola_archivos>>
        /\ UNCHANGED <<request_file_system, f_open_done, archivos_abiertos, cola_bloqueados,
                       puntero, puede_compactar, hilo_fs, pedido, respuesta, existentes, danio>>
    BY <1>2 DEF vars, procesos, colas, cola_fs, tabla, servidor
  <2>2. /\ Pedidos' = Pedidos /\ SinSacar' = SinSacar /\ AccesosEnCurso' = AccesosEnCurso
        /\ Ejecuta' = Ejecuta
    BY <2>1 DEF Pedidos, SinSacar, Adelantado, AccesosEnCurso, InstruccionDe, Ejecuta
  <2>3. TipoArchivos' <=> TipoArchivos
    BY <2>1 DEF TipoArchivos
  <2>4. TurnoInv' <=> TurnoInv
    BY <2>1, <2>2 DEF TurnoInv, EnSuPrograma, InstruccionDe
  <2>5. ASSUME NEW p \in Proc PROVE LugarDe(p)' <=> LugarDe(p)
    BY <2>1, <2>2 DEF LugarDe, ReadyInv, ExecInv, FilaInv, PedidoInv, AlgunLugarInv, EnFila,
       Encargado, Bloqueante, Adelantado, VistoBlock, EnSuPrograma, InstruccionDe
  <2>6. LugarInv' <=> LugarInv
    BY <2>1, <2>5 DEF LugarInv
  <2>7. HiloFsInv' <=> HiloFsInv
    BY <2>1, <2>2 DEF HiloFsInv, ArchivoDe, InstruccionDe
  <2>8. (CompactarInv' <=> CompactarInv) /\ (TablaInv' <=> TablaInv)
    BY <2>1, <2>2 DEF CompactarInv, TablaInv, AbreInv, Abierto, ArchivoDe, InstruccionDe
  <2>. QED
    BY <2>1, <2>3, <2>4, <2>6, <2>7, <2>8 DEF EstructuraInv, Partes
<1>. QED
  BY <1>1, <1>2

-----------------------------------------------------------------------------
(* The properties that follow from where everything is                     *)

\* EstructuraInv holds in every state.
THEOREM InvarianteDeEstructura == Spec => []EstructuraInv
  BY InitEstructura, PasoEstructura, PTL DEF Spec

\* Every variable keeps its type, also when something goes wrong (i_cpu.c,
\* i_file_system.c).
THEOREM TiposDeArchivos == Spec => []TipoArchivos
<1>1. EstructuraInv => TipoArchivos
  BY DEF EstructuraInv
<1>. QED
  BY <1>1, InvarianteDeEstructura, PTL

\* In a queue without repetitions, who is in it is in it once.
LEMMA VecesEnCola ==
  ASSUME NEW S, NEW s \in Seq(S), NEW x, SinRepetir(s)
  PROVE  Veces(s, x) = Uno(x \in Range(s))
<1>1. CASE x \in Range(s)
  <2>1. PICK i \in DOMAIN s : s[i] = x
    BY <1>1 DEF Range
  <2>2. {j \in DOMAIN s : s[j] = x} = {i}
    BY <2>1 DEF SinRepetir
  <2>. QED
    BY <1>1, <2>2, FS_Singleton DEF Veces, Uno
<1>2. CASE x \notin Range(s)
  <2>1. {j \in DOMAIN s : s[j] = x} = {}
    BY <1>2 DEF Range
  <2>. QED
    BY <1>2, <2>1, FS_EmptySet DEF Veces, Uno
<1>. QED
  BY <1>1, <1>2

\* A process waits in the queue of one file at most.
LEMMA FilasDeUno ==
  ASSUME NEW p \in Proc, FilaInv(p)
  PROVE  Cardinality({f \in Archivo : p \in Range(cola_bloqueados[f])}) = Uno(EnFila(p))
<1>1. CASE EnFila(p)
  <2>1. PICK f \in Archivo : p \in Range(cola_bloqueados[f])
    BY <1>1 DEF EnFila
  <2>2. \A g \in Archivo : p \in Range(cola_bloqueados[g]) => ArchivoDe(p) = g
    BY DEF FilaInv, ArchivoDe
  <2>3. {g \in Archivo : p \in Range(cola_bloqueados[g])} = {f}
    BY <2>1, <2>2
  <2>. QED
    BY <1>1, <2>3, FS_Singleton DEF Uno
<1>2. CASE ~EnFila(p)
  <2>1. {g \in Archivo : p \in Range(cola_bloqueados[g])} = {}
    BY <1>2 DEF EnFila
  <2>. QED
    BY <1>2, <2>1, FS_EmptySet DEF Uno
<1>. QED
  BY <1>1, <1>2

\* A process that has been admitted and has not ended is in one place, or in two
\* between the request and the pop of cola_exec.
LEMMA LugarUnico ==
  ASSUME EstructuraInv, danio = "ninguno", NEW p \in Proc, estado_actual[p] \notin {"NEW", "EXIT"}
  PROVE  Lugares(p) = 1 + Uno(/\ hilo_cpu = [pc |-> "saca", pcb |-> p]
                              /\ p \in Pedidos
                              /\ ~(hilo_fs.pc = "apila" /\ hilo_fs.pcb = p))
<1> DEFINE doble == hilo_cpu.pc = "saca" /\ hilo_cpu.pcb = p /\ p \in SinSacar
           pide == p \in Pedidos /\ Bloqueante(p)
<1>1. /\ Llanos /\ TurnoInv /\ LugarInv /\ LugarDe(p)
      /\ ReadyInv(p) /\ ExecInv(p) /\ FilaInv(p) /\ PedidoInv(p) /\ AlgunLugarInv(p)
  BY Vivo DEF LugarDe
<1>2. hilo_cpu = [pc |-> "saca", pcb |-> p] <=> hilo_cpu.pc = "saca" /\ hilo_cpu.pcb = p
  <2>1. hilo_cpu = [pc |-> hilo_cpu.pc, pcb |-> hilo_cpu.pcb]
    BY <1>1 DEF Llanos
  <2>. QED
    BY <2>1
<1>3. SinRepetir(cola_exec)
  BY <1>1 DEF TurnoInv, Ejecuta, SinRepetir
<1>4. /\ Veces(cola_ready, p) = Uno(p \in Range(cola_ready))
      /\ Veces(cola_exec, p) = Uno(p \in Range(cola_exec))
  BY <1>1, <1>3, VecesEnCola DEF Llanos, LugarInv
<1>5. Lugares(p) = Uno(p \in Range(cola_ready)) + Uno(p \in Range(cola_exec))
                   + Uno(EnFila(p)) + Uno(pide)
  BY <1>1, <1>4, FilasDeUno DEF Lugares
<1>6. doble => pide /\ p \in Range(cola_exec)
  BY <1>1, QuienEjecuta DEF TurnoInv, Bloqueante, Bloqueantes, SinSacar
<1>7. p \in Range(cola_exec) /\ pide => doble
  <2>1. ASSUME p \in Range(cola_exec), pide PROVE doble
    <3>1. /\ en_cpu # p /\ ~Encargado("espera_apertura", p)
          /\ hilo_cpu.pcb = p => hilo_cpu.pc \notin {"procesa", "pide_compactar", "compacta"}
      BY <1>1, <2>1, PedidoEstado DEF PedidoInv, Bloqueante, Accesos
    <3>. QED
      BY <1>1, <2>1, <3>1, QuienEjecuta DEF EnManos, Encargado
  <2>. QED
    BY <2>1
<1>8. /\ p \in Range(cola_ready) => p \notin Range(cola_exec) /\ ~EnFila(p) /\ p \notin Pedidos
      /\ p \in Range(cola_exec) => ~EnFila(p)
      /\ EnFila(p) => p \notin Pedidos
      /\ p \in Range(cola_ready) \/ p \in Range(cola_exec) \/ EnFila(p) \/ pide
  BY <1>1 DEF ReadyInv, ExecInv, FilaInv, AlgunLugarInv, EnFila
<1> HIDE DEF doble, pide
<1>9. pide => p \in Pedidos
  BY DEF pide
<1>10. Lugares(p) = 1 + Uno(doble)
  BY <1>5, <1>6, <1>7, <1>8, <1>9 DEF Uno
<1>. QED
  BY <1>2, <1>10 DEF doble, SinSacar, Adelantado

\* As long as no thread has popped what it did not look for, a process that was admitted
\* and has not finished can be found again in exactly one place, however the thread of the
\* file system and pasar_a_cola_blocked interleave (i_cpu.c:253-255).
THEOREM EnUnSoloLugar == Spec => []UnSoloLugar
<1>1. EstructuraInv => UnSoloLugar
  BY LugarUnico DEF UnSoloLugar
<1>. QED
  BY <1>1, InvarianteDeEstructura, PTL

\* The mutex is taken for one F_READ or F_WRITE on its way or for a compaction, and
\* never for both (i_cpu.c:103, 110, i_file_system.c:75, 84).
THEOREM LaCompactacionExcluye == Spec => []CompactacionExcluyeAccesos
<1>1. ASSUME EstructuraInv, danio = "ninguno"
      PROVE  Cardinality(AccesosEnCurso) + Uno(hilo_cpu.pc = "compacta") = Uno(~puede_compactar)
  <2>1. CompactarInv
    BY <1>1, Vivo
  <2>2. CASE AccesosEnCurso = {}
    BY <2>1, <2>2, FS_EmptySet DEF CompactarInv, Uno
  <2>3. CASE AccesosEnCurso # {}
    <3>1. PICK p : p \in AccesosEnCurso
      BY <2>3
    <3>2. AccesosEnCurso = {p}
      BY <2>1, <3>1 DEF CompactarInv
    <3>3. Cardinality(AccesosEnCurso) = 1
      BY <3>2, FS_Singleton
    <3>4. ~puede_compactar /\ hilo_cpu.pc # "compacta"
      BY <2>1, <2>3 DEF CompactarInv
    <3>. QED
      BY <3>3, <3>4 DEF Uno
  <2>. QED
    BY <2>2, <2>3
<1>2. EstructuraInv => CompactacionExcluyeAccesos
  BY <1>1 DEF CompactacionExcluyeAccesos
<1>. QED
  BY <1>2, InvarianteDeEstructura, PTL

-----------------------------------------------------------------------------
(* Programs                                                                *)

\* A program has done nothing before its first line; and doing a line makes what it
\* says true and what it closes false.
LEMMA VigenteAvanza ==
  ASSUME NEW prg, NEW k \in Nat, k >= 1, NEW codigo, NEW f
  PROVE  Vigente(prg, k + 1, codigo, f) <=>
             \/ prg[k] = [codigo |-> codigo, archivo |-> f]
             \/ /\ Vigente(prg, k, codigo, f)
                /\ prg[k] # [codigo |-> "F_CLOSE", archivo |-> f]
<1> DEFINE cierra(j) == prg[j] = [codigo |-> "F_CLOSE", archivo |-> f]
           hace(j) == prg[j] = [codigo |-> codigo, archivo |-> f]
<1>1. ASSUME NEW m \in Nat
      PROVE  Vigente(prg, m, codigo, f) <=>
                 \E i \in 1..(m - 1) : hace(i) /\ \A j \in (i + 1)..(m - 1) : ~cierra(j)
  BY DEF Vigente
<1> HIDE DEF cierra, hace
<1>2. k + 1 \in Nat /\ (k + 1) - 1 = k
  OBVIOUS
<1>3. Vigente(prg, k + 1, codigo, f) <=>
          \E i \in 1..k : hace(i) /\ \A j \in (i + 1)..k : ~cierra(j)
  BY <1>1, <1>2
<1>4. ASSUME Vigente(prg, k + 1, codigo, f), ~hace(k)
      PROVE  Vigente(prg, k, codigo, f) /\ ~cierra(k)
  <2>1. PICK i \in 1..k : hace(i) /\ \A j \in (i + 1)..k : ~cierra(j)
    BY <1>3, <1>4
  <2>2. i \in 1..(k - 1)
    BY <2>1, <1>4
  <2>3. k \in (i + 1)..k /\ \A j \in (i + 1)..(k - 1) : j \in (i + 1)..k
    BY <2>2
  <2>. QED
    BY <1>1, <2>1, <2>2, <2>3
<1>5. ASSUME hace(k) PROVE Vigente(prg, k + 1, codigo, f)
  <2>1. k \in 1..k /\ \A j \in (k + 1)..k : FALSE
    OBVIOUS
  <2>. QED
    BY <1>3, <1>5, <2>1
<1>6. ASSUME Vigente(prg, k, codigo, f), ~cierra(k) PROVE Vigente(prg, k + 1, codigo, f)
  <2>1. PICK i \in 1..(k - 1) : hace(i) /\ \A j \in (i + 1)..(k - 1) : ~cierra(j)
    BY <1>1, <1>6
  <2>2. i \in 1..k /\ \A j \in (i + 1)..k : j \in (i + 1)..(k - 1) \/ j = k
    OBVIOUS
  <2>. QED
    BY <1>3, <1>6, <2>1, <2>2
<1>. QED
  BY <1>4, <1>5, <1>6 DEF hace, cierra

\* In an ordered program, who has moved the pointer of a file since its last F_CLOSE
\* has opened it since.
LEMMA BuscoAbierto ==
  ASSUME NEW prg \in Seq(Instruccion), Ordenado(prg), NEW k \in 1..Len(prg), NEW f,
         Vigente(prg, k, "F_SEEK", f)
  PROVE  Vigente(prg, k, "F_OPEN", f)
<1> DEFINE cierra(j) == prg[j] = [codigo |-> "F_CLOSE", archivo |-> f]
<1>1. PICK i \in 1..(k - 1) : /\ prg[i] = [codigo |-> "F_SEEK", archivo |-> f]
                              /\ \A j \in (i + 1)..(k - 1) : ~cierra(j)
  BY DEF Vigente
<1>2. i \in 1..Len(prg) /\ prg[i].codigo = "F_SEEK" /\ prg[i].archivo = f /\ ~cierra(i)
  BY <1>1
<1>3. Vigente(prg, i, "F_OPEN", f)
  BY <1>2 DEF Ordenado, DeArchivo
<1>4. PICK m \in 1..(i - 1) : /\ prg[m] = [codigo |-> "F_OPEN", archivo |-> f]
                              /\ \A j \in (m + 1)..(i - 1) : ~cierra(j)
  BY <1>3 DEF Vigente
<1>5. m \in 1..(k - 1)
  OBVIOUS
<1>6. ASSUME NEW j \in (m + 1)..(k - 1) PROVE ~cierra(j)
  <2>1. j \in (m + 1)..(i - 1) \/ j = i \/ j \in (i + 1)..(k - 1)
    OBVIOUS
  <2>. QED
    BY <1>1, <1>2, <1>4, <2>1
<1>. QED
  BY <1>4, <1>5, <1>6 DEF Vigente

\* What a process asks of a file: it has opened it, unless it opens it now.
LEMMA AlUsarlo ==
  ASSUME EstructuraInv, NEW p \in Proc, EnSuPrograma(p), InstruccionDe(p).codigo \in DeArchivo
  PROVE  /\ Vigente(programa[p], program_counter[p], "F_OPEN", ArchivoDe(p))
                <=> InstruccionDe(p).codigo # "F_OPEN"
         /\ InstruccionDe(p).codigo = "F_OPEN" =>
                ~Vigente(programa[p], program_counter[p], "F_SEEK", ArchivoDe(p))
<1>1. programa[p] \in Programas /\ programa[p] \in Seq(Instruccion) /\ Ordenado(programa[p])
  BY ConstantesAssumption, ProgramasAssumption DEF EstructuraInv
<1>2. program_counter[p] \in 1..Len(programa[p])
  BY DEF EnSuPrograma
<1>3. /\ Vigente(programa[p], program_counter[p], "F_OPEN", ArchivoDe(p))
             <=> InstruccionDe(p).codigo # "F_OPEN"
  BY <1>1, <1>2 DEF Ordenado, InstruccionDe, ArchivoDe
<1>. QED
  BY <1>1, <1>2, <1>3, BuscoAbierto

-----------------------------------------------------------------------------
(* The line of each process                                                *)

\* The thread is serving the last line of one process at most.
LEMMA LineaDe ==
  ASSUME Llanos, NEW p \in Proc
  PROVE  Linea(p) = IF Encargado("procesa", p) THEN program_counter[p]
                                               ELSE program_counter[p] + 1
<1>1. hilo_cpu = [pc |-> hilo_cpu.pc, pcb |-> hilo_cpu.pcb] /\ program_counter[p] \in Nat
  BY DEF Llanos
<1>2. hilo_cpu = [pc |-> "procesa", pcb |-> p] <=> Encargado("procesa", p)
  BY <1>1 DEF Encargado
<1>. QED
  BY <1>1, <1>2 DEF Linea, Uno

\* And after a step.
LEMMA LineaDePrima ==
  ASSUME Llanos', NEW p \in Proc
  PROVE  Linea(p)' = IF Encargado("procesa", p)' THEN program_counter'[p]
                                                 ELSE program_counter'[p] + 1
<1>1. hilo_cpu' = [pc |-> hilo_cpu'.pc, pcb |-> hilo_cpu'.pcb] /\ program_counter'[p] \in Nat
  BY DEF Llanos
<1>2. hilo_cpu' = [pc |-> "procesa", pcb |-> p] <=> Encargado("procesa", p)'
  BY <1>1 DEF Encargado
<1>. QED
  BY <1>1, <1>2 DEF Linea, Uno

\* A step after which each process has opened and moved the same as before it.
MismasLineas ==
    \A p \in Proc, f \in Archivo : /\ Abrio(p, f)' <=> Abrio(p, f)
                                   /\ Busco(p, f)' <=> Busco(p, f)

\* A step that neither gives a process back nor ends an answer moves no line.
LEMMA LineaQuieta ==
  ASSUME Llanos, Llanos', UNCHANGED <<programa, program_counter>>,
         \/ UNCHANGED hilo_cpu
         \/ hilo_cpu.pc # "procesa" /\ hilo_cpu'.pc # "procesa"
  PROVE  MismasLineas
<1>1. ASSUME NEW p \in Proc PROVE Linea(p)' = Linea(p)
  <2>1. Encargado("procesa", p)' <=> Encargado("procesa", p)
    BY DEF Encargado
  <2>. QED
    BY <2>1, LineaDe, LineaDePrima
<1>. QED
  BY <1>1 DEF MismasLineas, Abrio, Busco

\* The thread finishes an answer: its process goes on to the next line.
LEMMA LineaAvanza ==
  ASSUME EstructuraInv, danio = "ninguno", Llanos', hilo_cpu.pc = "procesa", NEW p, p = hilo_cpu.pcb,
         NEW c, c # "procesa", hilo_cpu' = [hilo_cpu EXCEPT !.pc = c],
         UNCHANGED <<programa, program_counter>>
  PROVE  /\ \A q \in Proc : q # p => \A f \in Archivo : /\ Abrio(q, f)' <=> Abrio(q, f)
                                                        /\ Busco(q, f)' <=> Busco(q, f)
         /\ \A f \in Archivo :
              /\ Abrio(p, f)' <=>
                    \/ InstruccionDe(p) = [codigo |-> "F_OPEN", archivo |-> f]
                    \/ Abrio(p, f) /\ InstruccionDe(p) # [codigo |-> "F_CLOSE", archivo |-> f]
              /\ Busco(p, f)' <=>
                    \/ InstruccionDe(p) = [codigo |-> "F_SEEK", archivo |-> f]
                    \/ Busco(p, f) /\ InstruccionDe(p) # [codigo |-> "F_CLOSE", archivo |-> f]
<1>1. Llanos /\ p \in Proc /\ EnSuPrograma(p)
  BY Vivo, EnMano
<1>2. hilo_cpu'.pc = c /\ hilo_cpu'.pcb = p
  BY <1>1 DEF Llanos
<1>3. ASSUME NEW q \in Proc, q # p PROVE Linea(q)' = Linea(q)
  <2>1. ~Encargado("procesa", q) /\ ~Encargado("procesa", q)'
    BY <1>2, <1>3 DEF Encargado
  <2>. QED
    BY <1>1, <2>1, LineaDe, LineaDePrima
<1>4. Linea(p) = program_counter[p] /\ Linea(p)' = program_counter[p] + 1
  <2>1. Encargado("procesa", p) /\ ~Encargado("procesa", p)'
    BY <1>2 DEF Encargado
  <2>. QED
    BY <1>1, <2>1, LineaDe, LineaDePrima
<1>5. program_counter[p] \in Nat /\ program_counter[p] >= 1
  BY <1>1 DEF EnSuPrograma, Llanos
<1>6. ASSUME NEW f \in Archivo
      PROVE  /\ Abrio(p, f)' <=> Vigente(programa[p], program_counter[p] + 1, "F_OPEN", f)
             /\ Busco(p, f)' <=> Vigente(programa[p], program_counter[p] + 1, "F_SEEK", f)
             /\ Abrio(p, f) <=> Vigente(programa[p], program_counter[p], "F_OPEN", f)
             /\ Busco(p, f) <=> Vigente(programa[p], program_counter[p], "F_SEEK", f)
  BY <1>4 DEF Abrio, Busco
<1>7. programa[p][program_counter[p]] = InstruccionDe(p)
  BY DEF InstruccionDe
<1>. QED
  BY <1>3, <1>5, <1>6, <1>7, VigenteAvanza DEF Abrio, Busco

-----------------------------------------------------------------------------
(* Who has each file                                                       *)

\* Who asks for a file, or uses it, other than to open it, is its owner.
LEMMA EnUso ==
  ASSUME EstructuraInv, danio = "ninguno", DuenioInv, NEW p \in Proc,
         EnSuPrograma(p), InstruccionDe(p).codigo \in DeArchivo \ {"F_OPEN"},
         Encargado("procesa", p) \/ p \in Pedidos
  PROVE  /\ ArchivoDe(p) \in Archivo
         /\ Abierto(ArchivoDe(p)) /\ Tiene(p, ArchivoDe(p))
         /\ \A q \in Proc : Tiene(q, ArchivoDe(p)) => q = p
<1>1. Llanos /\ TurnoInv /\ LugarDe(p)
  BY Vivo
<1>2. ArchivoDe(p) \in Archivo
  BY <1>1, TipoLlano, InstruccionTipo
<1>3. ~EnFila(p) /\ ~Encargado("espera_apertura", p)
  <2>1. CASE Encargado("procesa", p)
    BY <2>1, EnMano DEF Encargado
  <2>2. CASE p \in Pedidos
    BY <2>2, <1>1, PedidoEstado DEF LugarDe, PedidoInv
  <2>. QED
    BY <2>1, <2>2
<1>4. Vigente(programa[p], program_counter[p], "F_OPEN", ArchivoDe(p))
  BY AlUsarlo
<1>5. Vigente(programa[p], Linea(p), "F_OPEN", ArchivoDe(p))
  <2>1. CASE Encargado("procesa", p)
    BY <2>1, <1>1, <1>4, LineaDe
  <2>2. CASE ~Encargado("procesa", p)
    <3>1. Linea(p) = program_counter[p] + 1
      BY <2>2, <1>1, LineaDe
    <3>2. program_counter[p] \in Nat /\ program_counter[p] >= 1
      BY <1>1 DEF Llanos, EnSuPrograma
    <3>3. programa[p][program_counter[p]] # [codigo |-> "F_CLOSE", archivo |-> ArchivoDe(p)]
      <4>1. p \in Pedidos
        BY <2>2
      <4>2. InstruccionDe(p).codigo # "F_CLOSE"
        BY <1>1, <4>1 DEF LugarDe, PedidoInv, Bloqueantes, Accesos
      <4>. QED
        BY <4>2 DEF InstruccionDe
    <3>. QED
      BY <1>4, <3>1, <3>2, <3>3, VigenteAvanza
  <2>. QED
    BY <2>1, <2>2
<1>6. Tiene(p, ArchivoDe(p))
  BY <1>2, <1>3, <1>5 DEF Tiene, EnFila
<1>7. DuenioDe(ArchivoDe(p))
  BY <1>2 DEF DuenioInv
<1>8. Abierto(ArchivoDe(p))
  BY <1>3, <1>6, <1>7 DEF DuenioDe
<1>. QED
  BY <1>2, <1>6, <1>7, <1>8 DEF DuenioDe

\* Who waits for its file to be opened.
QuienAbre(p) == Encargado("espera_apertura", p) /\ p \in Pedidos

\* A step that does not move the lines, the table or who is opening.
LEMMA DuenioSigue ==
  ASSUME DuenioInv, MismasLineas, UNCHANGED <<archivos_abiertos, cola_bloqueados>>,
         \A p \in Proc : QuienAbre(p) => QuienAbre(p)' /\ ArchivoDe(p)' = ArchivoDe(p)
  PROVE  /\ \A f \in Archivo : DuenioDe(f)'
         /\ \A p \in Proc, f \in Archivo : Tiene(p, f)' <=> Tiene(p, f)
         /\ UNCHANGED puntero => \A p \in Proc, f \in Archivo : PunteroDe(p, f)'
<1>1. ASSUME NEW p \in Proc, NEW f \in Archivo
      PROVE  (Tiene(p, f)' <=> Tiene(p, f)) /\ (Busco(p, f)' <=> Busco(p, f))
  BY <1>1 DEF MismasLineas, Abrio, Tiene
<1>2. ASSUME NEW f \in Archivo PROVE Abierto(f)' <=> Abierto(f)
  BY DEF Abierto
<1>3. ASSUME NEW f \in Archivo PROVE DuenioDe(f)'
  <2>1. DuenioDe(f)
    BY DEF DuenioInv
  <2>2. CASE Abierto(f)
    BY <1>1, <1>2, <2>1, <2>2 DEF DuenioDe
  <2>3. CASE ~Abierto(f)
    <3>1. ASSUME NEW p \in Proc, Tiene(p, f)' PROVE QuienAbre(p)' /\ ArchivoDe(p)' = f
      BY <1>1, <2>1, <2>3, <3>1 DEF DuenioDe, QuienAbre
    <3>2. cola_bloqueados'[f] = <<>>
      BY <2>1, <2>3 DEF DuenioDe
    <3>. QED
      BY <1>2, <2>3, <3>1, <3>2 DEF DuenioDe, QuienAbre
  <2>. QED
    BY <2>2, <2>3
<1>4. ASSUME UNCHANGED puntero, NEW p \in Proc, NEW f \in Archivo PROVE PunteroDe(p, f)'
  BY <1>1, <1>2, <1>4 DEF DuenioInv, PunteroDe
<1>. QED
  BY <1>1, <1>3, <1>4

\* A request that is over, but for the pops of its process: if cola_exec does not have it,
\* the other thread has popped it already, or is about to.
LEMMA YaSacado ==
  ASSUME EstructuraInv, danio = "ninguno", hilo_fs.pc = "despierta", NEW p, p = hilo_fs.pcb,
         p \notin Range(cola_exec)
  PROVE  SacadoParaBloquear(p)
<1>1. Llanos /\ TurnoInv /\ HiloFsInv
  BY Vivo
<1>2. p \in Pedidos /\ p \in Proc /\ LugarDe(p)
  BY QuienAtiende, QuienPide
<1>3. InstruccionDe(p).codigo \in Bloqueantes /\ InstruccionDe(p).codigo # "F_OPEN"
  BY <1>1 DEF HiloFsInv, Despertando, Bloqueantes, Accesos
<1>4. ~Adelantado(p) /\ p \in SinSacar
  BY <1>2 DEF Adelantado, SinSacar
<1>5. ~Encargado("saca", p)
  BY <1>1, <1>2, <1>4, QuienEjecuta DEF Encargado
<1>6. \/ Encargado("marca", p) \/ Encargado("apila", p)
      \/ estado_actual[p] = "BLOCK" /\ cola_block[p] > 0
  BY <1>2, <1>3, <1>4, <1>5 DEF LugarDe, PedidoInv
<1>7. hilo_cpu = [pc |-> hilo_cpu.pc, pcb |-> hilo_cpu.pcb]
  BY <1>1 DEF Llanos
<1>. QED
  BY <1>6, <1>7 DEF SacadoParaBloquear, Encargado

\* Something goes wrong in one step only: the thread of the file system pops cola_exec,
\* and what it looks for is not there.
LEMMA CaeEnLaVentana ==
  ASSUME EstructuraInv, danio = "ninguno", DuenioInv, Next, danio' # "ninguno"
  PROVE  SoloCaeEnLaVentana' /\ pedido' = SinPedido
<1>1. Llanos /\ TurnoInv /\ NoProc \notin Proc /\ HiloFsInv /\ LugarInv
  BY Vivo
<1>2. PICK p : p = hilo_cpu.pcb
  OBVIOUS
<1>3. hilo_cpu.pc = "procesa" =>
          /\ p \in Proc /\ EnSuPrograma(p) /\ cola_exec = <<p>> /\ Encargado("procesa", p)
          /\ InstruccionDe(p).codigo \in DeArchivo \ {"F_OPEN"} => Abierto(ArchivoDe(p))
  <2>1. ASSUME hilo_cpu.pc = "procesa"
        PROVE  p \in Proc /\ EnSuPrograma(p) /\ cola_exec = <<p>> /\ Encargado("procesa", p)
    BY <1>2, <2>1, EnMano DEF Encargado
  <2>. QED
    BY <2>1, EnUso
<1>4. ~EjecutarFClose
  <2>1. SUFFICES ASSUME EjecutarFClose PROVE FALSE
    OBVIOUS
  <2>2. PICK f : f = ArchivoDe(p)
    OBVIOUS
  <2>3. /\ hilo_cpu.pc = "procesa" /\ InstruccionDe(p).codigo = "F_CLOSE"
        /\ cola_bloqueados[f] # <<>>
        /\ IF cola_block[Head(cola_bloqueados[f])] > 0
           THEN PasarAColaReady(Head(cola_bloqueados[f])) ELSE TRUE
    BY <1>2, <2>1, <2>2 DEF EjecutarFClose, Procesa
  <2>4. f \in Archivo
    BY <1>1, <1>3, <2>2, <2>3, TipoLlano, InstruccionTipo DEF DeArchivo
  <2>5. PICK q : q = Head(cola_bloqueados[f])
    OBVIOUS
  <2>6. q \in Proc /\ q \in Range(cola_bloqueados[f])
    BY <1>1, <2>3, <2>4, <2>5, ColaSaca DEF Llanos
  <2>7. LugarDe(q)
    BY <1>1, <2>6 DEF LugarInv
  <2>8. cola_block[q] > 0 /\ estado_actual[q] = "BLOCK"
    BY <2>4, <2>6, <2>7 DEF LugarDe, FilaInv
  <2>9. PasarAColaReady(q)
    BY <2>3, <2>5, <2>8
  <2>. QED
    BY <2>8, <2>9 DEF PasarAColaReady
<1>5. ~ProcesarAcceso
  <2>1. SUFFICES ASSUME ProcesarAcceso PROVE FALSE
    OBVIOUS
  <2>2. /\ hilo_cpu.pc = "procesa" /\ InstruccionDe(p).codigo = "F_READ"
        /\ ~Abierto(ArchivoDe(p))
    BY <1>2, <2>1 DEF ProcesarAcceso, Procesa
  <2>. QED
    BY <1>3, <2>2 DEF DeArchivo
<1>6. ~ProcesarYield
  BY PasoDeja
<1>7. ~ProcesarRequestFs
  <2>1. SUFFICES ASSUME ProcesarRequestFs PROVE FALSE
    OBVIOUS
  <2>2. PICK r : r = Head(cola_archivos)
    OBVIOUS
  <2>3. /\ hilo_fs.pc = "espera" /\ cola_archivos # <<>>
        /\ InstruccionDe(r).codigo \in Accesos /\ ~Abierto(ArchivoDe(r))
    BY <2>1, <2>2 DEF ProcesarRequestFs, ArchivoDe
  <2>4. r \in Pedidos /\ r \in Proc /\ EnSuPrograma(r)
    BY <2>2, <2>3, QuienSigue, QuienPide
  <2>. QED
    BY <2>3, <2>4, EnUso DEF Accesos, DeArchivo
<1>8. ~RecibirTruncado /\ ~RecibirAcceso
  <2>1. SUFFICES ASSUME RecibirTruncado \/ RecibirAcceso PROVE FALSE
    OBVIOUS
  <2>2. PICK r : r = hilo_fs.pcb
    OBVIOUS
  <2>3. /\ hilo_fs.pc = "recibe" /\ ~Abierto(ArchivoDe(r))
        /\ respuesta \in {"F_TRUNCATE_OK", "F_READ_OK", "F_WRITE_OK"}
    BY <2>1, <2>2 DEF RecibirTruncado, RecibirAcceso, Recibe, Despertar
  <2>4. r \in Pedidos /\ r \in Proc /\ EnSuPrograma(r)
    BY <2>2, <2>3, QuienAtiende, QuienPide
  <2>5. InstruccionDe(r).codigo \in DeArchivo \ {"F_OPEN"}
    BY <2>2, <2>3, Respondido DEF Contesta, DeArchivo
  <2>. QED
    BY <2>3, <2>4, <2>5, EnUso
<1>9. HiloFsSaca
  BY <1>4, <1>5, <1>6, <1>7, <1>8 DEF Next, Admite, Despacha, CpuDevuelve,
     ManejarRespuestaCpu, Procesa, EjecutarFOpenCerrado, HiloCpuAbierto, EjecutarFOpenAbierto,
     EjecutarFSeek, ProcesarFTruncate, HiloCpuSaca, HiloCpuMarca, HiloCpuApila,
     ProcesarCreateSegment, PedirCompactacion, Compactado, ProcesarExit, HiloCpuLibera,
     ProcesarFileSystem, RecibirNoExiste, RecibirCreado, RecibirAbierto, HiloFsApila,
     AtenderRequest
<1>10. PICK r : r = hilo_fs.pcb
  OBVIOUS
<1>11. /\ hilo_fs.pc = "despierta" /\ hilo_fs.visto = "EXEC"
       /\ UNCHANGED <<estado_actual, cola_ready, cola_block, hilo_cpu, cola_archivos,
                      cola_bloqueados, pedido>>
       /\ \/ /\ cola_exec = <<>> /\ danio' = "pcb_nulo" /\ UNCHANGED <<cola_exec, hilo_fs>>
          \/ /\ cola_exec # <<>> /\ Head(cola_exec) # r /\ danio' = "pcb_ajeno"
             /\ cola_exec' = Tail(cola_exec) /\ hilo_fs'.pcb = Head(cola_exec)
             /\ hilo_fs'.visto = "EXEC"
  <2>1. hilo_fs \in [pc : PcsFs, pcb : ProcONull, visto : Vistos]
    BY <1>1 DEF Llanos
  <2>. QED
    BY <1>9, <1>10, <2>1 DEF HiloFsSaca, procesos, cola_fs, tabla, servidor
<1>12. r \in Pedidos /\ r \in Proc /\ LugarDe(r) /\ r \notin Range(cola_archivos)
  BY <1>10, <1>11, QuienAtiende, QuienPide
<1>13. pedido' = SinPedido
  BY <1>1, <1>11 DEF HiloFsInv, Recibiendo
<1>14. CASE danio' = "pcb_nulo"
  <2>1. r \notin Range(cola_exec) /\ cola_exec' = <<>> /\ hilo_fs'.pcb = r
        /\ hilo_fs'.visto = "EXEC"
    BY <1>10, <1>11, <1>14, ColaVacia
  <2>2. SacadoParaBloquear(r)
    BY <1>10, <1>11, <2>1, YaSacado
  <2>3. SacadoParaBloquear(r)'
    BY <1>11, <2>2 DEF SacadoParaBloquear
  <2>. QED
    BY <1>13, <1>14, <2>1, <2>3 DEF SoloCaeEnLaVentana
<1>15. CASE danio' = "pcb_ajeno"
  <2>1. PICK q : q = Head(cola_exec)
    OBVIOUS
  <2>2. /\ cola_exec # <<>> /\ q # r /\ cola_exec' = Tail(cola_exec)
        /\ hilo_fs'.pcb = q /\ hilo_fs'.visto = "EXEC"
    BY <1>11, <1>15, <2>1
  <2>3. q \in Proc /\ q \in Range(cola_exec)
    BY <1>1, <2>1, <2>2, ColaSaca DEF Llanos
  <2>4. estado_actual[q] = "EXEC"
    BY <1>1, <2>3 DEF LugarInv, LugarDe, ExecInv
  <2>5. cola_exec = <<q>>
    BY <1>1, <2>1, <2>2, ColaDeUno DEF TurnoInv, Ejecuta
  <2>6. r \notin Range(cola_exec) /\ cola_exec' = <<>>
    BY <2>2, <2>5, ColaDeUno
  <2>7. SacadoParaBloquear(r)
    BY <1>10, <1>11, <2>6, YaSacado
  <2>8. SacadoParaBloquear(r)'
    BY <1>11, <2>7 DEF SacadoParaBloquear
  <2>9. Lugares(r)' = 0
    <3>1. r \notin Range(cola_ready) /\ ~EnFila(r)
      BY <1>12 DEF LugarDe, ReadyInv, FilaInv, EnFila
    <3>2. Veces(cola_ready, r) = 0
      BY <1>1, <3>1, VecesEnCola DEF Llanos, LugarInv, Uno
    <3>3. Veces(<<>>, r) = 0
      BY FS_EmptySet DEF Veces
    <3>4. Cardinality({f \in Archivo : r \in Range(cola_bloqueados[f])}) = 0
      BY <1>12, <3>1, FilasDeUno DEF LugarDe, Uno
    <3>5. r \notin Pedidos'
      BY <1>11, <1>12, <2>2 DEF Pedidos
    <3>6. /\ Veces(cola_ready', r) = 0 /\ Veces(cola_exec', r) = 0
          /\ Cardinality({f \in Archivo : r \in Range(cola_bloqueados'[f])}) = 0
      BY <1>11, <2>6, <3>2, <3>3, <3>4
    <3>. QED
      BY <3>5, <3>6 DEF Lugares, Uno, Veces
  <2>10. estado_actual'[q] = "EXEC"
    BY <1>11, <2>4
  <2>11. \E s \in Proc \ {hilo_fs'.pcb} : SacadoParaBloquear(s)' /\ Lugares(s)' = 0
    BY <1>12, <2>2, <2>8, <2>9
  <2>. QED
    BY <1>13, <1>15, <2>2, <2>10, <2>11 DEF SoloCaeEnLaVentana
<1>. QED
  BY <1>11, <1>14, <1>15

\* Who is opening goes on, unless the thread moves on or its request ends.
LEMMA AbreSigue ==
  ASSUME EstructuraInv, danio = "ninguno", Pedidos \subseteq Pedidos',
         UNCHANGED <<programa, program_counter, hilo_cpu>>
  PROVE  \A p \in Proc : QuienAbre(p) => QuienAbre(p)' /\ ArchivoDe(p)' = ArchivoDe(p)
  BY DEF QuienAbre, Encargado, ArchivoDe, InstruccionDe

\* The schedulers, the CPU and the FileSystem do not touch the table.
LEMMA DuenioPlanificadores ==
  ASSUME EstructuraInv, danio = "ninguno", DuenioInv, Llanos',
         \/ \E p \in Proc : Admite(p)
         \/ Despacha \/ CpuDevuelve \/ AtenderRequest
  PROVE  /\ \A f \in Archivo : DuenioDe(f)'
         /\ \A p \in Proc, f \in Archivo : Tiene(p, f)' <=> Tiene(p, f)
         /\ UNCHANGED puntero => \A p \in Proc, f \in Archivo : PunteroDe(p, f)'
         /\ UNCHANGED <<archivos_abiertos, cola_bloqueados, puntero>>
<1>1. Llanos /\ TurnoInv /\ NoProc \notin Proc
  BY Vivo
<1>2. UNCHANGED <<programa, archivos_abiertos, cola_bloqueados, puntero, hilo_fs, cola_archivos>>
  BY DEF Admite, Despacha, CpuDevuelve, AtenderRequest, tabla, procesos, cola_fs
<1>3. Pedidos' = Pedidos
  BY <1>2 DEF Pedidos
<1>4. CASE ~CpuDevuelve
  <2>1. UNCHANGED <<program_counter, hilo_cpu>>
    BY <1>4 DEF Admite, Despacha, AtenderRequest, procesos
  <2>2. MismasLineas
    BY <1>1, <1>2, <2>1, LineaQuieta
  <2>3. \A p \in Proc : QuienAbre(p) => QuienAbre(p)' /\ ArchivoDe(p)' = ArchivoDe(p)
    BY <1>2, <1>3, <2>1, AbreSigue
  <2>. QED
    BY <1>2, <2>2, <2>3, DuenioSigue
<1>5. CASE CpuDevuelve
  <2>1. PICK r : r = en_cpu
    OBVIOUS
  <2>2. /\ r \in Proc /\ hilo_cpu.pc = "espera" /\ cola_exec = <<r>>
        /\ program_counter' = [program_counter EXCEPT ![r] = program_counter[r] + 1]
        /\ hilo_cpu'.pc = "procesa" /\ hilo_cpu'.pcb = Head(cola_exec)
    BY <1>1, <1>5, <2>1 DEF CpuDevuelve, Llanos, ProcONull, TurnoInv, Ejecuta
  <2>3. hilo_cpu'.pcb = r /\ program_counter \in [Proc -> Nat]
    BY <1>1, <2>2, ColaDeUno DEF Llanos
  <2>4. ASSUME NEW p \in Proc PROVE Linea(p)' = Linea(p)
    <3>1. Linea(p) = program_counter[p] + 1
      BY <1>1, <2>2, LineaDe DEF Encargado
    <3>2. CASE p = r
      <4>1. Linea(p)' = program_counter'[p] /\ program_counter'[p] = program_counter[p] + 1
        BY <2>2, <2>3, <3>2, LineaDePrima DEF Encargado
      <4>. QED
        BY <3>1, <4>1
    <3>3. CASE p # r
      <4>1. Linea(p)' = program_counter'[p] + 1 /\ program_counter'[p] = program_counter[p]
        BY <2>2, <2>3, <3>3, LineaDePrima DEF Encargado
      <4>. QED
        BY <3>1, <4>1
    <3>. QED
      BY <3>2, <3>3
  <2>5. MismasLineas
    BY <1>2, <2>4 DEF MismasLineas, Abrio, Busco
  <2>6. \A p \in Proc : ~QuienAbre(p)
    BY <2>2 DEF QuienAbre, Encargado
  <2>. QED
    BY <1>2, <2>5, <2>6, DuenioSigue
<1>. QED
  BY <1>4, <1>5

\* Neither do the steps of the thread of the answers of the CPU that end no F_OPEN,
\* no F_CLOSE and no F_SEEK.
LEMMA DuenioRespuestaCpu ==
  ASSUME EstructuraInv, danio = "ninguno", DuenioInv, Llanos', ManejarRespuestaCpu,
         ~EjecutarFOpenCerrado, ~EjecutarFOpenAbierto, ~EjecutarFClose, ~EjecutarFSeek
  PROVE  /\ \A f \in Archivo : DuenioDe(f)'
         /\ \A p \in Proc, f \in Archivo : Tiene(p, f)' <=> Tiene(p, f)
         /\ UNCHANGED puntero => \A p \in Proc, f \in Archivo : PunteroDe(p, f)'
         /\ UNCHANGED <<archivos_abiertos, cola_bloqueados, puntero, pedido>>
<1>1. Llanos /\ TurnoInv /\ NoProc \notin Proc /\ HiloFsInv
  BY Vivo
<1>2. UNCHANGED <<programa, program_counter, archivos_abiertos, cola_bloqueados, puntero, pedido>>
  BY DEF ManejarRespuestaCpu, HiloCpuAbierto, ProcesarAcceso, ProcesarFTruncate, HiloCpuSaca,
     HiloCpuMarca, HiloCpuApila, ProcesarCreateSegment, PedirCompactacion, Compactado,
     ProcesarYield, ProcesarExit, HiloCpuLibera, Procesa, tabla, procesos, servidor
<1>3. CASE hilo_cpu.pc # "procesa"
  <2>1. \/ HiloCpuAbierto \/ HiloCpuSaca \/ HiloCpuMarca \/ HiloCpuApila
        \/ PedirCompactacion \/ Compactado \/ HiloCpuLibera
    BY <1>3 DEF ManejarRespuestaCpu, ProcesarAcceso, ProcesarFTruncate, ProcesarCreateSegment,
       ProcesarYield, ProcesarExit, Procesa
  <2>2. hilo_cpu'.pc # "procesa"
    <3>1. \/ hilo_cpu' = [pc |-> "espera", pcb |-> NoProc]
          \/ \E c : c # "procesa" /\ hilo_cpu' = [hilo_cpu EXCEPT !.pc = c]
      BY <2>1 DEF HiloCpuAbierto, HiloCpuSaca, HiloCpuMarca, HiloCpuApila,
         PedirCompactacion, Compactado, HiloCpuLibera
    <3>2. hilo_cpu \in [pc : PcsCpu, pcb : ProcONull]
      BY <1>1 DEF Llanos
    <3>. QED
      BY <3>1, <3>2
  <2>3. MismasLineas
    BY <1>1, <1>2, <1>3, <2>2, LineaQuieta
  <2>4. hilo_cpu.pc # "espera_apertura" \/ hilo_cpu.pcb \notin Pedidos
    BY <1>1, <2>1 DEF HiloCpuAbierto, HiloCpuSaca, HiloCpuMarca, HiloCpuApila,
       PedirCompactacion, Compactado, HiloCpuLibera, HiloFsInv
  <2>5. \A p \in Proc : ~QuienAbre(p)
    BY <2>4 DEF QuienAbre, Encargado
  <2>. QED
    BY <1>2, <2>3, <2>5, DuenioSigue
<1>4. CASE hilo_cpu.pc = "procesa"
  <2>1. PICK p : p = hilo_cpu.pcb
    OBVIOUS
  <2>2. p \in Proc
    BY <1>4, <2>1, EnMano
  <2>3. \/ ProcesarAcceso \/ ProcesarFTruncate \/ ProcesarCreateSegment \/ ProcesarYield
        \/ ProcesarExit
    BY <1>4 DEF ManejarRespuestaCpu, HiloCpuAbierto, HiloCpuSaca, HiloCpuMarca, HiloCpuApila,
       PedirCompactacion, Compactado, HiloCpuLibera
  <2>4. \E c : c # "procesa" /\ hilo_cpu' = [hilo_cpu EXCEPT !.pc = c]
    BY <2>3 DEF ProcesarAcceso, ProcesarFTruncate, ProcesarCreateSegment, ProcesarYield,
       ProcesarExit, Procesa
  <2>5. InstruccionDe(p).codigo \notin {"F_OPEN", "F_CLOSE", "F_SEEK"}
    BY <2>1, <2>3 DEF ProcesarAcceso, ProcesarFTruncate, ProcesarCreateSegment, ProcesarYield,
       ProcesarExit, Procesa, Accesos
  <2>6. MismasLineas
    <3>1. ASSUME NEW f
          PROVE  /\ InstruccionDe(p) # [codigo |-> "F_OPEN", archivo |-> f]
                 /\ InstruccionDe(p) # [codigo |-> "F_CLOSE", archivo |-> f]
                 /\ InstruccionDe(p) # [codigo |-> "F_SEEK", archivo |-> f]
      BY <2>5
    <3>2. PICK c : c # "procesa" /\ hilo_cpu' = [hilo_cpu EXCEPT !.pc = c]
      BY <2>4
    <3>3. /\ \A q \in Proc : q # p => \A f \in Archivo : /\ Abrio(q, f)' <=> Abrio(q, f)
                                                         /\ Busco(q, f)' <=> Busco(q, f)
          /\ \A f \in Archivo :
              /\ Abrio(p, f)' <=>
                    \/ InstruccionDe(p) = [codigo |-> "F_OPEN", archivo |-> f]
                    \/ Abrio(p, f) /\ InstruccionDe(p) # [codigo |-> "F_CLOSE", archivo |-> f]
              /\ Busco(p, f)' <=>
                    \/ InstruccionDe(p) = [codigo |-> "F_SEEK", archivo |-> f]
                    \/ Busco(p, f) /\ InstruccionDe(p) # [codigo |-> "F_CLOSE", archivo |-> f]
      BY <1>2, <1>4, <2>1, <3>2, LineaAvanza
    <3>4. \A f \in Archivo : (Abrio(p, f)' <=> Abrio(p, f)) /\ (Busco(p, f)' <=> Busco(p, f))
      BY <3>1, <3>3
    <3>. QED
      BY <2>2, <3>3, <3>4 DEF MismasLineas
  <2>7. \A q \in Proc : ~QuienAbre(q)
    BY <1>4 DEF QuienAbre, Encargado
  <2>. QED
    BY <1>2, <2>6, <2>7, DuenioSigue
<1>. QED
  BY <1>3, <1>4

\* Neither do the steps of the thread of the file system that open no file.
LEMMA DuenioFileSystem ==
  ASSUME EstructuraInv, danio = "ninguno", DuenioInv, Llanos', ProcesarFileSystem, ~RecibirAbierto
  PROVE  /\ \A f \in Archivo : DuenioDe(f)'
         /\ \A p \in Proc, f \in Archivo : Tiene(p, f)' <=> Tiene(p, f)
         /\ UNCHANGED puntero => \A p \in Proc, f \in Archivo : PunteroDe(p, f)'
         /\ UNCHANGED <<archivos_abiertos, cola_bloqueados, puntero>>
<1>1. Llanos /\ TurnoInv /\ NoProc \notin Proc /\ HiloFsInv
  BY Vivo
<1>2. UNCHANGED <<programa, program_counter, archivos_abiertos, cola_bloqueados, puntero, hilo_cpu>>
  BY DEF ProcesarFileSystem, ProcesarRequestFs, RecibirNoExiste, RecibirCreado,
     RecibirTruncado, RecibirAcceso, Recibe, Despertar, HiloFsSaca, HiloFsApila, tabla, procesos
<1>3. MismasLineas
  BY <1>1, <1>2, LineaQuieta
<1>4. \A p \in Proc : QuienAbre(p) => QuienAbre(p)' /\ ArchivoDe(p)' = ArchivoDe(p)
  <2>1. CASE ProcesarRequestFs
    <3>1. PICK r : r = Head(cola_archivos)
      OBVIOUS
    <3>2. /\ hilo_fs'.pcb = r /\ cola_archivos' = Tail(cola_archivos)
          /\ hilo_fs.pc = "espera" /\ cola_archivos # <<>>
      BY <2>1, <3>1 DEF ProcesarRequestFs
    <3>3. r \in Pedidos /\ Pedidos = Range(cola_archivos)
          /\ Range(Tail(cola_archivos)) = Range(cola_archivos) \ {r}
      BY <3>1, <3>2, QuienSigue
    <3>4. r # NoProc
      BY <1>1, <3>3, QuienPide
    <3>5. Pedidos' = Pedidos
      BY <3>2, <3>3, <3>4 DEF Pedidos
    <3>. QED
      BY <1>2, <3>5, AbreSigue
  <2>2. CASE RecibirNoExiste \/ RecibirCreado
    <3>1. hilo_fs'.pcb = hilo_fs.pcb /\ cola_archivos' = cola_archivos
      BY <1>1, <2>2 DEF RecibirNoExiste, RecibirCreado, Recibe, Llanos
    <3>2. Pedidos' = Pedidos
      BY <3>1 DEF Pedidos
    <3>. QED
      BY <1>2, <3>2, AbreSigue
  <2>3. CASE RecibirTruncado \/ RecibirAcceso
    <3>1. hilo_fs'.pcb = hilo_fs.pcb /\ cola_archivos' = cola_archivos
      BY <1>1, <2>3 DEF RecibirTruncado, RecibirAcceso, Recibe, Despierta, Llanos
    <3>2. Pedidos' = Pedidos
      BY <3>1 DEF Pedidos
    <3>. QED
      BY <1>2, <3>2, AbreSigue
  <2>4. CASE HiloFsSaca \/ HiloFsApila
    <3>1. PICK r : r = hilo_fs.pcb
      OBVIOUS
    <3>2. hilo_fs.pc \in Despertando /\ cola_archivos' = cola_archivos
      BY <2>4 DEF HiloFsSaca, HiloFsApila, cola_fs, Despertando
    <3>3. InstruccionDe(r).codigo # "F_OPEN"
      BY <1>1, <3>1, <3>2 DEF HiloFsInv, Bloqueantes, Accesos
    <3>4. ~Encargado("espera_apertura", r)
      BY <1>1, <3>3 DEF TurnoInv, Encargado
    <3>5. Pedidos \ {r} \subseteq Pedidos'
      BY <3>1, <3>2 DEF Pedidos
    <3>. QED
      BY <1>2, <3>4, <3>5 DEF QuienAbre, Encargado, ArchivoDe, InstruccionDe
  <2>. QED
    BY <2>1, <2>2, <2>3, <2>4 DEF ProcesarFileSystem
<1>. QED
  BY <1>2, <1>3, <1>4, DuenioSigue

\* F_OPEN of a file nobody has: its process has it once it is open.
LEMMA DuenioPide ==
  ASSUME EstructuraInv, danio = "ninguno", DuenioInv, Llanos', EjecutarFOpenCerrado
  PROVE  /\ \A g \in Archivo : DuenioDe(g)'
         /\ \A q \in Proc, g \in Archivo : PunteroDe(q, g)'
         /\ \A q \in Proc, g \in Archivo : Abierto(g) => (Tiene(q, g)' <=> Tiene(q, g))
         /\ UNCHANGED <<archivos_abiertos, cola_bloqueados, puntero, pedido>>
<1>1. PICK p : p = hilo_cpu.pcb
  OBVIOUS
<1>2. PICK f : f = ArchivoDe(p)
  OBVIOUS
<1>3. /\ hilo_cpu.pc = "procesa" /\ InstruccionDe(p).codigo = "F_OPEN" /\ ~Abierto(f)
      /\ hilo_cpu' = [hilo_cpu EXCEPT !.pc = "espera_apertura"]
      /\ cola_archivos' = Append(cola_archivos, p)
      /\ UNCHANGED <<programa, program_counter, hilo_fs, archivos_abiertos, cola_bloqueados,
                     puntero, pedido>>
  BY <1>1, <1>2 DEF EjecutarFOpenCerrado, Procesa, EncolarPedido, tabla, servidor
<1>4. /\ p \in Proc /\ f \in Archivo /\ EnSuPrograma(p) /\ p \notin Pedidos /\ Llanos
      /\ ~EnFila(p)
      /\ InstruccionDe(p) = [codigo |-> "F_OPEN", archivo |-> f]
  BY <1>1, <1>2, <1>3, EnMano, Vivo DEF DeArchivo
<1>5. /\ \A q \in Proc : q # p => \A g \in Archivo : /\ Abrio(q, g)' <=> Abrio(q, g)
                                                     /\ Busco(q, g)' <=> Busco(q, g)
      /\ \A g \in Archivo :
           /\ Abrio(p, g)' <=>
                 \/ InstruccionDe(p) = [codigo |-> "F_OPEN", archivo |-> g]
                 \/ Abrio(p, g) /\ InstruccionDe(p) # [codigo |-> "F_CLOSE", archivo |-> g]
           /\ Busco(p, g)' <=>
                 \/ InstruccionDe(p) = [codigo |-> "F_SEEK", archivo |-> g]
                 \/ Busco(p, g) /\ InstruccionDe(p) # [codigo |-> "F_CLOSE", archivo |-> g]
  BY <1>1, <1>3, LineaAvanza
<1>6. /\ \A g \in Archivo : Busco(p, g)' <=> Busco(p, g)
      /\ \A g \in Archivo : Abrio(p, g)' <=> g = f \/ Abrio(p, g)
  <2>1. \A g : /\ InstruccionDe(p) # [codigo |-> "F_CLOSE", archivo |-> g]
               /\ InstruccionDe(p) # [codigo |-> "F_SEEK", archivo |-> g]
    BY <1>3
  <2>2. \A g : InstruccionDe(p) = [codigo |-> "F_OPEN", archivo |-> g] <=> g = f
    BY <1>4
  <2>. QED
    BY <1>5, <2>1, <2>2
<1>7. /\ \A q \in Proc, g \in Archivo : Busco(q, g)' <=> Busco(q, g)
      /\ \A q \in Proc, g \in Archivo : Tiene(q, g)' <=> Tiene(q, g) \/ (q = p /\ g = f)
  <2>1. p \notin Range(cola_bloqueados[f])
    BY <1>4 DEF EnFila
  <2>. QED
    BY <1>3, <1>4, <1>5, <1>6, <2>1 DEF Tiene, Abrio
<1>8. \A g \in Archivo : Abierto(g)' <=> Abierto(g)
  BY <1>3 DEF Abierto
<1>9. Pedidos' = Pedidos \cup {p}
  BY <1>3, <1>4, PedidosMas
<1>10. QuienAbre(p)' /\ ArchivoDe(p)' = f
  <2>1. hilo_cpu'.pc = "espera_apertura" /\ hilo_cpu'.pcb = p
    BY <1>1, <1>3, <1>4 DEF Llanos
  <2>. QED
    BY <1>2, <1>3, <1>9, <2>1 DEF QuienAbre, Encargado, ArchivoDe, InstruccionDe
<1>11. ASSUME NEW g \in Archivo PROVE DuenioDe(g)'
  <2>1. DuenioDe(g)
    BY DEF DuenioInv
  <2>2. CASE Abierto(g)
    BY <1>3, <1>7, <1>8, <2>1, <2>2 DEF DuenioDe
  <2>3. CASE ~Abierto(g)
    <3>1. \A q \in Proc : ~Tiene(q, g)
      BY <1>3, <2>1, <2>3 DEF DuenioDe, Encargado
    <3>2. \A q \in Proc : Tiene(q, g)' => q = p /\ g = f
      BY <1>7, <3>1
    <3>3. \A q \in Proc : Tiene(q, g)' => QuienAbre(q)' /\ ArchivoDe(q)' = g
      BY <1>10, <3>2
    <3>4. cola_bloqueados'[g] = <<>>
      BY <1>3, <2>1, <2>3 DEF DuenioDe
    <3>. QED
      BY <1>8, <2>3, <3>3, <3>4 DEF DuenioDe, QuienAbre
  <2>. QED
    BY <2>2, <2>3
<1>12. ASSUME NEW q \in Proc, NEW g \in Archivo PROVE PunteroDe(q, g)'
  BY <1>3, <1>7, <1>8 DEF DuenioInv, PunteroDe
<1>. QED
  BY <1>3, <1>7, <1>11, <1>12

\* F_OPEN of a file somebody has: its process waits, and does not have it.
LEMMA DuenioEspera ==
  ASSUME EstructuraInv, danio = "ninguno", DuenioInv, Llanos', EjecutarFOpenAbierto,
         NEW p, p = hilo_cpu.pcb, NEW f, f = ArchivoDe(p)
  PROVE  /\ \A g \in Archivo : DuenioDe(g)'
         /\ \A q \in Proc, g \in Archivo : PunteroDe(q, g)'
         /\ \A q \in Proc, g \in Archivo : Tiene(q, g)' <=> Tiene(q, g)
         /\ UNCHANGED <<archivos_abiertos, puntero, pedido>>
         /\ p \in Proc /\ f \in Archivo /\ ~EnFila(p) /\ Abierto(f) /\ ~Tiene(p, f)
         /\ cola_bloqueados' = [cola_bloqueados EXCEPT ![f] = Append(cola_bloqueados[f], p)]
<1>3. /\ hilo_cpu.pc = "procesa" /\ InstruccionDe(p).codigo = "F_OPEN" /\ Abierto(f)
      /\ hilo_cpu' = [hilo_cpu EXCEPT !.pc = "libera"]
      /\ cola_bloqueados' = [cola_bloqueados EXCEPT ![f] = Append(cola_bloqueados[f], p)]
      /\ UNCHANGED <<programa, program_counter, archivos_abiertos, puntero, pedido>>
  BY DEF EjecutarFOpenAbierto, Procesa, servidor
<1>4. /\ p \in Proc /\ f \in Archivo /\ EnSuPrograma(p) /\ Llanos
      /\ ~EnFila(p)
      /\ InstruccionDe(p) = [codigo |-> "F_OPEN", archivo |-> f]
  BY <1>3, EnMano, Vivo DEF DeArchivo
<1>5. /\ \A q \in Proc : q # p => \A g \in Archivo : /\ Abrio(q, g)' <=> Abrio(q, g)
                                                     /\ Busco(q, g)' <=> Busco(q, g)
      /\ \A g \in Archivo :
           /\ Abrio(p, g)' <=>
                 \/ InstruccionDe(p) = [codigo |-> "F_OPEN", archivo |-> g]
                 \/ Abrio(p, g) /\ InstruccionDe(p) # [codigo |-> "F_CLOSE", archivo |-> g]
           /\ Busco(p, g)' <=>
                 \/ InstruccionDe(p) = [codigo |-> "F_SEEK", archivo |-> g]
                 \/ Busco(p, g) /\ InstruccionDe(p) # [codigo |-> "F_CLOSE", archivo |-> g]
  BY <1>3, LineaAvanza
<1>6. /\ \A g \in Archivo : Busco(p, g)' <=> Busco(p, g)
      /\ \A g \in Archivo : Abrio(p, g)' <=> g = f \/ Abrio(p, g)
  <2>1. \A g : /\ InstruccionDe(p) # [codigo |-> "F_CLOSE", archivo |-> g]
               /\ InstruccionDe(p) # [codigo |-> "F_SEEK", archivo |-> g]
    BY <1>3
  <2>2. \A g : InstruccionDe(p) = [codigo |-> "F_OPEN", archivo |-> g] <=> g = f
    BY <1>4
  <2>. QED
    BY <1>5, <2>1, <2>2
<1>7. ~Abrio(p, f)
  <2>1. Linea(p) = program_counter[p]
    BY <1>3, <1>4, LineaDe DEF Encargado
  <2>. QED
    BY <1>3, <1>4, <2>1, AlUsarlo DEF Abrio, DeArchivo
<1>8. /\ Range(cola_bloqueados'[f]) = Range(cola_bloqueados[f]) \cup {p}
      /\ \A g \in Archivo : g # f => cola_bloqueados'[g] = cola_bloqueados[g]
  <2>1. cola_bloqueados \in [Archivo -> Seq(Proc)]
    BY <1>4 DEF Llanos
  <2>2. cola_bloqueados[f] \in Seq(Proc) /\ cola_bloqueados'[f] = Append(cola_bloqueados[f], p)
    BY <1>3, <1>4, <2>1
  <2>. QED
    BY <1>3, <1>4, <2>1, <2>2, ColaAgrega
<1>9. \A q \in Proc, g \in Archivo : Busco(q, g)' <=> Busco(q, g)
  BY <1>5, <1>6
<1>10. \A q \in Proc, g \in Archivo : Tiene(q, g)' <=> Tiene(q, g)
  <2>1. ASSUME NEW q \in Proc, NEW g \in Archivo
        PROVE  /\ Tiene(q, g) <=> Abrio(q, g) /\ q \notin Range(cola_bloqueados[g])
               /\ Tiene(q, g)' <=> Abrio(q, g)' /\ q \notin Range(cola_bloqueados'[g])
    BY DEF Tiene, Abrio
  <2>2. ASSUME NEW q \in Proc, NEW g \in Archivo, q = p, g = f PROVE ~Tiene(q, g)' /\ ~Tiene(q, g)
    BY <1>7, <1>8, <2>1, <2>2
  <2>3. ASSUME NEW q \in Proc, NEW g \in Archivo, ~(q = p /\ g = f)
        PROVE  /\ Abrio(q, g)' <=> Abrio(q, g)
               /\ q \in Range(cola_bloqueados'[g]) <=> q \in Range(cola_bloqueados[g])
    BY <1>5, <1>6, <1>8, <2>3
  <2>. QED
    BY <2>1, <2>2, <2>3
<1>11. \A g \in Archivo : Abierto(g)' <=> Abierto(g)
  BY <1>3 DEF Abierto
<1>12. ASSUME NEW g \in Archivo PROVE DuenioDe(g)'
  <2>1. DuenioDe(g)
    BY DEF DuenioInv
  <2>2. CASE Abierto(g)
    BY <1>10, <1>11, <2>1, <2>2 DEF DuenioDe
  <2>3. CASE ~Abierto(g)
    <3>1. \A q \in Proc : ~Tiene(q, g)'
      BY <1>3, <1>10, <2>1, <2>3 DEF DuenioDe, Encargado
    <3>2. cola_bloqueados'[g] = <<>>
      BY <1>3, <1>8, <2>1, <2>3 DEF DuenioDe
    <3>. QED
      BY <1>11, <2>3, <3>1, <3>2 DEF DuenioDe
  <2>. QED
    BY <2>2, <2>3
<1>13. ASSUME NEW q \in Proc, NEW g \in Archivo PROVE PunteroDe(q, g)'
  BY <1>3, <1>9, <1>10, <1>11 DEF DuenioInv, PunteroDe
<1>14. ~Tiene(p, f)
  BY <1>7 DEF Tiene, Abrio
<1>. QED
  BY <1>3, <1>4, <1>10, <1>12, <1>13, <1>14

\* F_SEEK: the pointer moves, and it is the owner who moves it.
LEMMA DuenioMueve ==
  ASSUME EstructuraInv, danio = "ninguno", DuenioInv, Llanos', EjecutarFSeek
  PROVE  /\ \A g \in Archivo : DuenioDe(g)'
         /\ \A q \in Proc, g \in Archivo : PunteroDe(q, g)'
         /\ \A q \in Proc, g \in Archivo : Tiene(q, g)' <=> Tiene(q, g)
         /\ UNCHANGED <<archivos_abiertos, cola_bloqueados, pedido>>
         /\ PunteroPedido'
<1>1. PICK p : p = hilo_cpu.pcb
  OBVIOUS
<1>2. PICK f : f = ArchivoDe(p)
  OBVIOUS
<1>3. /\ hilo_cpu.pc = "procesa" /\ InstruccionDe(p).codigo = "F_SEEK"
      /\ hilo_cpu' = [hilo_cpu EXCEPT !.pc = "espera"]
      /\ puntero' = IF Abierto(f) THEN [puntero EXCEPT ![f] = p] ELSE puntero
      /\ UNCHANGED <<programa, program_counter, hilo_fs, cola_archivos, archivos_abiertos,
                     cola_bloqueados, pedido>>
  BY <1>1, <1>2 DEF EjecutarFSeek, Procesa, servidor, cola_fs
<1>4. /\ p \in Proc /\ f \in Archivo /\ EnSuPrograma(p) /\ Llanos /\ p \notin Pedidos
      /\ HiloFsInv
      /\ InstruccionDe(p) = [codigo |-> "F_SEEK", archivo |-> f]
  BY <1>1, <1>2, <1>3, EnMano, Vivo DEF DeArchivo
<1>5. /\ Abierto(f) /\ Tiene(p, f) /\ \A q \in Proc : Tiene(q, f) => q = p
  <2>1. Encargado("procesa", p) /\ InstruccionDe(p).codigo \in DeArchivo \ {"F_OPEN"}
    BY <1>1, <1>3 DEF Encargado, DeArchivo
  <2>. QED
    BY <1>2, <1>4, <2>1, EnUso
<1>6. /\ \A q \in Proc : q # p => \A g \in Archivo : /\ Abrio(q, g)' <=> Abrio(q, g)
                                                     /\ Busco(q, g)' <=> Busco(q, g)
      /\ \A g \in Archivo :
           /\ Abrio(p, g)' <=>
                 \/ InstruccionDe(p) = [codigo |-> "F_OPEN", archivo |-> g]
                 \/ Abrio(p, g) /\ InstruccionDe(p) # [codigo |-> "F_CLOSE", archivo |-> g]
           /\ Busco(p, g)' <=>
                 \/ InstruccionDe(p) = [codigo |-> "F_SEEK", archivo |-> g]
                 \/ Busco(p, g) /\ InstruccionDe(p) # [codigo |-> "F_CLOSE", archivo |-> g]
  BY <1>1, <1>3, LineaAvanza
<1>7. /\ \A g \in Archivo : Abrio(p, g)' <=> Abrio(p, g)
      /\ \A g \in Archivo : g # f => (Busco(p, g)' <=> Busco(p, g))
  <2>1. \A g : /\ InstruccionDe(p) # [codigo |-> "F_CLOSE", archivo |-> g]
               /\ InstruccionDe(p) # [codigo |-> "F_OPEN", archivo |-> g]
    BY <1>3
  <2>2. \A g : InstruccionDe(p) = [codigo |-> "F_SEEK", archivo |-> g] <=> g = f
    BY <1>4
  <2>. QED
    BY <1>6, <2>1, <2>2
<1>8. \A q \in Proc, g \in Archivo : Tiene(q, g)' <=> Tiene(q, g)
  BY <1>3, <1>6, <1>7 DEF Tiene, Abrio
<1>9. \A g \in Archivo : Abierto(g)' <=> Abierto(g)
  BY <1>3 DEF Abierto
<1>10. puntero'[f] = p /\ \A g \in Archivo : g # f => puntero'[g] = puntero[g]
  <2>1. puntero \in [Archivo -> ProcONull] /\ puntero' = [puntero EXCEPT ![f] = p]
    BY <1>3, <1>4, <1>5 DEF Llanos
  <2>. QED
    BY <1>4, <2>1
<1>11. ASSUME NEW g \in Archivo PROVE DuenioDe(g)'
  <2>1. DuenioDe(g)
    BY DEF DuenioInv
  <2>2. CASE Abierto(g)
    BY <1>8, <1>9, <2>1, <2>2 DEF DuenioDe
  <2>3. CASE ~Abierto(g)
    <3>1. \A q \in Proc : ~Tiene(q, g)'
      BY <1>3, <1>8, <2>1, <2>3 DEF DuenioDe, Encargado
    <3>2. cola_bloqueados'[g] = <<>>
      BY <1>3, <2>1, <2>3 DEF DuenioDe
    <3>. QED
      BY <1>9, <2>3, <3>1, <3>2 DEF DuenioDe
  <2>. QED
    BY <2>2, <2>3
<1>12. ASSUME NEW q \in Proc, NEW g \in Archivo PROVE PunteroDe(q, g)'
  <2>1. CASE g = f
    BY <1>5, <1>8, <1>10, <2>1 DEF PunteroDe
  <2>2. CASE g # f
    <3>1. Busco(q, g)' <=> Busco(q, g)
      BY <1>6, <1>7, <2>2
    <3>. QED
      BY <1>8, <1>9, <1>10, <2>2, <3>1 DEF DuenioInv, PunteroDe
  <2>. QED
    BY <2>1, <2>2
<1>13. PunteroPedido'
  <2>1. ASSUME pedido.codigo \in Accesos PROVE pedido.archivo \in Archivo \ {f}
    <3>1. PICK r : r = hilo_fs.pcb
      OBVIOUS
    <3>2. pedido # SinPedido /\ hilo_fs.pc # "espera"
      BY <1>4, <2>1 DEF SinPedido, Accesos, HiloFsInv
    <3>3. r \in Pedidos
      BY <3>1, <3>2, QuienAtiende
    <3>4. /\ r \in Proc /\ EnSuPrograma(r) /\ ArchivoDe(r) \in Archivo /\ r # p
      BY <1>4, <3>3, QuienPide
    <3>5. pedido.archivo = ArchivoDe(r)
      BY <1>4, <3>1, <3>2 DEF HiloFsInv
    <3>6. InstruccionDe(r).codigo = pedido.codigo
      BY <1>4, <2>1, <3>1, <3>2 DEF HiloFsInv, Accesos
    <3>7. Tiene(r, ArchivoDe(r))
      BY <2>1, <3>3, <3>4, <3>6, EnUso DEF Accesos, DeArchivo
    <3>. QED
      BY <1>5, <3>4, <3>5, <3>7
  <2>. QED
    BY <1>3, <1>10, <2>1 DEF PunteroPedido, DuenioInv
<1>. QED
  BY <1>3, <1>8, <1>11, <1>12, <1>13

\* F_CLOSE: nobody has the file any more, or the first who waits for it does.
LEMMA DuenioCierra ==
  ASSUME EstructuraInv, danio = "ninguno", DuenioInv, Llanos', EjecutarFClose,
         NEW p, p = hilo_cpu.pcb, NEW f, f = ArchivoDe(p)
  PROVE  /\ p \in Proc /\ f \in Archivo /\ Abierto(f) /\ Tiene(p, f) /\ ~EnFila(p)
         /\ \A g \in Archivo : DuenioDe(g)'
         /\ \A q \in Proc, g \in Archivo : PunteroDe(q, g)'
         /\ \A q \in Proc, g \in Archivo : g # f => (Tiene(q, g)' <=> Tiene(q, g))
         /\ \A g \in Archivo : g # f => (Abierto(g)' <=> Abierto(g))
         /\ UNCHANGED <<puntero, pedido>>
         /\ \/ cola_bloqueados[f] = <<>> /\ ~Abierto(f)' /\ UNCHANGED cola_bloqueados
            \/ /\ cola_bloqueados[f] # <<>> /\ Abierto(f)'
               /\ cola_bloqueados' = [cola_bloqueados EXCEPT ![f] = Tail(cola_bloqueados[f])]
               /\ Head(cola_bloqueados[f]) \in Proc
               /\ \A q \in Proc : Tiene(q, f)' <=> q = Head(cola_bloqueados[f])
<1>1. /\ hilo_cpu.pc = "procesa" /\ InstruccionDe(p).codigo = "F_CLOSE"
      /\ hilo_cpu' = [hilo_cpu EXCEPT !.pc = "espera"]
      /\ UNCHANGED <<programa, program_counter, puntero, pedido>>
  BY DEF EjecutarFClose, Procesa, servidor
<1>2. /\ p \in Proc /\ f \in Archivo /\ EnSuPrograma(p) /\ Llanos /\ ~EnFila(p)
      /\ TurnoInv /\ LugarInv /\ TablaInv
      /\ InstruccionDe(p) = [codigo |-> "F_CLOSE", archivo |-> f]
  BY <1>1, EnMano, Vivo DEF DeArchivo
<1>3. Abierto(f) /\ Tiene(p, f) /\ \A q \in Proc : Tiene(q, f) => q = p
  <2>1. Encargado("procesa", p) /\ InstruccionDe(p).codigo \in DeArchivo \ {"F_OPEN"}
    BY <1>1 DEF Encargado, DeArchivo
  <2>. QED
    BY <1>2, <2>1, EnUso
<1>4. /\ \A q \in Proc : q # p => \A g \in Archivo : /\ Abrio(q, g)' <=> Abrio(q, g)
                                                     /\ Busco(q, g)' <=> Busco(q, g)
      /\ \A g \in Archivo :
           /\ Abrio(p, g)' <=>
                 \/ InstruccionDe(p) = [codigo |-> "F_OPEN", archivo |-> g]
                 \/ Abrio(p, g) /\ InstruccionDe(p) # [codigo |-> "F_CLOSE", archivo |-> g]
           /\ Busco(p, g)' <=>
                 \/ InstruccionDe(p) = [codigo |-> "F_SEEK", archivo |-> g]
                 \/ Busco(p, g) /\ InstruccionDe(p) # [codigo |-> "F_CLOSE", archivo |-> g]
  BY <1>1, LineaAvanza
<1>5. /\ ~Abrio(p, f)'
      /\ \A q \in Proc, g \in Archivo : g # f => /\ Abrio(q, g)' <=> Abrio(q, g)
                                                 /\ Busco(q, g)' <=> Busco(q, g)
  <2>1. \A g : /\ InstruccionDe(p) # [codigo |-> "F_OPEN", archivo |-> g]
               /\ InstruccionDe(p) # [codigo |-> "F_SEEK", archivo |-> g]
    BY <1>1
  <2>2. \A g : InstruccionDe(p) = [codigo |-> "F_CLOSE", archivo |-> g] <=> g = f
    BY <1>2
  <2>. QED
    BY <1>2, <1>4, <2>1, <2>2
<1>6. ASSUME NEW q \in Proc, NEW g \in Archivo
      PROVE  /\ Tiene(q, g) <=> Abrio(q, g) /\ q \notin Range(cola_bloqueados[g])
             /\ Tiene(q, g)' <=> Abrio(q, g)' /\ q \notin Range(cola_bloqueados'[g])
  BY DEF Tiene, Abrio
<1>7. /\ \A g \in Archivo : g # f => cola_bloqueados'[g] = cola_bloqueados[g]
      /\ \A g \in Archivo : g # f => (Abierto(g)' <=> Abierto(g))
      /\ \/ cola_bloqueados[f] = <<>> /\ ~Abierto(f)' /\ UNCHANGED cola_bloqueados
         \/ /\ cola_bloqueados[f] # <<>> /\ Abierto(f)'
            /\ cola_bloqueados' = [cola_bloqueados EXCEPT ![f] = Tail(cola_bloqueados[f])]
  <2>1. CASE cola_bloqueados[f] = <<>>
    <3>1. /\ archivos_abiertos' = RemoveFirst(archivos_abiertos, f)
          /\ UNCHANGED cola_bloqueados
      BY <1>3, <2>1 DEF EjecutarFClose
    <3>2. archivos_abiertos \in Seq(Archivo) /\ f \in Range(archivos_abiertos)
          /\ SinRepetir(archivos_abiertos)
      BY <1>2, <1>3 DEF Llanos, TablaInv, Abierto
    <3>3. Range(archivos_abiertos') = Range(archivos_abiertos) \ {f}
      BY <3>1, <3>2, ColaQuita
    <3>. QED
      BY <2>1, <3>1, <3>3 DEF Abierto
  <2>2. CASE cola_bloqueados[f] # <<>>
    <3>1. /\ cola_bloqueados' = [cola_bloqueados EXCEPT ![f] = Tail(cola_bloqueados[f])]
          /\ UNCHANGED archivos_abiertos
      BY <1>3, <2>2 DEF EjecutarFClose
    <3>2. cola_bloqueados \in [Archivo -> Seq(Proc)]
      BY <1>2 DEF Llanos
    <3>. QED
      BY <1>3, <2>2, <3>1, <3>2 DEF Abierto
  <2>. QED
    BY <2>1, <2>2
<1>8. \A q \in Proc, g \in Archivo : g # f => (Tiene(q, g)' <=> Tiene(q, g))
  BY <1>5, <1>6, <1>7
<1>9. ~Tiene(p, f)'
  BY <1>2, <1>5, <1>6
<1>10. ASSUME NEW g \in Archivo, g # f PROVE DuenioDe(g)'
  <2>1. DuenioDe(g)
    BY DEF DuenioInv
  <2>2. CASE Abierto(g)
    BY <1>7, <1>8, <1>10, <2>1, <2>2 DEF DuenioDe
  <2>3. CASE ~Abierto(g)
    <3>1. \A q \in Proc : ~Tiene(q, g)'
      BY <1>1, <1>8, <1>10, <2>1, <2>3 DEF DuenioDe, Encargado
    <3>2. cola_bloqueados'[g] = <<>>
      BY <1>7, <1>10, <2>1, <2>3 DEF DuenioDe
    <3>. QED
      BY <1>7, <1>10, <2>3, <3>1, <3>2 DEF DuenioDe
  <2>. QED
    BY <2>2, <2>3
<1>11. ASSUME NEW q \in Proc, NEW g \in Archivo, g # f PROVE PunteroDe(q, g)'
  <2>1. (Busco(q, g)' <=> Busco(q, g)) /\ (Tiene(q, g)' <=> Tiene(q, g))
        /\ (Abierto(g)' <=> Abierto(g))
    BY <1>5, <1>7, <1>8, <1>11
  <2>. QED
    BY <1>1, <2>1 DEF DuenioInv, PunteroDe
<1>12. CASE cola_bloqueados[f] = <<>>
  <2>1. ~Abierto(f)' /\ UNCHANGED cola_bloqueados
    BY <1>7, <1>12
  <2>2. \A q \in Proc : ~Tiene(q, f)'
    <3>1. ASSUME NEW q \in Proc, q # p PROVE ~Tiene(q, f)'
      BY <1>2, <1>3, <1>4, <1>6, <2>1, <3>1
    <3>. QED
      BY <1>9, <3>1
  <2>3. DuenioDe(f)'
    BY <1>12, <2>1, <2>2 DEF DuenioDe
  <2>4. \A q \in Proc : PunteroDe(q, f)'
    BY <2>1 DEF PunteroDe
  <2>. QED
    BY <1>1, <1>2, <1>3, <1>7, <1>8, <1>10, <1>11, <1>12, <2>1, <2>3, <2>4
<1>13. CASE cola_bloqueados[f] # <<>>
  <2>1. /\ Abierto(f)'
        /\ cola_bloqueados' = [cola_bloqueados EXCEPT ![f] = Tail(cola_bloqueados[f])]
    BY <1>7, <1>13
  <2>2. PICK h : h = Head(cola_bloqueados[f])
    OBVIOUS
  <2>3. /\ h \in Proc /\ h \in Range(cola_bloqueados[f])
        /\ Range(cola_bloqueados'[f]) = Range(cola_bloqueados[f]) \ {h}
    <3>1. cola_bloqueados \in [Archivo -> Seq(Proc)] /\ SinRepetir(cola_bloqueados[f])
      BY <1>2 DEF Llanos, LugarInv
    <3>2. cola_bloqueados[f] \in Seq(Proc) /\ cola_bloqueados'[f] = Tail(cola_bloqueados[f])
      BY <1>2, <2>1, <3>1
    <3>. QED
      BY <1>13, <2>2, <3>1, <3>2, ColaSaca
  <2>4. h # p /\ EnSuPrograma(h) /\ InstruccionDe(h) = [codigo |-> "F_OPEN", archivo |-> f]
    <3>1. FilaInv(h)
      BY <1>2, <2>3 DEF LugarInv, LugarDe
    <3>. QED
      BY <1>2, <2>3, <3>1 DEF FilaInv, EnFila
  <2>5. Abrio(h, f) /\ ~Busco(h, f)
    <3>1. Linea(h) = program_counter[h] + 1
      BY <1>2, <2>3, <2>4, LineaDe DEF Encargado
    <3>2. program_counter[h] \in Nat /\ program_counter[h] >= 1
      BY <1>2, <2>3, <2>4 DEF Llanos, EnSuPrograma
    <3>3. programa[h][program_counter[h]] = [codigo |-> "F_OPEN", archivo |-> f]
      BY <2>4 DEF InstruccionDe
    <3>4. Abrio(h, f)
      BY <3>1, <3>2, <3>3, VigenteAvanza DEF Abrio
    <3>5. ~Vigente(programa[h], program_counter[h], "F_SEEK", f)
      BY <2>3, <2>4, AlUsarlo DEF DeArchivo, ArchivoDe
    <3>6. programa[h][program_counter[h]] # [codigo |-> "F_SEEK", archivo |-> f]
      BY <3>3
    <3>7. ~Busco(h, f)
      BY <3>1, <3>2, <3>5, <3>6, VigenteAvanza DEF Busco
    <3>. QED
      BY <3>4, <3>7
  <2>6. Abrio(h, f)' /\ ~Busco(h, f)'
    BY <1>2, <1>4, <2>3, <2>4, <2>5
  <2>7. Tiene(h, f)'
    BY <1>2, <1>6, <2>3, <2>6
  <2>8. ASSUME NEW q \in Proc, q # h PROVE ~Tiene(q, f)'
    <3>1. CASE q = p
      BY <1>9, <3>1
    <3>2. CASE q # p
      BY <1>2, <1>3, <1>4, <1>6, <2>3, <2>8, <3>2
    <3>. QED
      BY <3>1, <3>2
  <2>9. \A q \in Proc : Tiene(q, f)' <=> q = h
    BY <2>7, <2>8
  <2>10. DuenioDe(f)'
    BY <2>1, <2>3, <2>9 DEF DuenioDe
  <2>11. \A q \in Proc : PunteroDe(q, f)'
    BY <2>6, <2>9 DEF PunteroDe
  <2>. QED
    BY <1>1, <1>2, <1>3, <1>7, <1>8, <1>10, <1>11, <1>13, <2>1, <2>2, <2>3, <2>9, <2>10, <2>11
<1>. QED
  BY <1>12, <1>13

\* F_OPEN_OK: the process that waits for it has the file, with its pointer at 0.
LEMMA DuenioAbre ==
  ASSUME EstructuraInv, danio = "ninguno", DuenioInv, Llanos', RecibirAbierto,
         NEW p, p = hilo_fs.pcb, NEW f, f = ArchivoDe(p)
  PROVE  /\ p \in Proc /\ f \in Archivo /\ ~Abierto(f) /\ Tiene(p, f) /\ ~EnFila(p)
         /\ \A g \in Archivo : DuenioDe(g)'
         /\ \A q \in Proc, g \in Archivo : PunteroDe(q, g)'
         /\ \A q \in Proc, g \in Archivo : Tiene(q, g)' <=> Tiene(q, g)
         /\ \A g \in Archivo : Abierto(g)' <=> Abierto(g) \/ g = f
         /\ UNCHANGED cola_bloqueados /\ pedido' = SinPedido
<1>1. /\ hilo_fs.pc = "recibe" /\ hilo_fs' = Ocioso
      /\ respuesta = "F_OPEN_OK" /\ respuesta' = "NINGUNA"
      /\ archivos_abiertos' = Append(archivos_abiertos, f)
      /\ puntero' = IF Abierto(f) THEN puntero ELSE [puntero EXCEPT ![f] = NoProc]
      /\ UNCHANGED <<programa, program_counter, cola_archivos, pedido, hilo_cpu,
                     cola_bloqueados>>
  BY DEF RecibirAbierto, Recibe
<1>2. Llanos /\ TurnoInv /\ TablaInv /\ NoProc \notin Proc
  BY Vivo
<1>3. /\ p \in Proc /\ p \in Pedidos /\ LugarDe(p) /\ f \in Archivo
      /\ respuesta \in Contesta(InstruccionDe(p).codigo) /\ pedido' = SinPedido
  BY <1>1, PedidosMenos, Respondido
<1>4. InstruccionDe(p).codigo = "F_OPEN" /\ EnSuPrograma(p)
      /\ InstruccionDe(p) = [codigo |-> "F_OPEN", archivo |-> f]
  <2>1. EnSuPrograma(p) /\ InstruccionDe(p).codigo \in Bloqueantes \cup {"F_OPEN"}
        /\ InstruccionDe(p) = [codigo |-> InstruccionDe(p).codigo, archivo |-> ArchivoDe(p)]
    BY <1>3, QuienPide
  <2>2. InstruccionDe(p).codigo = "F_OPEN"
    BY <1>1, <1>3, <2>1 DEF Contesta, Bloqueantes, Accesos
  <2>. QED
    BY <2>1, <2>2
<1>5. ~Abierto(f)
  BY <1>2, <1>3, <1>4 DEF TablaInv, AbreInv
<1>6. Encargado("espera_apertura", p) /\ ~EnFila(p)
  BY <1>2, <1>3, <1>4, PedidoEstado DEF LugarDe, PedidoInv
<1>7. Abrio(p, f) /\ ~Busco(p, f)
  <2>1. Linea(p) = program_counter[p] + 1
    BY <1>2, <1>3, <1>6, LineaDe DEF Encargado
  <2>2. program_counter[p] \in Nat /\ program_counter[p] >= 1
    BY <1>2, <1>3, <1>4 DEF Llanos, EnSuPrograma
  <2>3. programa[p][program_counter[p]] = [codigo |-> "F_OPEN", archivo |-> f]
    BY <1>4 DEF InstruccionDe
  <2>4. Abrio(p, f)
    BY <2>1, <2>2, <2>3, VigenteAvanza DEF Abrio
  <2>5. ~Vigente(programa[p], program_counter[p], "F_SEEK", f)
    BY <1>3, <1>4, AlUsarlo DEF DeArchivo
  <2>6. programa[p][program_counter[p]] # [codigo |-> "F_SEEK", archivo |-> f]
    BY <2>3
  <2>. QED
    BY <2>1, <2>2, <2>4, <2>5, <2>6, VigenteAvanza DEF Busco
<1>8. Tiene(p, f)
  BY <1>3, <1>6, <1>7 DEF Tiene, Abrio, EnFila
<1>9. MismasLineas
  BY <1>1, <1>2, LineaQuieta
<1>10. \A q \in Proc, g \in Archivo : /\ Tiene(q, g)' <=> Tiene(q, g)
                                      /\ Busco(q, g)' <=> Busco(q, g)
  BY <1>1, <1>9 DEF MismasLineas, Abrio, Tiene
<1>11. \A g \in Archivo : Abierto(g)' <=> Abierto(g) \/ g = f
  <2>1. archivos_abiertos \in Seq(Archivo)
    BY <1>2 DEF Llanos
  <2>2. Range(archivos_abiertos') = Range(archivos_abiertos) \cup {f}
    BY <1>1, <1>3, <2>1, ColaAgrega
  <2>. QED
    BY <2>2 DEF Abierto
<1>12. ASSUME NEW q \in Proc, NEW g \in Archivo, Tiene(q, g), ~Abierto(g)
       PROVE  q = p /\ g = f
  <2>1. DuenioDe(g)
    BY DEF DuenioInv
  <2>. QED
    BY <1>6, <1>12, <2>1 DEF DuenioDe, Encargado
<1>13. puntero'[f] = NoProc /\ \A g \in Archivo : g # f => puntero'[g] = puntero[g]
  <2>1. puntero \in [Archivo -> ProcONull] /\ puntero' = [puntero EXCEPT ![f] = NoProc]
    BY <1>1, <1>2, <1>5 DEF Llanos
  <2>. QED
    BY <1>3, <2>1
<1>14. ASSUME NEW g \in Archivo PROVE DuenioDe(g)'
  <2>1. DuenioDe(g)
    BY DEF DuenioInv
  <2>2. CASE g = f
    <3>1. \A q \in Proc : Tiene(q, g)' => q = p
      BY <1>5, <1>10, <1>12, <2>2
    <3>2. Tiene(p, g)' /\ Abierto(g)'
      BY <1>3, <1>8, <1>10, <1>11, <2>2
    <3>. QED
      BY <1>3, <3>1, <3>2 DEF DuenioDe
  <2>3. CASE g # f /\ Abierto(g)
    BY <1>10, <1>11, <2>1, <2>3 DEF DuenioDe
  <2>4. CASE g # f /\ ~Abierto(g)
    <3>1. \A q \in Proc : ~Tiene(q, g)'
      BY <1>10, <1>12, <2>4
    <3>2. cola_bloqueados'[g] = <<>> /\ ~Abierto(g)'
      BY <1>1, <1>11, <2>1, <2>4 DEF DuenioDe
    <3>. QED
      BY <3>1, <3>2 DEF DuenioDe
  <2>. QED
    BY <2>2, <2>3, <2>4
<1>15. ASSUME NEW q \in Proc, NEW g \in Archivo PROVE PunteroDe(q, g)'
  <2>1. CASE g = f
    <3>1. Tiene(q, g)' => q = p
      BY <1>5, <1>10, <1>12, <2>1
    <3>2. q = p => ~Busco(q, g)'
      BY <1>7, <1>10, <2>1
    <3>. QED
      BY <3>1, <3>2 DEF PunteroDe
  <2>2. CASE g # f
    BY <1>10, <1>11, <1>13, <2>2 DEF DuenioInv, PunteroDe
  <2>. QED
    BY <2>1, <2>2
<1>. QED
  BY <1>1, <1>3, <1>5, <1>6, <1>8, <1>10, <1>11, <1>14, <1>15

\* The request carries the pointer of its entry.
LEMMA PunteroPedidoSigue ==
  ASSUME DuenioInv, UNCHANGED puntero,
         \/ UNCHANGED pedido
         \/ pedido' = SinPedido
         \/ \E c, p, f : Enviar(c, p, f)
  PROVE  PunteroPedido'
<1>1. CASE UNCHANGED pedido
  BY <1>1 DEF DuenioInv, PunteroPedido
<1>2. CASE pedido' = SinPedido
  BY <1>2 DEF PunteroPedido, SinPedido, Accesos
<1>3. CASE \E c, p, f : Enviar(c, p, f)
  BY <1>3 DEF PunteroPedido, Enviar
<1>. QED
  BY <1>1, <1>2, <1>3

\* Every step keeps who has each file, the one in which something goes wrong too.
LEMMA PasoDuenio ==
  ASSUME EstructuraInv, danio = "ninguno", DuenioInv, Next
  PROVE  DuenioInv'
<1>1. Llanos'
  BY PasoEstructura, TipoLlanoPrima DEF EstructuraInv
<1>2. CASE (\E p \in Proc : Admite(p)) \/ Despacha \/ CpuDevuelve \/ AtenderRequest
  <2>1. UNCHANGED pedido \/ pedido' = SinPedido
    BY <1>2 DEF Admite, Despacha, CpuDevuelve, AtenderRequest, servidor
  <2>. QED
    BY <1>1, <1>2, <2>1, DuenioPlanificadores, PunteroPedidoSigue DEF DuenioInv
<1>3. CASE ManejarRespuestaCpu
  <2>1. CASE EjecutarFOpenCerrado
    BY <1>1, <2>1, DuenioPide, PunteroPedidoSigue DEF DuenioInv
  <2>2. CASE EjecutarFOpenAbierto
    BY <1>1, <2>2, DuenioEspera, PunteroPedidoSigue DEF DuenioInv
  <2>3. CASE EjecutarFClose
    BY <1>1, <2>3, DuenioCierra, PunteroPedidoSigue DEF DuenioInv
  <2>4. CASE EjecutarFSeek
    BY <1>1, <2>4, DuenioMueve DEF DuenioInv
  <2>5. CASE ~EjecutarFOpenCerrado /\ ~EjecutarFOpenAbierto /\ ~EjecutarFClose
             /\ ~EjecutarFSeek
    BY <1>1, <1>3, <2>5, DuenioRespuestaCpu, PunteroPedidoSigue DEF DuenioInv
  <2>. QED
    BY <2>1, <2>2, <2>3, <2>4, <2>5
<1>4. CASE RecibirAbierto
  <2>1. pedido' = SinPedido
    BY <1>1, <1>4, DuenioAbre
  <2>2. PunteroPedido'
    BY <2>1 DEF PunteroPedido, SinPedido, Accesos
  <2>. QED
    BY <1>1, <1>4, <2>2, DuenioAbre DEF DuenioInv
<1>5. CASE ProcesarFileSystem /\ ~RecibirAbierto
  <2>1. UNCHANGED pedido \/ \E c, p, f : Enviar(c, p, f)
    BY <1>5 DEF ProcesarFileSystem, ProcesarRequestFs, RecibirNoExiste, RecibirCreado,
       RecibirTruncado, RecibirAcceso, Despertar, HiloFsSaca, HiloFsApila, servidor
  <2>. QED
    BY <1>1, <1>5, <2>1, DuenioFileSystem, PunteroPedidoSigue DEF DuenioInv
<1>. QED
  BY <1>2, <1>3, <1>4, <1>5 DEF Next

\* Once something has gone wrong there are no more steps.
LEMMA CaidoQuieto == danio # "ninguno" => ~Next
  BY DEF Next, Admite, Despacha, CpuDevuelve, ManejarRespuestaCpu, Procesa,
     EjecutarFOpenCerrado, HiloCpuAbierto, EjecutarFOpenAbierto, EjecutarFClose, EjecutarFSeek,
     ProcesarAcceso, ProcesarFTruncate, HiloCpuSaca, HiloCpuMarca, HiloCpuApila,
     ProcesarCreateSegment, PedirCompactacion, Compactado, ProcesarYield, ProcesarExit,
     HiloCpuLibera, ProcesarFileSystem, ProcesarRequestFs, RecibirNoExiste, RecibirCreado,
     RecibirAbierto, RecibirTruncado, RecibirAcceso, Recibe, HiloFsSaca, HiloFsApila,
     AtenderRequest

\* Nobody has a file at the start.
LEMMA InitArchivos == Init => ArchivosInv
<1> SUFFICES ASSUME Init PROVE ArchivosInv
  OBVIOUS
<1>1. EstructuraInv /\ danio = "ninguno"
  BY InitEstructura DEF Init
<1>2. Llanos
  BY <1>1, Vivo
<1>3. ASSUME NEW p \in Proc, NEW f \in Archivo PROVE ~Tiene(p, f)
  <2>1. Linea(p) = 1
    BY <1>2, LineaDe DEF Init, Encargado
  <2>. QED
    BY <2>1 DEF Tiene, Vigente
<1>4. \A f \in Archivo : ~Abierto(f) /\ cola_bloqueados[f] = <<>>
  BY ColaVacia DEF Init, Abierto
<1>5. DuenioInv
  BY <1>3, <1>4
  DEF Init, DuenioInv, DuenioDe, PunteroDe, PunteroPedido, SinPedido, Accesos
<1>. QED
  BY <1>1, <1>5 DEF ArchivosInv, SoloCaeEnLaVentana

\* Every step keeps the whole invariant; what goes wrong leaves no request on its way.
LEMMA PasoArchivos == ArchivosInv /\ [Next]_vars => ArchivosInv'
<1> SUFFICES ASSUME ArchivosInv, [Next]_vars PROVE ArchivosInv'
  OBVIOUS
<1>1. EstructuraInv'
  BY PasoEstructura DEF ArchivosInv
<1>2. CASE Next
  <2>1. danio = "ninguno" /\ EstructuraInv /\ DuenioInv
    BY <1>2, CaidoQuieto DEF ArchivosInv
  <2>2. DuenioInv'
    BY <1>2, <2>1, PasoDuenio
  <2>3. danio' # "ninguno" => SoloCaeEnLaVentana' /\ pedido' = SinPedido
    BY <1>2, <2>1, CaeEnLaVentana
  <2>. QED
    BY <1>1, <2>2, <2>3 DEF ArchivosInv, SoloCaeEnLaVentana
<1>3. CASE UNCHANGED vars
  <2>1. UNCHANGED <<danio, pedido>> /\ (SoloCaeEnLaVentana' <=> SoloCaeEnLaVentana)
    BY <1>3 DEF vars, procesos, colas, cola_fs, tabla, servidor, SoloCaeEnLaVentana,
       SacadoParaBloquear, Lugares, Veces, Pedidos, Bloqueante, InstruccionDe
  <2>2. danio = "ninguno" => DuenioInv'
    BY <1>3 DEF vars, procesos, colas, cola_fs, tabla, servidor, ArchivosInv, DuenioInv,
       DuenioDe, PunteroDe, PunteroPedido, Abierto, Tiene, Busco, Linea, Encargado, Pedidos,
       ArchivoDe, InstruccionDe
  <2>. QED
    BY <1>1, <2>1, <2>2 DEF ArchivosInv
<1>. QED
  BY <1>2, <1>3

\* Who has each file, and where everything is, in every state.
THEOREM InvarianteDeArchivos == Spec => []ArchivosInv
  BY InitArchivos, PasoArchivos, PTL DEF Spec

\* The two NULLs and the pcb of another process have one cause: the thread of the file
\* system reads EXEC before pasar_a_cola_blocked changes the state, and pops cola_exec after
\* it was popped (planificador_utils.c:187, 193, 312-316).  F_CLOSE finds the process it
\* wakes up and each request its entry.
THEOREM CaeSoloEnLaVentana == Spec => []SoloCaeEnLaVentana
<1>1. ArchivosInv => SoloCaeEnLaVentana
  BY DEF ArchivosInv
<1>. QED
  BY <1>1, InvarianteDeArchivos, PTL

\* The pointer that goes with F_READ and F_WRITE is the one the process put, once it
\* has done an F_SEEK (i_cpu.c:370-382, i_file_system.c:126, 148).
THEOREM CadaUnoSuPuntero == Spec => []PunteroPropio
<1>1. ASSUME ArchivosInv, pedido.codigo \in Accesos, Busco(pedido.pid, pedido.archivo)
      PROVE  pedido.puntero = pedido.pid
  <2>1. pedido # SinPedido
    BY <1>1 DEF SinPedido, Accesos
  <2>2. danio = "ninguno" /\ EstructuraInv /\ DuenioInv
    BY <1>1, <2>1 DEF ArchivosInv
  <2>3. HiloFsInv
    BY <2>2, Vivo
  <2>4. PICK p : p = hilo_fs.pcb
    OBVIOUS
  <2>5. /\ hilo_fs.pc # "espera" /\ pedido.pid = p /\ pedido.archivo = ArchivoDe(p)
        /\ InstruccionDe(p).codigo = pedido.codigo
    BY <1>1, <2>1, <2>3, <2>4 DEF HiloFsInv, Accesos
  <2>6. p \in Pedidos
    BY <2>2, <2>4, <2>5, QuienAtiende
  <2>7. p \in Proc /\ EnSuPrograma(p)
    BY <2>2, <2>6, QuienPide
  <2>8. ArchivoDe(p) \in Archivo /\ Abierto(ArchivoDe(p)) /\ Tiene(p, ArchivoDe(p))
    BY <1>1, <2>2, <2>5, <2>6, <2>7, EnUso DEF Accesos, DeArchivo
  <2>9. puntero[ArchivoDe(p)] = p
    BY <1>1, <2>2, <2>5, <2>7, <2>8 DEF DuenioInv, PunteroDe
  <2>. QED
    BY <1>1, <2>2, <2>5, <2>9 DEF DuenioInv, PunteroPedido
<1>2. ArchivosInv => PunteroPropio
  BY <1>1 DEF PunteroPropio
<1>. QED
  BY <1>2, InvarianteDeArchivos, PTL

-----------------------------------------------------------------------------
(* The locks                                                               *)

\* Who has an open file is the one the locks call its owner.
LEMMA ElDuenio ==
  ASSUME NEW f \in Archivo, DuenioDe(f)
  PROVE  /\ ~Abierto(f) => QuienTiene(f) = NoProc
         /\ Abierto(f) => /\ QuienTiene(f) \in Proc
                          /\ \A p \in Proc : Tiene(p, f) <=> p = QuienTiene(f)
<1>1. CASE ~Abierto(f)
  BY <1>1 DEF QuienTiene
<1>2. CASE Abierto(f)
  <2>1. PICK p \in Proc : Tiene(p, f) /\ \A q \in Proc : Tiene(q, f) => q = p
    BY <1>2 DEF DuenioDe
  <2>2. QuienTiene(f) = CHOOSE q \in Proc : Tiene(q, f)
    BY <1>2, <2>1 DEF QuienTiene
  <2>3. (CHOOSE q \in Proc : Tiene(q, f)) \in Proc /\ Tiene(CHOOSE q \in Proc : Tiene(q, f), f)
    BY <2>1, Zenon
  <2>4. QuienTiene(f) \in Proc /\ Tiene(QuienTiene(f), f)
    BY <2>2, <2>3
  <2>. QED
    BY <1>2, <2>1, <2>4
<1>. QED
  BY <1>1, <1>2

\* And after a step.
LEMMA ElDuenioPrima ==
  ASSUME NEW f \in Archivo, DuenioDe(f)'
  PROVE  /\ ~Abierto(f)' => QuienTiene(f)' = NoProc
         /\ Abierto(f)' => /\ QuienTiene(f)' \in Proc
                           /\ \A p \in Proc : Tiene(p, f)' <=> p = QuienTiene(f)'
<1>1. CASE ~Abierto(f)'
  BY <1>1 DEF QuienTiene
<1>2. CASE Abierto(f)'
  <2>1. PICK p \in Proc : Tiene(p, f)' /\ \A q \in Proc : Tiene(q, f)' => q = p
    BY <1>2 DEF DuenioDe
  <2>2. QuienTiene(f)' = CHOOSE q \in Proc : Tiene(q, f)'
    BY <1>2, <2>1 DEF QuienTiene
  <2>3. \E q \in Proc : Tiene(q, f)' /\ q = CHOOSE r \in Proc : Tiene(r, f)'
    BY <2>1, Zenon
  <2>. QED
    BY <1>2, <2>1, <2>2, <2>3
<1>. QED
  BY <1>1, <1>2

\* A file whose entry and whose owner a step leaves alone.
LEMMA MismoDuenio ==
  ASSUME NEW f \in Archivo, DuenioDe(f), DuenioDe(f)', Abierto(f)' <=> Abierto(f),
         Abierto(f) => \A p \in Proc : Tiene(p, f)' <=> Tiene(p, f)
  PROVE  QuienTiene(f)' = QuienTiene(f)
  BY ElDuenio, ElDuenioPrima

\* The locks of CerrojosDeArchivos, in the words of this module.
LEMMA DefinicionesDeCerrojos ==
  /\ Cerrojos!Init <=> /\ [f \in Archivo |-> QuienTiene(f)] = [f \in Archivo |-> NoProc]
                       /\ cola_bloqueados = [f \in Archivo |-> <<>>]
  /\ Cerrojos!vars = <<[f \in Archivo |-> QuienTiene(f)], cola_bloqueados>>
  /\ \A p : Cerrojos!NadaEspera(p) <=> ~EnFila(p)
  BY DEF Cerrojos!Init, Cerrojos!vars, Cerrojos!NadaEspera, Cerrojos!EnFila, EnFila, Range

Duenios == [f \in Archivo |-> QuienTiene(f)]

\* The owners after a step that changes the one of a file, or none.
LEMMA DueniosCambian ==
  ASSUME NEW f \in Archivo, \A g \in Archivo : g # f => QuienTiene(g)' = QuienTiene(g)
  PROVE  Duenios' = [Duenios EXCEPT ![f] = QuienTiene(f)']
  BY DEF Duenios

\* RecibirAbierto takes a free file, EjecutarFOpenAbierto waits for one that has an
\* owner, EjecutarFClose hands one over, and nothing else moves the locks.
LEMMA PasoCerrojos ==
  ASSUME EstructuraInv, danio = "ninguno", DuenioInv, Next
  PROVE  Cerrojos!Next \/ UNCHANGED Cerrojos!vars
<1>1. Llanos' /\ NoProc \notin Proc /\ \A f \in Archivo : DuenioDe(f) /\ DuenioDe(f)'
  BY PasoEstructura, PasoDuenio, TipoLlanoPrima, ConstantesAssumption
  DEF EstructuraInv, DuenioInv
<1>2. ASSUME UNCHANGED cola_bloqueados, \A f \in Archivo : QuienTiene(f)' = QuienTiene(f)
      PROVE  UNCHANGED Cerrojos!vars
  BY <1>2, DefinicionesDeCerrojos DEF Cerrojos!vars
<1>3. CASE EjecutarFOpenAbierto
  <2>1. PICK p : p = hilo_cpu.pcb
    OBVIOUS
  <2>2. PICK f : f = ArchivoDe(p)
    OBVIOUS
  <2>3. /\ \A q \in Proc, g \in Archivo : Tiene(q, g)' <=> Tiene(q, g)
        /\ UNCHANGED archivos_abiertos
        /\ p \in Proc /\ f \in Archivo /\ ~EnFila(p) /\ Abierto(f) /\ ~Tiene(p, f)
        /\ cola_bloqueados' = [cola_bloqueados EXCEPT ![f] = Append(cola_bloqueados[f], p)]
    BY <1>1, <1>3, <2>1, <2>2, DuenioEspera
  <2>4. \A g \in Archivo : QuienTiene(g)' = QuienTiene(g)
    BY <1>1, <2>3, MismoDuenio DEF Abierto
  <2>5. QuienTiene(f) \notin {NoProc, p}
    BY <1>1, <2>3, ElDuenio
  <2>6. Duenios' = Duenios /\ Duenios[f] = QuienTiene(f)
    BY <2>3, <2>4 DEF Duenios
  <2>7. Cerrojos!Espera(p, f)
    BY <2>3, <2>5, <2>6, DefinicionesDeCerrojos DEF Cerrojos!Espera, Duenios
  <2>. QED
    BY <2>3, <2>7 DEF Cerrojos!Next
<1>4. CASE EjecutarFClose
  <2>1. PICK p : p = hilo_cpu.pcb
    OBVIOUS
  <2>2. PICK f : f = ArchivoDe(p)
    OBVIOUS
  <2>3. /\ p \in Proc /\ f \in Archivo /\ Abierto(f) /\ Tiene(p, f) /\ ~EnFila(p)
        /\ \A q \in Proc, g \in Archivo : g # f => (Tiene(q, g)' <=> Tiene(q, g))
        /\ \A g \in Archivo : g # f => (Abierto(g)' <=> Abierto(g))
        /\ \/ cola_bloqueados[f] = <<>> /\ ~Abierto(f)' /\ UNCHANGED cola_bloqueados
           \/ /\ cola_bloqueados[f] # <<>> /\ Abierto(f)'
              /\ cola_bloqueados' = [cola_bloqueados EXCEPT ![f] = Tail(cola_bloqueados[f])]
              /\ Head(cola_bloqueados[f]) \in Proc
              /\ \A q \in Proc : Tiene(q, f)' <=> q = Head(cola_bloqueados[f])
    BY <1>1, <1>4, <2>1, <2>2, DuenioCierra
  <2>4. \A g \in Archivo : g # f => QuienTiene(g)' = QuienTiene(g)
    BY <1>1, <2>3, MismoDuenio
  <2>5. QuienTiene(f) = p /\ Duenios[f] = p /\ p # NoProc
    BY <1>1, <2>3, ElDuenio DEF Duenios
  <2>6. Duenios' = [Duenios EXCEPT ![f] = QuienTiene(f)']
    BY <2>3, <2>4, DueniosCambian
  <2>7. Cerrojos!NadaEspera(Duenios[f])
    BY <2>3, <2>5, DefinicionesDeCerrojos
  <2>8. ASSUME cola_bloqueados[f] = <<>> PROVE Cerrojos!Entrega(f)
    <3>1. QuienTiene(f)' = NoProc /\ UNCHANGED cola_bloqueados
      BY <1>1, <2>3, <2>8, ElDuenioPrima
    <3>2. Duenios' = [Duenios EXCEPT ![f] = NoProc]
      BY <2>6, <3>1
    <3>. QED
      BY <2>5, <2>7, <2>8, <3>1, <3>2 DEF Cerrojos!Entrega, Duenios
  <2>9. ASSUME cola_bloqueados[f] # <<>> PROVE Cerrojos!Entrega(f)
    <3>1. /\ QuienTiene(f)' = Head(cola_bloqueados[f])
          /\ cola_bloqueados' = [cola_bloqueados EXCEPT ![f] = Tail(cola_bloqueados[f])]
      BY <1>1, <2>3, <2>9, ElDuenioPrima
    <3>2. Duenios' = [Duenios EXCEPT ![f] = Head(cola_bloqueados[f])]
      BY <2>6, <3>1
    <3>. QED
      BY <2>5, <2>7, <2>9, <3>1, <3>2 DEF Cerrojos!Entrega, Duenios
  <2>10. Cerrojos!Entrega(f)
    BY <2>8, <2>9
  <2>. QED
    BY <2>3, <2>10 DEF Cerrojos!Next
<1>5. CASE RecibirAbierto
  <2>1. PICK p : p = hilo_fs.pcb
    OBVIOUS
  <2>2. PICK f : f = ArchivoDe(p)
    OBVIOUS
  <2>3. /\ p \in Proc /\ f \in Archivo /\ ~Abierto(f) /\ Tiene(p, f) /\ ~EnFila(p)
        /\ \A q \in Proc, g \in Archivo : Tiene(q, g)' <=> Tiene(q, g)
        /\ \A g \in Archivo : Abierto(g)' <=> Abierto(g) \/ g = f
        /\ UNCHANGED cola_bloqueados
    BY <1>1, <1>5, <2>1, <2>2, DuenioAbre
  <2>4. \A g \in Archivo : g # f => QuienTiene(g)' = QuienTiene(g)
    BY <1>1, <2>3, MismoDuenio
  <2>5. Duenios[f] = NoProc /\ QuienTiene(f)' = p
    <3>1. Duenios[f] = NoProc
      BY <1>1, <2>3, ElDuenio DEF Duenios
    <3>2. Abierto(f)' /\ Tiene(p, f)'
      BY <2>3
    <3>. QED
      BY <1>1, <2>3, <3>1, <3>2, ElDuenioPrima
  <2>6. Duenios' = [Duenios EXCEPT ![f] = p]
    BY <2>3, <2>4, <2>5, DueniosCambian
  <2>7. Cerrojos!Toma(p, f)
    BY <2>3, <2>5, <2>6, DefinicionesDeCerrojos DEF Cerrojos!Toma, Duenios
  <2>. QED
    BY <2>3, <2>7 DEF Cerrojos!Next
<1>6. CASE ~EjecutarFOpenAbierto /\ ~EjecutarFClose /\ ~RecibirAbierto
  <2>1. /\ UNCHANGED <<archivos_abiertos, cola_bloqueados>>
        /\ \A q \in Proc, g \in Archivo : Abierto(g) => (Tiene(q, g)' <=> Tiene(q, g))
    <3>1. CASE (\E p \in Proc : Admite(p)) \/ Despacha \/ CpuDevuelve \/ AtenderRequest
      BY <1>1, <3>1, DuenioPlanificadores
    <3>2. CASE EjecutarFOpenCerrado
      BY <1>1, <3>2, DuenioPide
    <3>3. CASE EjecutarFSeek
      BY <1>1, <3>3, DuenioMueve
    <3>4. CASE ManejarRespuestaCpu /\ ~EjecutarFOpenCerrado /\ ~EjecutarFSeek
      BY <1>1, <1>6, <3>4, DuenioRespuestaCpu
    <3>5. CASE ProcesarFileSystem
      BY <1>1, <1>6, <3>5, DuenioFileSystem
    <3>. QED
      BY <3>1, <3>2, <3>3, <3>4, <3>5 DEF Next
  <2>2. \A f \in Archivo : QuienTiene(f)' = QuienTiene(f)
    BY <1>1, <2>1, MismoDuenio DEF Abierto
  <2>. QED
    BY <1>2, <2>1, <2>2
<1>. QED
  BY <1>3, <1>4, <1>5, <1>6

\* At the start every file is free.
LEMMA InitCerrojos == Init => Cerrojos!Init
<1> SUFFICES ASSUME Init PROVE Cerrojos!Init
  OBVIOUS
<1>1. ASSUME NEW f \in Archivo PROVE QuienTiene(f) = NoProc
  BY ColaVacia DEF Init, QuienTiene, Abierto
<1>2. cola_bloqueados = [f \in Archivo |-> <<>>]
  BY DEF Init
<1>. QED
  BY <1>1, <1>2, DefinicionesDeCerrojos

\* An open file has one owner and one entry.
LEMMA UnDuenio ==
  ASSUME EstructuraInv, danio = "ninguno", DuenioInv, NEW f \in Archivo
  PROVE  /\ Cardinality({p \in Proc : Abierto(f) /\ Tiene(p, f)}) = Uno(Abierto(f))
         /\ Veces(archivos_abiertos, f) <= 1
<1>1. DuenioDe(f) /\ TablaInv /\ archivos_abiertos \in Seq(Archivo)
  BY Vivo DEF DuenioInv, Llanos
<1>2. Veces(archivos_abiertos, f) <= 1
  BY <1>1, VecesEnCola DEF TablaInv, Uno
<1>3. CASE Abierto(f)
  <2>1. PICK p \in Proc : Tiene(p, f) /\ \A q \in Proc : Tiene(q, f) => q = p
    BY <1>1, <1>3 DEF DuenioDe
  <2>2. {q \in Proc : Abierto(f) /\ Tiene(q, f)} = {p}
    BY <1>3, <2>1
  <2>. QED
    BY <1>2, <1>3, <2>2, FS_Singleton DEF Uno
<1>4. CASE ~Abierto(f)
  <2>1. {q \in Proc : Abierto(f) /\ Tiene(q, f)} = {}
    BY <1>4
  <2>. QED
    BY <1>2, <1>4, <2>1, FS_EmptySet DEF Uno
<1>. QED
  BY <1>3, <1>4

\* The table, the queues of its entries and the two threads implement one lock per
\* file with its queue (i_cpu.c:360): each step opens a free file, waits for one that
\* has an owner, hands a file over, or leaves the locks as they are.
THEOREM ImplementaLosCerrojos == Spec => CerrojosRespetados
<1>1. ArchivosInv /\ [Next]_vars => [Cerrojos!Next]_(Cerrojos!vars)
  <2> SUFFICES ASSUME ArchivosInv, [Next]_vars
               PROVE  Cerrojos!Next \/ UNCHANGED Cerrojos!vars
    OBVIOUS
  <2>1. CASE Next
    <3>1. EstructuraInv /\ danio = "ninguno" /\ DuenioInv
      BY <2>1, CaidoQuieto DEF ArchivosInv
    <3>. QED
      BY <2>1, <3>1, PasoCerrojos
  <2>2. CASE UNCHANGED vars
    <3>1. UNCHANGED cola_bloqueados /\ \A f \in Archivo : QuienTiene(f)' = QuienTiene(f)
      BY <2>2 DEF vars, procesos, colas, cola_fs, tabla, servidor, QuienTiene, Abierto, Tiene,
         Linea
    <3>. QED
      BY <3>1, DefinicionesDeCerrojos DEF Cerrojos!vars
  <2>. QED
    BY <2>1, <2>2
<1>2. ArchivosInv =>
        (danio = "ninguno" => \A f \in Archivo :
            /\ Cardinality({p \in Proc : Abierto(f) /\ Tiene(p, f)}) = Uno(Abierto(f))
            /\ Veces(archivos_abiertos, f) <= 1)
  BY UnDuenio DEF ArchivosInv
<1>. QED
  BY <1>1, <1>2, InitCerrojos, InvarianteDeArchivos, PTL
  DEF Spec, CerrojosRespetados, Cerrojos!SpecCerrojos

=============================================================================

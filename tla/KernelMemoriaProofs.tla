------------------------ MODULE KernelMemoriaProofs -------------------------
(***************************************************************************)
(* The Kernel and Memoria keep the three copies of a segment table alike,  *)
(* for every set of processes, every set of programs and any bound of      *)
(* compactions.  KInv is the inductive invariant: who may have a message   *)
(* on the socket, who has the mutex and the CPU, the state each queue and  *)
(* each local variable stands for, and what the answers on their way will  *)
(* leave in each pcb.  Its parts about the socket and about the tables are *)
(* operators of their values, so that a lemma about one step of a queue of *)
(* messages is stated once, without primes.                                *)
(***************************************************************************)
EXTENDS KernelMemoria, SequenceTheorems, TLAPS

-----------------------------------------------------------------------------
(* The inductive invariant *)

Tablas == UNION {[D -> Tabla] : D \in SUBSET Proc}
Respuesta == [hilo : Hilos, op : Respuestas, tablas : Tablas, tabla : Tabla]

\* The types, with that of the answers, and the pcbs the threads are busy with.
Tipos ==
    /\ TipoKernelMemoria
    /\ desde_memoria \in Seq(Respuesta)
    /\ tablas_segmentos \in Tablas
    /\ plp.pc # "espera" => plp.pcb \in Proc
    /\ hilo_cpu.pc # "espera" => hilo_cpu.pcb \in Proc

\* A process is at an instruction of its program while the thread handles it.
ProgramaEnCurso ==
    /\ \A p \in Proc : /\ program_counter[p] <= Len(programa[p])
                       /\ consola[p] = "inicio" => program_counter[p] = 0
    /\ hilo_cpu.pc # "espera" => program_counter[hilo_cpu.pcb] >= 1

\* What a thread can have asked, and be told, at each of its waits: l is the long-term
\* scheduler and c the thread of the CPU.
PedidoPropio(m, l, c) ==
    \/ /\ m.hilo = "plp" /\ m.op = "CREATE_TABLE"
       /\ l.pc = "recibe" /\ m.pid = l.pcb
    \/ /\ m.hilo = "cpu" /\ m.pid = c.pcb
       /\ \/ c.pc = "recibe" /\ m.op \in {"CREATE_SEGMENT", "DELETE_SEGMENT"}
          \/ c.pc = "recibe_compactacion" /\ m.op = "COMPACT"
          \/ c.pc = "recibe_reenvio" /\ m.op = "CREATE_SEGMENT"
          \/ c.pc = "recibe_eliminada" /\ m.op = "DELETE_TABLE"
RespuestaEsperada(a, l, c) ==
    \/ a.hilo = "plp" /\ a.op = "TABLE_CREATED" /\ l.pc = "recibe"
    \/ /\ a.hilo = "cpu"
       /\ \/ /\ c.pc = "recibe"
             /\ a.op \in {"SEGMENT_CREATED", "SEGMENT_DELETED", "NEEDS_TO_COMPACT",
                          "OUT_OF_MEMORY"}
          \/ c.pc = "recibe_compactacion" /\ a.op = "COMPACT"
          \/ c.pc = "recibe_reenvio" /\ a.op \in {"SEGMENT_CREATED", "NEEDS_TO_COMPACT"}
          \/ c.pc = "recibe_eliminada" /\ a.op \in {"TABLE_DELETED"}

UnoPorHilo(s) == \A i, j \in 1..Len(s) : s[i].hilo = s[j].hilo => i = j
SinMensajes(h, s) == \A i \in 1..Len(s) : s[i].hilo # h

\* Every message is of a thread that waits for it, and a thread has one at most.
Correo(s, t, l, c) ==
    /\ \A i \in 1..Len(s) : PedidoPropio(s[i], l, c)
    /\ \A i \in 1..Len(t) : RespuestaEsperada(t[i], l, c)
    /\ UnoPorHilo(s)
    /\ UnoPorHilo(t)
    /\ \A i \in 1..Len(s), j \in 1..Len(t) : s[i].hilo # t[j].hilo
Mensajes == Correo(hacia_memoria, desde_memoria, plp, hilo_cpu)

\* Until an unlock too many, mutex_socket_memoria is free or of one thread.
TieneSocket ==
    \/ hilo_cpu.pc \in {"recibe", "pide_compactar", "recibe_compactacion", "recibe_reenvio",
                        "recibe_eliminada"}
    \/ hilo_cpu.pc = "suelta" /\ ~hilo_cpu.oom
UnDuenoDelSocket ==
    ~desbloqueo_de_mas =>
        /\ mutex_socket_memoria \/ plp.pc = "recibe" \/ TieneSocket
        /\ mutex_socket_memoria => plp.pc # "recibe" /\ ~TieneSocket
        /\ plp.pc = "recibe" => ~TieneSocket

\* A read of a file and a compaction exclude each other, and the thread asks for a
\* compaction only while the bound allows one more, or never gets to ask.
CompactacionSinLecturas ==
    /\ lectura.pcb # NoProc => ~puede_compactar
    /\ hilo_cpu.pc \in {"recibe_compactacion", "recibe_reenvio"} =>
          ~puede_compactar /\ lectura.pcb = NoProc
CompactacionesAcotadas ==
    /\ \A i \in 1..Len(hacia_memoria) :
          hacia_memoria[i].op = "COMPACT" => compactaciones < MAX_COMPACTACIONES
    /\ \A i \in 1..Len(desde_memoria) :
          desde_memoria[i].op = "NEEDS_TO_COMPACT" =>
              compactaciones < MAX_COMPACTACIONES \/ hilo_cpu.pc = "recibe_reenvio"
    /\ hilo_cpu.pc = "pide_compactar" =>
          compactaciones < MAX_COMPACTACIONES \/ (~puede_compactar /\ lectura.pcb = NoProc)

\* The CPU is free, or of one process: with the CPU, or with the thread that handles it.
Terminado == hilo_cpu.pc \in {"suelta", "decide"} /\ hilo_cpu.oom
Ocupado == hilo_cpu.pc # "espera" /\ ~Terminado
TestigoDeCpu ==
    /\ cpu_liberada = IF en_cpu.pcb # NoProc \/ Ocupado THEN 0 ELSE 1
    /\ ~(en_cpu.pcb # NoProc /\ Ocupado)

SinRepetir(s) == \A i, j \in 1..Len(s) : s[i] = s[j] => i = j
Todos(f, s, e) == \A i \in 1..Len(s) : f[s[i]] = e
NoEsta(s, p) == \A i \in 1..Len(s) : s[i] # p

\* Each queue has the pcbs of one state, and each local variable a pcb of another.
EstadosDelHilo ==
    /\ Ocupado /\ hilo_cpu.pc # "libera" => estado_actual[hilo_cpu.pcb] = "EXEC"
    /\ hilo_cpu.oom /\ hilo_cpu.pc \in {"libera", "suelta", "decide"} =>
          estado_actual[hilo_cpu.pcb] = "EXIT" /\ motivo[hilo_cpu.pcb] = "OUT_OF_MEMORY"
    /\ hilo_cpu.oom => hilo_cpu.pc \in {"elimina", "recibe_eliminada", "libera", "suelta",
                                        "decide", "espera"}
    /\ en_cpu.pcb # NoProc => estado_actual[en_cpu.pcb] = "EXEC"
    /\ lectura.pcb # NoProc => estado_actual[lectura.pcb] = "BLOCK"
ColasPuras ==
    /\ SinRepetir(cola_new) /\ Todos(estado_actual, cola_new, "NEW")
    /\ SinRepetir(cola_ready) /\ Todos(estado_actual, cola_ready, "READY")
    /\ Todos(estado_actual, cola_exit, "EXIT")
    /\ plp.pc # "espera" => cola_new # <<>> /\ plp.pcb = Head(cola_new)
ConsolasEnOrden ==
    \A p \in Proc :
        /\ consola[p] = "inicio" => estado_actual[p] = "NEW" /\ NoEsta(cola_new, p)
        /\ consola[p] \in {"destruye", "fin"} => estado_actual[p] = "EXIT"
        /\ p \in destruidos => consola[p] = "fin"
        /\ consola[p] \notin {"inicio", "registra"} /\ p \notin procesos_en_kernel =>
              estado_actual[p] = "EXIT"

\* Memoria has the tables of the processes admitted and not ended.
TablasDeAdmitidos ==
    /\ \A p \in DOMAIN tablas_segmentos :
          /\ estado_actual[p] # "EXIT"
          /\ estado_actual[p] = "NEW" => plp.pc = "recibe" /\ plp.pcb = p
    /\ \A p \in Proc : estado_actual[p] \in {"READY", "EXEC", "BLOCK"} =>
          \/ p \in DOMAIN tablas_segmentos
          \/ hilo_cpu.pc = "recibe_eliminada" /\ hilo_cpu.pcb = p
    /\ \A i \in 1..Len(desde_memoria) :
          /\ desde_memoria[i].op \in {"TABLE_DELETED"} =>
                hilo_cpu.pcb \notin DOMAIN tablas_segmentos
          /\ desde_memoria[i].hilo = "plp" => plp.pcb \in DOMAIN tablas_segmentos

\* The tables an answer brings, and to which pcb: lp is the one of the long-term
\* scheduler and cp that of the thread of the CPU.
Afecta(a, p, lp, cp) ==
    \/ a.hilo = "plp" /\ p = lp
    \/ a.hilo = "cpu" /\ a.op \in ConTabla /\ p = cp
    \/ a.op = "COMPACT" /\ p \in DOMAIN a.tablas
Valor(a, p) == IF a.op = "COMPACT" THEN a.tablas[p] ELSE a.tabla

\* Once the answers t are read, in order, a pcb whose table is x has the table v.
Llega(t, p, x, v, lp, cp) ==
    \/ /\ \A i \in 1..Len(t) : ~Afecta(t[i], p, lp, cp)
       /\ x = v
    \/ \E i \in 1..Len(t) :
          /\ Afecta(t[i], p, lp, cp)
          /\ Valor(t[i], p) = v
          /\ \A j \in 1..Len(t) : j > i => ~Afecta(t[j], p, lp, cp)

\* Once the answers on their way are read, each pcb has the table of Memoria.
TablasEnCamino ==
    \A p \in DOMAIN tablas_segmentos :
        Llega(desde_memoria, p, tabla_segmento[p], tablas_segmentos[p], plp.pcb, hilo_cpu.pcb)

\* The copies in use are those of Memoria.
CopiasVigentes ==
    /\ Vigente(en_cpu)
    /\ Vigente(lectura)
    /\ hilo_cpu.pc = "procesa" => Vigente([pcb |-> hilo_cpu.pcb, tabla |-> hilo_cpu.tabla])

KInv ==
    /\ Tipos
    /\ ProgramaEnCurso
    /\ Mensajes
    /\ UnDuenoDelSocket
    /\ CompactacionSinLecturas
    /\ CompactacionesAcotadas
    /\ TestigoDeCpu
    /\ EstadosDelHilo
    /\ ColasPuras
    /\ ConsolasEnOrden
    /\ TablasDeAdmitidos
    /\ caido = "no" => TablasEnCamino
    /\ CopiasVigentes
    /\ RespuestaPropia
    /\ SoloFaltanSinRegistrar

-----------------------------------------------------------------------------
(* Queues and messages *)

\* What the removal of the head leaves.
LEMMA TailFacts ==
    ASSUME NEW S, NEW s \in Seq(S), s # <<>>
    PROVE  /\ Len(s) \in Nat /\ Len(s) > 0
           /\ Head(s) \in S /\ Head(s) = s[1]
           /\ Tail(s) \in Seq(S)
           /\ Len(Tail(s)) = Len(s) - 1
           /\ \A i \in 1..Len(Tail(s)) : i + 1 \in 1..Len(s) /\ Tail(s)[i] = s[i + 1]
BY SMT

\* What the push of an element leaves.
LEMMA AppendFacts ==
    ASSUME NEW S, NEW s \in Seq(S), NEW e \in S
    PROVE  /\ Append(s, e) \in Seq(S)
           /\ Len(s) \in Nat
           /\ Len(Append(s, e)) = Len(s) + 1
           /\ \A i \in 1..Len(s) : Append(s, e)[i] = s[i]
           /\ Append(s, e)[Len(s) + 1] = e
BY SMT

\* The removal of the head of a queue that repeats nobody.
LEMMA ColaSinCabeza ==
    ASSUME NEW s \in Seq(Proc), s # <<>>, SinRepetir(s)
    PROVE  SinRepetir(Tail(s)) /\ NoEsta(Tail(s), Head(s))
<1>1. /\ Len(s) \in Nat /\ Len(s) > 0 /\ Head(s) = s[1] /\ Len(Tail(s)) = Len(s) - 1
      /\ \A i \in 1..Len(Tail(s)) : i + 1 \in 1..Len(s) /\ Tail(s)[i] = s[i + 1]
  BY TailFacts
<1>2. SinRepetir(Tail(s))
  BY <1>1 DEF SinRepetir
<1>3. NoEsta(Tail(s), Head(s))
  BY <1>1 DEF SinRepetir, NoEsta
<1>. QED
  BY <1>2, <1>3

\* A push of a pcb that was not in the queue repeats nobody.
LEMMA ColaConUltimo ==
    ASSUME NEW s \in Seq(Proc), NEW p \in Proc, SinRepetir(s), NoEsta(s, p)
    PROVE  SinRepetir(Append(s, p))
<1>1. /\ Len(s) \in Nat /\ Len(Append(s, p)) = Len(s) + 1
      /\ \A i \in 1..Len(s) : Append(s, p)[i] = s[i]
      /\ Append(s, p)[Len(s) + 1] = p
  BY AppendFacts
<1>2. \A i \in 1..Len(Append(s, p)) : i \in 1..Len(s) \/ i = Len(s) + 1
  BY <1>1
<1>. QED
  BY <1>1, <1>2 DEF SinRepetir, NoEsta

\* A queue of one state keeps it when a pcb of another one changes.
LEMMA OtroCambia ==
    ASSUME NEW S, NEW f \in [Proc -> S], NEW s \in Seq(Proc), NEW e,
           NEW p \in Proc, NEW x, Todos(f, s, e), f[p] # e
    PROVE  Todos([f EXCEPT ![p] = x], s, e) /\ NoEsta(s, p)
<1>1. \A i \in 1..Len(s) : s[i] \in Proc
  OBVIOUS
<1>2. NoEsta(s, p)
  BY DEF Todos, NoEsta
<1>. QED
  BY <1>1, <1>2 DEF Todos, NoEsta

\* The head of a queue of one state leaves it, and the state.
LEMMA SaleLaCabeza ==
    ASSUME NEW S, NEW f \in [Proc -> S], NEW s \in Seq(Proc), NEW e, NEW x,
           s # <<>>, SinRepetir(s), Todos(f, s, e)
    PROVE  /\ Todos([f EXCEPT ![Head(s)] = x], Tail(s), e)
           /\ f[Head(s)] = e
<1>1. /\ Len(s) \in Nat /\ Len(s) > 0 /\ Head(s) \in Proc /\ Head(s) = s[1]
      /\ \A i \in 1..Len(Tail(s)) : i + 1 \in 1..Len(s) /\ Tail(s)[i] = s[i + 1]
      /\ Tail(s) \in Seq(Proc)
  BY TailFacts
<1>2. NoEsta(Tail(s), Head(s))
  BY ColaSinCabeza
<1>3. \A i \in 1..Len(Tail(s)) : Tail(s)[i] \in Proc
  BY <1>1
<1>. QED
  BY <1>1, <1>2, <1>3 DEF Todos, NoEsta

\* A pcb enters a queue at its end, and its state.
LEMMA EntraAlFinal ==
    ASSUME NEW S, NEW f \in [Proc -> S], NEW s \in Seq(Proc), NEW e,
           NEW p \in Proc, Todos(f, s, e)
    PROVE  Todos([f EXCEPT ![p] = e], Append(s, p), e)
<1>1. /\ Len(s) \in Nat /\ Len(Append(s, p)) = Len(s) + 1
      /\ \A i \in 1..Len(s) : Append(s, p)[i] = s[i] /\ s[i] \in Proc
      /\ Append(s, p)[Len(s) + 1] = p
  BY AppendFacts
<1>2. \A i \in 1..Len(Append(s, p)) : i \in 1..Len(s) \/ i = Len(s) + 1
  BY <1>1
<1>. QED
  BY <1>1, <1>2 DEF Todos

\* A thread that does not wait for an answer has no message.
LEMMA CorreoVacio ==
    ASSUME NEW s, NEW t, NEW l, NEW c, Correo(s, t, l, c)
    PROVE  /\ l.pc # "recibe" => SinMensajes("plp", s) /\ SinMensajes("plp", t)
           /\ c.pc \notin {"recibe", "recibe_compactacion", "recibe_reenvio",
                           "recibe_eliminada"} =>
                 SinMensajes("cpu", s) /\ SinMensajes("cpu", t)
BY DEF Correo, PedidoPropio, RespuestaEsperada, SinMensajes

\* A thread without messages moves, and the other one stays.
LEMMA CorreoCalla ==
    ASSUME NEW s, NEW t, NEW l, NEW c, NEW l2, NEW c2, Correo(s, t, l, c),
           l2 = l \/ (l2.pc = l.pc /\ l2.pcb = l.pcb)
                  \/ (SinMensajes("plp", s) /\ SinMensajes("plp", t)),
           c2 = c \/ (SinMensajes("cpu", s) /\ SinMensajes("cpu", t))
    PROVE  Correo(s, t, l2, c2)
<1>1. \A i \in 1..Len(s) : PedidoPropio(s[i], l2, c2)
  BY DEF Correo, PedidoPropio, SinMensajes
<1>2. \A i \in 1..Len(t) : RespuestaEsperada(t[i], l2, c2)
  BY DEF Correo, RespuestaEsperada, SinMensajes
<1>. QED
  BY <1>1, <1>2 DEF Correo

\* A thread without messages sends one.
LEMMA CorreoPide ==
    ASSUME NEW s \in Seq(Pedido), NEW t, NEW l, NEW c, NEW l2, NEW c2,
           NEW m \in Pedido, Correo(s, t, l, c),
           SinMensajes(m.hilo, s), SinMensajes(m.hilo, t), PedidoPropio(m, l2, c2),
           m.hilo # "plp" => l2 = l, m.hilo # "cpu" => c2 = c
    PROVE  Correo(Append(s, m), t, l2, c2)
<1> DEFINE u == Append(s, m)
<1>1. /\ Len(s) \in Nat /\ Len(u) = Len(s) + 1
      /\ \A i \in 1..Len(s) : u[i] = s[i]
      /\ u[Len(s) + 1] = m
  BY AppendFacts
<1>2. \A i \in 1..Len(u) : i \in 1..Len(s) \/ i = Len(s) + 1
  BY <1>1
<1>3. Correo(s, t, l2, c2)
  BY CorreoCalla DEF Pedido, Hilos
<1> HIDE DEF u
<1>4. \A i \in 1..Len(u) : PedidoPropio(u[i], l2, c2)
  BY <1>1, <1>2, <1>3 DEF Correo
<1>5. UnoPorHilo(u)
  BY <1>1, <1>2, <1>3 DEF Correo, UnoPorHilo, SinMensajes
<1>6. \A i \in 1..Len(u), j \in 1..Len(t) : u[i].hilo # t[j].hilo
  BY <1>1, <1>2, <1>3 DEF Correo, SinMensajes
<1>7. Correo(u, t, l2, c2)
  BY <1>3, <1>4, <1>5, <1>6 DEF Correo
<1>. QED
  BY <1>7 DEF u

\* A thread reads its answer: it has no message left, and moves.
LEMMA CorreoRecibe ==
    ASSUME NEW s, NEW t \in Seq(Respuesta), NEW l, NEW c, Correo(s, t, l, c), t # <<>>
    PROVE  /\ Head(t) \in Respuesta /\ Tail(t) \in Seq(Respuesta)
           /\ RespuestaEsperada(Head(t), l, c)
           /\ SinMensajes(Head(t).hilo, s) /\ SinMensajes(Head(t).hilo, Tail(t))
           /\ Correo(s, Tail(t), l, c)
<1>1. /\ Len(t) \in Nat /\ Len(t) > 0 /\ Head(t) = t[1] /\ Head(t) \in Respuesta
      /\ Tail(t) \in Seq(Respuesta) /\ Len(Tail(t)) = Len(t) - 1
      /\ \A i \in 1..Len(Tail(t)) : i + 1 \in 1..Len(t) /\ Tail(t)[i] = t[i + 1]
  BY TailFacts
<1>2. 1 \in 1..Len(t)
  BY <1>1
<1>3. SinMensajes(Head(t).hilo, s)
  BY <1>1, <1>2 DEF Correo, SinMensajes
<1>4. SinMensajes(Head(t).hilo, Tail(t))
  BY <1>1, <1>2 DEF Correo, SinMensajes, UnoPorHilo
<1>5. UnoPorHilo(Tail(t))
  BY <1>1 DEF Correo, UnoPorHilo
<1>6. Correo(s, Tail(t), l, c)
  BY <1>1, <1>5 DEF Correo
<1>. QED
  BY <1>1, <1>2, <1>3, <1>4, <1>6 DEF Correo

\* Memoria answers the first request.
LEMMA CorreoAtiende ==
    ASSUME NEW s \in Seq(Pedido), NEW t \in Seq(Respuesta), NEW l, NEW c,
           Correo(s, t, l, c), s # <<>>
    PROVE  /\ Head(s) \in Pedido /\ Tail(s) \in Seq(Pedido) /\ PedidoPropio(Head(s), l, c)
           /\ SinMensajes(Head(s).hilo, t) /\ SinMensajes(Head(s).hilo, Tail(s))
           /\ \A a \in Respuesta :
                 a.hilo = Head(s).hilo /\ RespuestaEsperada(a, l, c) =>
                     Correo(Tail(s), Append(t, a), l, c)
<1>1. /\ Len(s) \in Nat /\ Len(s) > 0 /\ Head(s) = s[1] /\ Head(s) \in Pedido
      /\ Tail(s) \in Seq(Pedido) /\ Len(Tail(s)) = Len(s) - 1
      /\ \A i \in 1..Len(Tail(s)) : i + 1 \in 1..Len(s) /\ Tail(s)[i] = s[i + 1]
  BY TailFacts
<1>2. 1 \in 1..Len(s)
  BY <1>1
<1>3. SinMensajes(Head(s).hilo, t)
  BY <1>1, <1>2 DEF Correo, SinMensajes
<1>4. SinMensajes(Head(s).hilo, Tail(s))
  BY <1>1, <1>2 DEF Correo, SinMensajes, UnoPorHilo
<1>5. ASSUME NEW a \in Respuesta, a.hilo = Head(s).hilo, RespuestaEsperada(a, l, c)
      PROVE  Correo(Tail(s), Append(t, a), l, c)
  <2> DEFINE u == Append(t, a)
             v == Tail(s)
  <2>1. /\ Len(t) \in Nat /\ Len(u) = Len(t) + 1
        /\ \A i \in 1..Len(t) : u[i] = t[i]
        /\ u[Len(t) + 1] = a
    BY AppendFacts
  <2>2. \A i \in 1..Len(u) : i \in 1..Len(t) \/ i = Len(t) + 1
    BY <2>1
  <2>3. \A i \in 1..Len(v) : i + 1 \in 1..Len(s) /\ v[i] = s[i + 1]
    BY <1>1
  <2>4. SinMensajes(a.hilo, t) /\ SinMensajes(a.hilo, v)
    BY <1>3, <1>4, <1>5
  <2>5. UnoPorHilo(v)
    BY <1>1 DEF Correo, UnoPorHilo
  <2> HIDE DEF u, v
  <2>6. \A i \in 1..Len(v) : PedidoPropio(v[i], l, c)
    BY <2>3 DEF Correo
  <2>7. \A i \in 1..Len(u) : RespuestaEsperada(u[i], l, c)
    BY <1>5, <2>1, <2>2 DEF Correo
  <2>8. UnoPorHilo(u)
    BY <2>1, <2>2, <2>4 DEF Correo, UnoPorHilo, SinMensajes
  <2>9. \A i \in 1..Len(v), j \in 1..Len(u) : v[i].hilo # u[j].hilo
    BY SMTT(60), <2>1, <2>2, <2>3, <2>4 DEF Correo, SinMensajes
  <2>10. Correo(v, u, l, c)
    BY <2>5, <2>6, <2>7, <2>8, <2>9 DEF Correo
  <2>. QED
    BY <2>10 DEF u, v
<1>. QED
  BY <1>1, <1>2, <1>3, <1>4, <1>5 DEF Correo

-----------------------------------------------------------------------------
(* The tables the answers bring *)

\* A thread without answers on their way moves.
LEMMA LlegaCalla ==
    ASSUME NEW t, NEW p, NEW x, NEW v, NEW lp, NEW cp, NEW lp2, NEW cp2,
           Llega(t, p, x, v, lp, cp),
           lp2 = lp \/ SinMensajes("plp", t), cp2 = cp \/ SinMensajes("cpu", t)
    PROVE  Llega(t, p, x, v, lp2, cp2)
<1>1. \A i \in 1..Len(t) : Afecta(t[i], p, lp2, cp2) <=> Afecta(t[i], p, lp, cp)
  BY DEF Afecta, SinMensajes
<1>. QED
  BY <1>1 DEF Llega

\* The first answer is read: a pcb it brings a table for has taken it.
LEMMA LlegaRecibe ==
    ASSUME NEW t \in Seq(Respuesta), t # <<>>, NEW p, NEW x, NEW v, NEW lp, NEW cp, NEW x2,
           Llega(t, p, x, v, lp, cp),
           Afecta(Head(t), p, lp, cp) => x2 = Valor(Head(t), p),
           ~Afecta(Head(t), p, lp, cp) => x2 = x
    PROVE  Llega(Tail(t), p, x2, v, lp, cp)
<1> DEFINE u == Tail(t)
<1>1. /\ Len(t) \in Nat /\ Len(t) > 0 /\ Head(t) = t[1] /\ Len(u) = Len(t) - 1
      /\ \A i \in 1..Len(u) : i + 1 \in 1..Len(t) /\ u[i] = t[i + 1]
  BY TailFacts
<1>2. \A i \in 1..Len(t) : i = 1 \/ (i - 1 \in 1..Len(u) /\ u[i - 1] = t[i])
  <2>1. \A i \in 1..Len(t) : i = 1 \/ (i - 1 \in 1..Len(u) /\ (i - 1) + 1 = i)
    BY <1>1
  <2>. QED
    BY <1>1, <2>1
<1> HIDE DEF u
<1>3. CASE \A i \in 1..Len(t) : ~Afecta(t[i], p, lp, cp)
  <2>1. \A i \in 1..Len(u) : ~Afecta(u[i], p, lp, cp)
    BY <1>1, <1>3
  <2>2. 1 \in 1..Len(t)
    BY <1>1
  <2>3. x2 = x /\ x = v
    BY <1>1, <1>3, <2>2 DEF Llega
  <2>. QED
    BY <2>1, <2>3 DEF Llega, u
<1>4. CASE \E i \in 1..Len(t) : Afecta(t[i], p, lp, cp)
  <2>1. PICK i \in 1..Len(t) :
          /\ Afecta(t[i], p, lp, cp)
          /\ Valor(t[i], p) = v
          /\ \A j \in 1..Len(t) : j > i => ~Afecta(t[j], p, lp, cp)
    BY <1>4 DEF Llega
  <2>2. CASE i = 1
    <3>1. \A j \in 1..Len(u) : ~Afecta(u[j], p, lp, cp)
      BY <1>1, <2>1, <2>2
    <3>2. x2 = v
      BY <1>1, <2>1, <2>2
    <3>. QED
      BY <3>1, <3>2 DEF Llega, u
  <2>3. CASE i # 1
    <3>1. i - 1 \in 1..Len(u) /\ u[i - 1] = t[i]
      BY <1>2, <2>3
    <3>2. \A j \in 1..Len(u) : j > i - 1 => ~Afecta(u[j], p, lp, cp)
      <4>1. \A j \in 1..Len(u) : j > i - 1 => j + 1 \in 1..Len(t) /\ j + 1 > i
        BY <1>1, <2>1
      <4>. QED
        BY <1>1, <2>1, <4>1
    <3>3. /\ Afecta(u[i - 1], p, lp, cp)
          /\ Valor(u[i - 1], p) = v
      BY <2>1, <3>1
    <3>. QED
      BY <3>1, <3>2, <3>3 DEF Llega, u
  <2>. QED
    BY <2>2, <2>3
<1>. QED
  BY <1>3, <1>4

\* An answer goes out: the last table sent to a pcb is the one that stays.
LEMMA LlegaAtiende ==
    ASSUME NEW t \in Seq(Respuesta), NEW a \in Respuesta, NEW p, NEW x, NEW v,
           NEW lp, NEW cp,
           \/ Afecta(a, p, lp, cp) /\ Valor(a, p) = v
           \/ ~Afecta(a, p, lp, cp) /\ Llega(t, p, x, v, lp, cp)
    PROVE  Llega(Append(t, a), p, x, v, lp, cp)
<1> DEFINE u == Append(t, a)
<1>1. /\ Len(t) \in Nat /\ Len(u) = Len(t) + 1
      /\ \A i \in 1..Len(t) : u[i] = t[i]
      /\ u[Len(t) + 1] = a
  BY AppendFacts
<1>2. \A i \in 1..Len(u) : i \in 1..Len(t) \/ i = Len(t) + 1
  BY <1>1
<1>3. \A i \in 1..Len(t) : i \in 1..Len(u)
  BY <1>1
<1> HIDE DEF u
<1>4. CASE Afecta(a, p, lp, cp) /\ Valor(a, p) = v
  <2>1. Len(t) + 1 \in 1..Len(u) /\ \A j \in 1..Len(u) : ~(j > Len(t) + 1)
    BY <1>1
  <2>2. Llega(u, p, x, v, lp, cp)
    BY <1>1, <1>4, <2>1 DEF Llega
  <2>. QED
    BY <2>2 DEF u
<1>5. CASE ~Afecta(a, p, lp, cp) /\ Llega(t, p, x, v, lp, cp)
  <2>1. Llega(u, p, x, v, lp, cp)
    <3>1. CASE \A i \in 1..Len(t) : ~Afecta(t[i], p, lp, cp)
      <4>1. x = v
        BY <1>5, <3>1 DEF Llega
      <4>2. \A i \in 1..Len(u) : ~Afecta(u[i], p, lp, cp)
        BY <1>1, <1>2, <1>5, <3>1
      <4>. QED
        BY <4>1, <4>2 DEF Llega
    <3>2. CASE \E i \in 1..Len(t) : Afecta(t[i], p, lp, cp)
      <4>1. PICK i \in 1..Len(t) :
              /\ Afecta(t[i], p, lp, cp)
              /\ Valor(t[i], p) = v
              /\ \A j \in 1..Len(t) : j > i => ~Afecta(t[j], p, lp, cp)
        BY <1>5, <3>2 DEF Llega
      <4>2. /\ i \in 1..Len(u) /\ Afecta(u[i], p, lp, cp) /\ Valor(u[i], p) = v
            /\ \A j \in 1..Len(u) : j > i => ~Afecta(u[j], p, lp, cp)
        BY <1>1, <1>2, <1>3, <1>5, <4>1
      <4>. QED
        BY <4>2 DEF Llega
    <3>. QED
      BY <3>1, <3>2
  <2>. QED
    BY <2>1 DEF u
<1>. QED
  BY <1>4, <1>5

-----------------------------------------------------------------------------
(* What a step of each kind does *)

\* The tables of a set of processes.
LEMMA TablasFacts ==
    /\ \A f \in Tablas : DOMAIN f \subseteq Proc /\ \A p \in DOMAIN f : f[p] \in Tabla
    /\ \A D \in SUBSET Proc : \A f \in [D -> Tabla] : f \in Tablas
BY DEF Tablas

\* The table of no segment.
LEMMA TablaVaciaFacts == TablaVacia \in Tabla
BY KernelMemoriaAssumption DEF TablaVacia, Tabla

\* A step of the thread of the CPU moves its program counter only.
LEMMA PasoDeHilo ==
    ASSUME Tipos, NEW d, NEW h, HiloCpu(d, h)
    PROVE  /\ caido = "no" /\ hilo_cpu.pc = d /\ hilo_cpu'.pc = h
           /\ hilo_cpu'.pcb = hilo_cpu.pcb /\ hilo_cpu'.tabla = hilo_cpu.tabla
           /\ hilo_cpu'.oom = hilo_cpu.oom
           /\ UNCHANGED <<programa, program_counter, destruidos, cola_new, sem_nuevo_proceso,
                          consola, plp, tablas_segmentos, compactaciones>>
BY DEF HiloCpu, Tipos, TipoKernelMemoria, memoria

\* A thread reads its answer: none is left for it, and the rest stays in order.
LEMMA PasoQueLee ==
    ASSUME KInv, NEW h, NEW ops, Leer(h, ops)
    PROVE  /\ desde_memoria # <<>> /\ desde_memoria \in Seq(Respuesta)
           /\ Leida \in Respuesta /\ Leida.hilo = h /\ Leida.op \in ops
           /\ RespuestaEsperada(Leida, plp, hilo_cpu)
           /\ desde_memoria' = Tail(desde_memoria) /\ desde_memoria' \in Seq(Respuesta)
           /\ SinMensajes(h, hacia_memoria) /\ SinMensajes(h, desde_memoria')
           /\ Correo(hacia_memoria, desde_memoria', plp, hilo_cpu)
<1>1. /\ desde_memoria \in Seq(Respuesta)
      /\ Correo(hacia_memoria, desde_memoria, plp, hilo_cpu)
  BY DEF KInv, Tipos, Mensajes
<1>2. /\ desde_memoria # <<>> /\ Leida.hilo = h /\ Leida.op \in ops
      /\ desde_memoria' = Tail(desde_memoria)
  BY DEF Leer, HayRespuesta
<1>3. Leida = Head(desde_memoria)
  BY DEF Leida
<1>. QED
  BY <1>1, <1>2, <1>3, CorreoRecibe

\* Memoria creates the table of the process the long-term scheduler admits.
EfectoCreaTabla(a) ==
    /\ plp.pc = "recibe" /\ Head(hacia_memoria).pid = plp.pcb
    /\ a.hilo = "plp" /\ a.op = "TABLE_CREATED"
    /\ DOMAIN tablas_segmentos' = DOMAIN tablas_segmentos \cup {plp.pcb}
    /\ \A q \in DOMAIN tablas_segmentos :
          q # plp.pcb => tablas_segmentos'[q] = tablas_segmentos[q]
    /\ a.tabla = tablas_segmentos'[plp.pcb]
    /\ compactaciones' = compactaciones

\* Memoria deletes the table of the process that ends.
EfectoEliminaTabla(a) ==
    /\ hilo_cpu.pc = "recibe_eliminada"
    /\ a.hilo = "cpu" /\ a.op \in {"TABLE_DELETED"}
    /\ DOMAIN tablas_segmentos' = DOMAIN tablas_segmentos \ {hilo_cpu.pcb}
    /\ \A q \in DOMAIN tablas_segmentos' : tablas_segmentos'[q] = tablas_segmentos[q]
    /\ compactaciones' = compactaciones

\* Memoria creates or deletes a segment of the process the CPU gave back.
EfectoCambiaTabla(a) ==
    /\ hilo_cpu.pc \in {"recibe", "recibe_reenvio"}
    /\ a.hilo = "cpu" /\ a.op \in {"SEGMENT_CREATED", "SEGMENT_DELETED"}
    /\ hilo_cpu.pcb \in DOMAIN tablas_segmentos
    /\ DOMAIN tablas_segmentos' = DOMAIN tablas_segmentos
    /\ \A q \in DOMAIN tablas_segmentos :
          q # hilo_cpu.pcb => tablas_segmentos'[q] = tablas_segmentos[q]
    /\ a.tabla = tablas_segmentos'[hilo_cpu.pcb]
    /\ compactaciones' = compactaciones

\* Memoria does not create the segment.
EfectoRechaza(a) ==
    /\ hilo_cpu.pc \in {"recibe", "recibe_reenvio"}
    /\ a.hilo = "cpu" /\ a.op \in {"NEEDS_TO_COMPACT", "OUT_OF_MEMORY"}
    /\ a.op = "NEEDS_TO_COMPACT" =>
          compactaciones < MAX_COMPACTACIONES \/ hilo_cpu.pc = "recibe_reenvio"
    /\ UNCHANGED <<tablas_segmentos, compactaciones>>

\* Memoria compacts, and sends every table.
EfectoCompacta(a) ==
    /\ hilo_cpu.pc = "recibe_compactacion" /\ Head(hacia_memoria).op = "COMPACT"
    /\ a.hilo = "cpu" /\ a.op = "COMPACT"
    /\ DOMAIN tablas_segmentos' = DOMAIN tablas_segmentos
    /\ a.tablas = tablas_segmentos'
    /\ compactaciones' = compactaciones + 1

EfectoDeMemoria(a) ==
    /\ caido = "no" /\ hacia_memoria # <<>>
    /\ hacia_memoria' = Tail(hacia_memoria)
    /\ desde_memoria' = Append(desde_memoria, a)
    /\ a.hilo = Head(hacia_memoria).hilo
    /\ RespuestaEsperada(a, plp, hilo_cpu)
    /\ tablas_segmentos' \in Tablas
    /\ compactaciones' \in 0..MAX_COMPACTACIONES
    /\ UNCHANGED <<pcbs, colas, cerrojos, hilos, caido>>
    /\ \/ EfectoCreaTabla(a) \/ EfectoEliminaTabla(a) \/ EfectoCambiaTabla(a)
       \/ EfectoRechaza(a) \/ EfectoCompacta(a)

\* What the requests of Memoria have in common.
LEMMA PasoQueAtiende ==
    ASSUME KInv, NEW op, Atiende(op)
    PROVE  /\ caido = "no" /\ hacia_memoria # <<>> /\ hacia_memoria' = Tail(hacia_memoria)
           /\ hacia_memoria \in Seq(Pedido) /\ hacia_memoria' \in Seq(Pedido)
           /\ Head(hacia_memoria) \in Pedido /\ Head(hacia_memoria).op = op
           /\ PedidoPropio(Head(hacia_memoria), plp, hilo_cpu)
           /\ UNCHANGED <<pcbs, colas, cerrojos, hilos, caido>>
           /\ tablas_segmentos \in Tablas /\ DOMAIN tablas_segmentos \subseteq Proc
           /\ tablas_segmentos \in [DOMAIN tablas_segmentos -> Tabla]
           /\ compactaciones \in 0..MAX_COMPACTACIONES
<1>1. /\ caido = "no" /\ hacia_memoria # <<>> /\ hacia_memoria' = Tail(hacia_memoria)
      /\ Head(hacia_memoria).op = op
      /\ UNCHANGED <<pcbs, colas, cerrojos, hilos, caido>>
  BY DEF Atiende
<1>2. /\ hacia_memoria \in Seq(Pedido) /\ desde_memoria \in Seq(Respuesta)
      /\ compactaciones \in 0..MAX_COMPACTACIONES /\ tablas_segmentos \in Tablas
      /\ Correo(hacia_memoria, desde_memoria, plp, hilo_cpu)
  BY DEF KInv, Tipos, TipoKernelMemoria, Mensajes
<1>3. /\ Head(hacia_memoria) \in Pedido /\ Tail(hacia_memoria) \in Seq(Pedido)
      /\ PedidoPropio(Head(hacia_memoria), plp, hilo_cpu)
  BY <1>1, <1>2, CorreoAtiende
<1>4. /\ DOMAIN tablas_segmentos \subseteq Proc
      /\ tablas_segmentos \in [DOMAIN tablas_segmentos -> Tabla]
  BY <1>2 DEF Tablas
<1>. QED
  BY <1>1, <1>2, <1>3, <1>4

\* The tables with that of a process changed.
LEMMA ConTablaDeFacts ==
    ASSUME tablas_segmentos \in [DOMAIN tablas_segmentos -> Tabla],
           DOMAIN tablas_segmentos \subseteq Proc,
           compactaciones \in 0..MAX_COMPACTACIONES,
           NEW p \in Proc, NEW g \in SUBSET (SegmentoId \cup {0})
    PROVE  /\ ConTablaDe(p, g) \in Tablas
           /\ DOMAIN ConTablaDe(p, g) = DOMAIN tablas_segmentos \cup {p}
           /\ \A q \in DOMAIN tablas_segmentos :
                 q # p => ConTablaDe(p, g)[q] = tablas_segmentos[q]
<1> DEFINE D == DOMAIN tablas_segmentos \cup {p}
           t == [segmentos |-> g, epoca |-> compactaciones]
           f == [q \in D |-> IF q = p THEN t ELSE tablas_segmentos[q]]
<1>1. t \in Tabla
  BY DEF Tabla
<1>2. ConTablaDe(p, g) = f
  BY DEF ConTablaDe
<1>3. D \in SUBSET Proc
  OBVIOUS
<1>4. f \in [D -> Tabla]
  BY <1>1
<1>5. f \in Tablas
  BY <1>3, <1>4, TablasFacts
<1>. QED
  BY <1>2, <1>5

\* The answer of Memoria is one record.
LEMMA RespondeFacts ==
    ASSUME NEW T \in Tablas, NEW op \in Respuestas, Head(hacia_memoria) \in Pedido,
           Responde(op, T)
    PROVE  \E a \in Respuesta :
              /\ desde_memoria' = Append(desde_memoria, a)
              /\ a.hilo = Head(hacia_memoria).hilo /\ a.op = op /\ a.tablas = T
              /\ Head(hacia_memoria).pid \in DOMAIN T =>
                    a.tabla = T[Head(hacia_memoria).pid]
<1> DEFINE r == Head(hacia_memoria)
           v == IF r.pid \in DOMAIN T THEN T[r.pid] ELSE TablaVacia
           a == [hilo |-> r.hilo, op |-> op, tablas |-> T, tabla |-> v]
<1>1. desde_memoria' = Append(desde_memoria, a)
  BY DEF Responde
<1>2. v \in Tabla
  BY TablasFacts, TablaVaciaFacts
<1>3. r.hilo \in Hilos
  BY DEF Pedido
<1>4. a \in Respuesta
  BY <1>2, <1>3 DEF Respuesta
<1>. QED
  BY <1>1, <1>4

\* The answers Memoria has.
LEMMA OperacionesFacts ==
    /\ "TABLE_CREATED" \in Respuestas /\ "SEGMENT_CREATED" \in Respuestas
    /\ "SEGMENT_DELETED" \in Respuestas /\ "TABLE_DELETED" \in Respuestas
    /\ "OUT_OF_MEMORY" \in Respuestas
    /\ "NEEDS_TO_COMPACT" \in Respuestas /\ "COMPACT" \in Respuestas
BY DEF Respuestas, ConTabla

\* Every step of Memoria is one of those.
LEMMA PasoDeMemoria ==
    ASSUME KInv, Memoria
    PROVE  \E a \in Respuesta : EfectoDeMemoria(a)
<1> DEFINE r == Head(hacia_memoria)
<1>1. CASE MemoryCreateTable
  <2>1. /\ Atiende("CREATE_TABLE") /\ tablas_segmentos' = ConTablaDe(r.pid, {})
        /\ Responde("TABLE_CREATED", tablas_segmentos')
        /\ compactaciones' = compactaciones
    BY <1>1 DEF MemoryCreateTable
  <2>2. /\ r.hilo = "plp" /\ r.pid = plp.pcb /\ plp.pc = "recibe" /\ r.pid \in Proc
        /\ r \in Pedido
    BY <2>1, PasoQueAtiende DEF PedidoPropio, Pedido
  <2>3. /\ tablas_segmentos' \in Tablas
        /\ DOMAIN tablas_segmentos' = DOMAIN tablas_segmentos \cup {r.pid}
        /\ \A q \in DOMAIN tablas_segmentos :
              q # r.pid => tablas_segmentos'[q] = tablas_segmentos[q]
    BY <2>1, <2>2, PasoQueAtiende, ConTablaDeFacts
  <2>4. PICK a \in Respuesta :
          /\ desde_memoria' = Append(desde_memoria, a)
          /\ a.hilo = r.hilo /\ a.op = "TABLE_CREATED"
          /\ a.tabla = tablas_segmentos'[r.pid]
    BY <2>1, <2>2, <2>3, RespondeFacts, OperacionesFacts
  <2>5. EfectoCreaTabla(a)
    BY <2>1, <2>2, <2>3, <2>4 DEF EfectoCreaTabla
  <2>6. RespuestaEsperada(a, plp, hilo_cpu)
    BY <2>2, <2>4 DEF RespuestaEsperada
  <2>. QED
    BY <2>1, <2>3, <2>4, <2>5, <2>6, PasoQueAtiende DEF EfectoDeMemoria
<1>2. CASE MemoryDeleteTable
  <2>1. /\ Atiende("DELETE_TABLE")
        /\ tablas_segmentos' = [q \in DOMAIN tablas_segmentos \ {r.pid} |->
                                   tablas_segmentos[q]]
        /\ \E op \in {"TABLE_DELETED"} : Responde(op, tablas_segmentos')
        /\ compactaciones' = compactaciones
    BY <1>2 DEF MemoryDeleteTable
  <2>2. /\ r.hilo = "cpu" /\ r.pid = hilo_cpu.pcb /\ hilo_cpu.pc = "recibe_eliminada"
        /\ r \in Pedido
    BY <2>1, PasoQueAtiende DEF PedidoPropio
  <2>3. /\ DOMAIN tablas_segmentos \subseteq Proc
        /\ tablas_segmentos \in [DOMAIN tablas_segmentos -> Tabla]
    BY <2>1, PasoQueAtiende
  <2>4. /\ DOMAIN tablas_segmentos' = DOMAIN tablas_segmentos \ {r.pid}
        /\ \A q \in DOMAIN tablas_segmentos' : tablas_segmentos'[q] = tablas_segmentos[q]
        /\ tablas_segmentos' \in [DOMAIN tablas_segmentos \ {r.pid} -> Tabla]
    BY <2>1, <2>3
  <2>5. tablas_segmentos' \in Tablas
    <3>1. (DOMAIN tablas_segmentos \ {r.pid}) \in SUBSET Proc
      BY <2>3
    <3>. QED
      BY <2>4, <3>1, TablasFacts
  <2>6. PICK op \in {"TABLE_DELETED"} : Responde(op, tablas_segmentos')
    BY <2>1
  <2>7. PICK a \in Respuesta :
          /\ desde_memoria' = Append(desde_memoria, a) /\ a.hilo = r.hilo /\ a.op = op
    BY <2>2, <2>5, <2>6, RespondeFacts, OperacionesFacts
  <2>8. EfectoEliminaTabla(a)
    BY <2>1, <2>2, <2>4, <2>7 DEF EfectoEliminaTabla
  <2>9. RespuestaEsperada(a, plp, hilo_cpu)
    BY <2>2, <2>7 DEF RespuestaEsperada
  <2>. QED
    BY <2>1, <2>5, <2>7, <2>8, <2>9, PasoQueAtiende DEF EfectoDeMemoria
<1>3. CASE MemoryCreateSegment
  <2>1. /\ Atiende("CREATE_SEGMENT") /\ r.pid \in DOMAIN tablas_segmentos
        /\ compactaciones' = compactaciones
    BY <1>3 DEF MemoryCreateSegment
  <2>2. /\ r.hilo = "cpu" /\ r.pid = hilo_cpu.pcb
        /\ hilo_cpu.pc \in {"recibe", "recibe_reenvio"}
        /\ r \in Pedido /\ r.pid \in Proc /\ r.id \in SegmentoId \cup {0}
    BY <2>1, PasoQueAtiende DEF PedidoPropio, Pedido
  <2>3. /\ tablas_segmentos \in Tablas /\ tablas_segmentos[r.pid] \in Tabla
    BY <2>1, PasoQueAtiende
  <2>4. CASE /\ tablas_segmentos' = ConTablaDe(r.pid,
                                        tablas_segmentos[r.pid].segmentos \cup {r.id})
             /\ Responde("SEGMENT_CREATED", tablas_segmentos')
    <3>1. tablas_segmentos[r.pid].segmentos \cup {r.id} \in SUBSET (SegmentoId \cup {0})
      BY <2>2, <2>3 DEF Tabla
    <3>2. /\ tablas_segmentos' \in Tablas
          /\ DOMAIN tablas_segmentos' = DOMAIN tablas_segmentos \cup {r.pid}
          /\ \A q \in DOMAIN tablas_segmentos :
                q # r.pid => tablas_segmentos'[q] = tablas_segmentos[q]
      BY <2>1, <2>2, <2>4, <3>1, PasoQueAtiende, ConTablaDeFacts
    <3>6. r.pid \in DOMAIN tablas_segmentos' /\ Responde("SEGMENT_CREATED", tablas_segmentos')
      BY <2>4, <3>2
    <3>3. PICK a \in Respuesta :
            /\ desde_memoria' = Append(desde_memoria, a)
            /\ a.hilo = r.hilo /\ a.op = "SEGMENT_CREATED"
            /\ a.tabla = tablas_segmentos'[r.pid]
      BY <2>2, <3>2, <3>6, RespondeFacts, OperacionesFacts
    <3>4. EfectoCambiaTabla(a)
      BY <2>1, <2>2, <3>2, <3>3 DEF EfectoCambiaTabla
    <3>5. RespuestaEsperada(a, plp, hilo_cpu)
      BY <2>2, <3>3 DEF RespuestaEsperada
    <3>. QED
      BY <2>1, <3>2, <3>3, <3>4, <3>5, PasoQueAtiende DEF EfectoDeMemoria
  <2>5. ASSUME NEW op \in {"NEEDS_TO_COMPACT", "OUT_OF_MEMORY"},
               Responde(op, tablas_segmentos), UNCHANGED tablas_segmentos,
               op = "NEEDS_TO_COMPACT" =>
                  compactaciones < MAX_COMPACTACIONES \/ hilo_cpu.pc = "recibe_reenvio",
               op = "OUT_OF_MEMORY" => hilo_cpu.pc # "recibe_reenvio"
        PROVE  \E a \in Respuesta : EfectoDeMemoria(a)
    <3>1. PICK a \in Respuesta :
            /\ desde_memoria' = Append(desde_memoria, a) /\ a.hilo = r.hilo /\ a.op = op
      BY <2>2, <2>3, <2>5, RespondeFacts, OperacionesFacts
    <3>2. EfectoRechaza(a)
      BY <2>1, <2>2, <2>5, <3>1 DEF EfectoRechaza
    <3>3. RespuestaEsperada(a, plp, hilo_cpu)
      BY <2>2, <2>5, <3>1 DEF RespuestaEsperada
    <3>. QED
      BY <2>1, <2>3, <2>5, <3>1, <3>2, <3>3, PasoQueAtiende DEF EfectoDeMemoria
  <2>. QED
    BY <1>3, <2>4, <2>5 DEF MemoryCreateSegment
<1>4. CASE MemoryDeleteSegment
  <2>1. /\ Atiende("DELETE_SEGMENT") /\ r.pid \in DOMAIN tablas_segmentos
        /\ compactaciones' = compactaciones
        /\ tablas_segmentos' = ConTablaDe(r.pid, tablas_segmentos[r.pid].segmentos \ {r.id})
        /\ Responde("SEGMENT_DELETED", tablas_segmentos')
    BY <1>4 DEF MemoryDeleteSegment
  <2>2. /\ r.hilo = "cpu" /\ r.pid = hilo_cpu.pcb /\ hilo_cpu.pc = "recibe"
        /\ r \in Pedido /\ r.pid \in Proc
    BY <2>1, PasoQueAtiende DEF PedidoPropio, Pedido
  <2>3. tablas_segmentos[r.pid].segmentos \ {r.id} \in SUBSET (SegmentoId \cup {0})
    <3>1. tablas_segmentos[r.pid] \in Tabla
      BY <2>1, PasoQueAtiende
    <3>. QED
      BY <3>1 DEF Tabla
  <2>4. /\ tablas_segmentos' \in Tablas
        /\ DOMAIN tablas_segmentos' = DOMAIN tablas_segmentos \cup {r.pid}
        /\ \A q \in DOMAIN tablas_segmentos :
              q # r.pid => tablas_segmentos'[q] = tablas_segmentos[q]
    BY <2>1, <2>2, <2>3, PasoQueAtiende, ConTablaDeFacts
  <2>8. r.pid \in DOMAIN tablas_segmentos' /\ Responde("SEGMENT_DELETED", tablas_segmentos')
    BY <2>1, <2>4
  <2>5. PICK a \in Respuesta :
          /\ desde_memoria' = Append(desde_memoria, a)
          /\ a.hilo = r.hilo /\ a.op = "SEGMENT_DELETED"
          /\ a.tabla = tablas_segmentos'[r.pid]
    BY <2>2, <2>4, <2>8, RespondeFacts, OperacionesFacts
  <2>6. EfectoCambiaTabla(a)
    BY <2>1, <2>2, <2>4, <2>5 DEF EfectoCambiaTabla
  <2>7. RespuestaEsperada(a, plp, hilo_cpu)
    BY <2>2, <2>5 DEF RespuestaEsperada
  <2>. QED
    BY <2>1, <2>4, <2>5, <2>6, <2>7, PasoQueAtiende DEF EfectoDeMemoria
<1>5. CASE MemoryCompact
  <2>1. /\ Atiende("COMPACT") /\ compactaciones' = compactaciones + 1
        /\ tablas_segmentos' = [p \in DOMAIN tablas_segmentos |->
                                  [tablas_segmentos[p] EXCEPT !.epoca = compactaciones + 1]]
        /\ Responde("COMPACT", tablas_segmentos')
    BY <1>5 DEF MemoryCompact
  <2>2. /\ r.hilo = "cpu" /\ hilo_cpu.pc = "recibe_compactacion" /\ r \in Pedido
        /\ DOMAIN tablas_segmentos \subseteq Proc
        /\ tablas_segmentos \in [DOMAIN tablas_segmentos -> Tabla]
    BY <2>1, PasoQueAtiende DEF PedidoPropio
  <2>3. compactaciones' \in 0..MAX_COMPACTACIONES
    <3>1. /\ hacia_memoria \in Seq(Pedido) /\ hacia_memoria # <<>>
          /\ r.op = "COMPACT" /\ compactaciones \in 0..MAX_COMPACTACIONES
      BY <2>1, PasoQueAtiende
    <3>2. r = hacia_memoria[1] /\ 1 \in 1..Len(hacia_memoria)
      BY <3>1, TailFacts
    <3>3. compactaciones < MAX_COMPACTACIONES
      BY <3>1, <3>2 DEF KInv, CompactacionesAcotadas
    <3>. QED
      BY <2>1, <3>1, <3>3, KernelMemoriaAssumption
  <2>4. /\ DOMAIN tablas_segmentos' = DOMAIN tablas_segmentos
        /\ tablas_segmentos' \in Tablas
    <3>1. \A p \in DOMAIN tablas_segmentos :
            [tablas_segmentos[p] EXCEPT !.epoca = compactaciones + 1] \in Tabla
      BY <2>1, <2>2, <2>3 DEF Tabla
    <3>2. tablas_segmentos' \in [DOMAIN tablas_segmentos -> Tabla]
      BY <2>1, <3>1
    <3>3. DOMAIN tablas_segmentos \in SUBSET Proc
      BY <2>2
    <3>. QED
      BY <2>1, <3>2, <3>3, TablasFacts
  <2>8. Responde("COMPACT", tablas_segmentos')
    BY <2>1
  <2>5. PICK a \in Respuesta :
          /\ desde_memoria' = Append(desde_memoria, a)
          /\ a.hilo = r.hilo /\ a.op = "COMPACT" /\ a.tablas = tablas_segmentos'
    BY <2>2, <2>4, <2>8, RespondeFacts, OperacionesFacts
  <2>6. EfectoCompacta(a)
    <3>1. r.op = "COMPACT"
      BY <2>1, PasoQueAtiende
    <3>. QED
      BY <2>1, <2>2, <2>4, <2>5, <3>1 DEF EfectoCompacta
  <2>7. RespuestaEsperada(a, plp, hilo_cpu)
    BY <2>2, <2>5 DEF RespuestaEsperada
  <2>. QED
    BY <2>1, <2>3, <2>4, <2>5, <2>6, <2>7, PasoQueAtiende DEF EfectoDeMemoria
<1>. QED
  BY <1>1, <1>2, <1>3, <1>4, <1>5 DEF Memoria

-----------------------------------------------------------------------------
(* Each part of the invariant is kept *)

\* A request goes out from a thread that did not wait for an answer.
LEMMA PasoQuePide ==
    ASSUME KInv, NEW op, NEW id, Enviar("cpu", op, hilo_cpu.pcb, id),
           op \in {"CREATE_SEGMENT", "DELETE_SEGMENT", "COMPACT", "DELETE_TABLE"},
           id \in SegmentoId \cup {0},
           hilo_cpu.pc \in {"procesa", "pide_compactar", "elimina"}
    PROVE  \E m \in Pedido :
              /\ m.hilo = "cpu" /\ m.op = op /\ m.pid = hilo_cpu.pcb
              /\ hacia_memoria \in Seq(Pedido) /\ hacia_memoria' = Append(hacia_memoria, m)
              /\ SinMensajes("cpu", hacia_memoria) /\ SinMensajes("cpu", desde_memoria)
<1> DEFINE m == [hilo |-> "cpu", op |-> op, pid |-> hilo_cpu.pcb, id |-> id]
<1>1. /\ hacia_memoria \in Seq(Pedido) /\ hilo_cpu.pcb \in Proc
      /\ Correo(hacia_memoria, desde_memoria, plp, hilo_cpu)
  BY DEF KInv, Tipos, TipoKernelMemoria, Mensajes
<1>2. hacia_memoria' = Append(hacia_memoria, m)
  BY DEF Enviar
<1>3. m \in Pedido
  BY <1>1 DEF Pedido, Hilos
<1>4. SinMensajes("cpu", hacia_memoria) /\ SinMensajes("cpu", desde_memoria)
  BY <1>1, CorreoVacio
<1>. QED
  BY <1>1, <1>2, <1>3, <1>4

\* The instruction the thread handles is one of its program.
LEMMA InstruccionEnCurso ==
    ASSUME KInv, hilo_cpu.pc # "espera"
    PROVE  InstruccionDe(hilo_cpu.pcb) \in Instruccion
<1>1. /\ programa \in [Proc -> Seq(Instruccion)] /\ program_counter \in [Proc -> Nat]
      /\ hilo_cpu.pcb \in Proc
      /\ program_counter[hilo_cpu.pcb] <= Len(programa[hilo_cpu.pcb])
      /\ program_counter[hilo_cpu.pcb] >= 1
  BY DEF KInv, Tipos, TipoKernelMemoria, ProgramaEnCurso
<1>2. /\ programa[hilo_cpu.pcb] \in Seq(Instruccion) /\ program_counter[hilo_cpu.pcb] \in Nat
  BY <1>1
<1>. QED
  BY <1>1, <1>2 DEF InstruccionDe

\* Every message is of a thread that waits for it, and a thread has one at most.
LEMMA MensajesPaso ==
    ASSUME KInv, [Next]_vars
    PROVE  Mensajes'
<1> SUFFICES Correo(hacia_memoria', desde_memoria', plp', hilo_cpu')
  BY DEF Mensajes
<1> DEFINE s == hacia_memoria
           t == desde_memoria
           l == plp
           c == hilo_cpu
<1>1. /\ s \in Seq(Pedido) /\ t \in Seq(Respuesta) /\ Correo(s, t, l, c) /\ Tipos
  BY DEF KInv, Tipos, TipoKernelMemoria, Mensajes
<1>2. CASE UNCHANGED <<s, t, l, c>>
  BY <1>1, <1>2
<1>3. CASE PlpEspera
  <2>1. l.pc = "espera" /\ UNCHANGED <<s, t, c>>
    BY <1>3 DEF PlpEspera, enlace
  <2>2. SinMensajes("plp", s) /\ SinMensajes("plp", t)
    BY <1>1, <2>1, CorreoVacio
  <2>3. Correo(s, t, l', c)
    BY <1>1, <2>2, CorreoCalla
  <2>. QED
    BY <2>1, <2>3
<1>4. CASE PlpPide
  <2> DEFINE m == [hilo |-> "plp", op |-> "CREATE_TABLE", pid |-> l.pcb, id |-> 0]
  <2>1. /\ l.pc = "pide" /\ l' = [l EXCEPT !.pc = "recibe"] /\ s' = Append(s, m)
        /\ UNCHANGED <<t, c>>
    BY <1>4 DEF PlpPide, Enviar
  <2>2. l.pcb \in Proc /\ l'.pc = "recibe" /\ l'.pcb = l.pcb
    BY <1>1, <2>1 DEF Tipos, TipoKernelMemoria
  <2>3. m \in Pedido /\ m.hilo = "plp"
    BY <2>2 DEF Pedido, Hilos
  <2>4. SinMensajes("plp", s) /\ SinMensajes("plp", t)
    BY <1>1, <2>1, CorreoVacio
  <2>5. PedidoPropio(m, l', c)
    BY <2>2 DEF PedidoPropio
  <2> HIDE DEF m
  <2>6. Correo(Append(s, m), t, l', c)
    BY <1>1, <2>3, <2>4, <2>5, CorreoPide
  <2>. QED
    BY <2>1, <2>6
<1>5. CASE PlpRecibe
  <2>1. /\ Leer("plp", {"TABLE_CREATED"}) /\ UNCHANGED <<s, c>>
    BY <1>5 DEF PlpRecibe
  <2>2. /\ SinMensajes("plp", s) /\ SinMensajes("plp", t') /\ Correo(s, t', l, c)
    BY <2>1, PasoQueLee
  <2>3. Correo(s, t', l', c)
    BY <2>2, CorreoCalla
  <2>. QED
    BY <2>1, <2>3
<1>6. CASE CpuDevuelve \/ ProcesarExit \/ HiloCpuLibera \/ HiloCpuSuelta \/ HiloCpuDecide
           \/ ProcesarFRead
  <2>1. /\ c.pc \in {"espera", "procesa", "libera", "suelta", "decide"}
        /\ UNCHANGED <<s, t, l>>
    BY <1>6 DEF CpuDevuelve, ProcesarExit, HiloCpuLibera, HiloCpuSuelta, HiloCpuDecide,
       ProcesarFRead, HiloCpu, enlace
  <2>2. SinMensajes("cpu", s) /\ SinMensajes("cpu", t)
    BY <1>1, <2>1, CorreoVacio
  <2>3. Correo(s, t, l, c')
    BY <1>1, <2>2, CorreoCalla
  <2>. QED
    BY <2>1, <2>3
<1>7. ASSUME NEW m \in Pedido, m.hilo = "cpu", SinMensajes("cpu", s), SinMensajes("cpu", t),
             s' = Append(s, m), UNCHANGED <<t, l>>, PedidoPropio(m, l, c')
      PROVE  Correo(s', t', l', c')
  <2>1. Correo(Append(s, m), t, l, c')
    BY <1>1, <1>7, CorreoPide
  <2>. QED
    BY <1>7, <2>1
<1>8. CASE PedirSegmento
  <2>1. /\ HiloCpu("procesa", "recibe") /\ UNCHANGED <<t, l>>
        /\ InstruccionDe(c.pcb).codigo \in {"CREATE_SEGMENT", "DELETE_SEGMENT"}
        /\ Enviar("cpu", InstruccionDe(c.pcb).codigo, c.pcb, InstruccionDe(c.pcb).id)
    BY <1>8 DEF PedirSegmento, HiloCpu
  <2>2. c.pc = "procesa" /\ c'.pc = "recibe" /\ c'.pcb = c.pcb
    BY <1>1, <2>1, PasoDeHilo
  <2>3. InstruccionDe(c.pcb).id \in SegmentoId \cup {0}
    BY <2>2, InstruccionEnCurso DEF Instruccion
  <2>4. PICK m \in Pedido :
          /\ m.hilo = "cpu" /\ m.op \in {"CREATE_SEGMENT", "DELETE_SEGMENT"} /\ m.pid = c.pcb
          /\ s' = Append(s, m) /\ SinMensajes("cpu", s) /\ SinMensajes("cpu", t)
    BY <2>1, <2>2, <2>3, PasoQuePide
  <2>5. PedidoPropio(m, l, c')
    BY <2>2, <2>4 DEF PedidoPropio
  <2>. QED
    BY <1>7, <2>1, <2>4, <2>5
<1>9. CASE PedirCompactacion
  <2>1. /\ HiloCpu("pide_compactar", "recibe_compactacion") /\ UNCHANGED <<t, l>>
        /\ Enviar("cpu", "COMPACT", c.pcb, 0)
    BY <1>9 DEF PedirCompactacion, HiloCpu
  <2>2. c.pc = "pide_compactar" /\ c'.pc = "recibe_compactacion" /\ c'.pcb = c.pcb
    BY <1>1, <2>1, PasoDeHilo
  <2>3. PICK m \in Pedido :
          /\ m.hilo = "cpu" /\ m.op = "COMPACT" /\ m.pid = c.pcb
          /\ s' = Append(s, m) /\ SinMensajes("cpu", s) /\ SinMensajes("cpu", t)
    BY <2>1, <2>2, PasoQuePide
  <2>4. PedidoPropio(m, l, c')
    BY <2>2, <2>3 DEF PedidoPropio
  <2>. QED
    BY <1>7, <2>1, <2>3, <2>4
<1>10. CASE PedirEliminarTabla
  <2>1. /\ HiloCpu("elimina", "recibe_eliminada") /\ UNCHANGED <<t, l>>
        /\ Enviar("cpu", "DELETE_TABLE", c.pcb, 0)
    BY <1>10 DEF PedirEliminarTabla, HiloCpu
  <2>2. c.pc = "elimina" /\ c'.pc = "recibe_eliminada" /\ c'.pcb = c.pcb
    BY <1>1, <2>1, PasoDeHilo
  <2>3. PICK m \in Pedido :
          /\ m.hilo = "cpu" /\ m.op = "DELETE_TABLE" /\ m.pid = c.pcb
          /\ s' = Append(s, m) /\ SinMensajes("cpu", s) /\ SinMensajes("cpu", t)
    BY <2>1, <2>2, PasoQuePide
  <2>4. PedidoPropio(m, l, c')
    BY <2>2, <2>3 DEF PedidoPropio
  <2>. QED
    BY <1>7, <2>1, <2>3, <2>4
<1>11. CASE RecibirTabla \/ RecibirFaltaCompactar \/ RecibirReenvio \/ RecibirOutOfMemory
            \/ RecibirTablaEliminada
  <2>1. /\ \E ops : Leer("cpu", ops)
        /\ UNCHANGED <<s, l>>
    BY <1>11 DEF RecibirTabla, RecibirFaltaCompactar, RecibirReenvio, RecibirOutOfMemory,
       RecibirTablaEliminada, HiloCpu
  <2>2. SinMensajes("cpu", s) /\ SinMensajes("cpu", t') /\ Correo(s, t', l, c)
    BY <2>1, PasoQueLee
  <2>3. Correo(s, t', l, c')
    BY <2>2, CorreoCalla
  <2>. QED
    BY <2>1, <2>3
<1>12. CASE RecibirCompactacion
  <2>1. /\ HiloCpu("recibe_compactacion", "recibe_reenvio") /\ Leer("cpu", {"COMPACT"})
        /\ UNCHANGED l
        /\ \/ Enviar("cpu", "CREATE_SEGMENT", c.pcb, InstruccionDe(c.pcb).id)
           \/ UNCHANGED s
    BY <1>12 DEF RecibirCompactacion, HiloCpu
  <2>2. c.pc = "recibe_compactacion" /\ c'.pc = "recibe_reenvio" /\ c'.pcb = c.pcb
    BY <1>1, <2>1, PasoDeHilo
  <2>3. SinMensajes("cpu", s) /\ SinMensajes("cpu", t') /\ Correo(s, t', l, c)
    BY <2>1, PasoQueLee
  <2>4. Correo(s, t', l, c')
    BY <2>3, CorreoCalla
  <2>5. CASE Enviar("cpu", "CREATE_SEGMENT", c.pcb, InstruccionDe(c.pcb).id)
    <3> DEFINE m == [hilo |-> "cpu", op |-> "CREATE_SEGMENT", pid |-> c.pcb,
                     id |-> InstruccionDe(c.pcb).id]
    <3>1. s' = Append(s, m)
      BY <2>5 DEF Enviar
    <3>2. InstruccionDe(c.pcb).id \in SegmentoId \cup {0} /\ c.pcb \in Proc
      BY <1>1, <2>2, InstruccionEnCurso DEF Instruccion, Tipos
    <3>3. m \in Pedido /\ m.hilo = "cpu"
      BY <3>2 DEF Pedido, Hilos
    <3>4. PedidoPropio(m, l, c')
      BY <2>2 DEF PedidoPropio
    <3> HIDE DEF m
    <3>5. Correo(Append(s, m), t', l, c')
      BY <1>1, <2>3, <3>3, <3>4, CorreoPide
    <3>. QED
      BY <2>1, <3>1, <3>5
  <2>. QED
    BY <2>1, <2>4, <2>5
<1>13. CASE Memoria
  <2>1. PICK a \in Respuesta : EfectoDeMemoria(a)
    BY <1>13, PasoDeMemoria
  <2>2. /\ s # <<>> /\ s' = Tail(s) /\ t' = Append(t, a) /\ a.hilo = Head(s).hilo
        /\ RespuestaEsperada(a, l, c) /\ UNCHANGED <<l, c>>
    BY <2>1 DEF EfectoDeMemoria, hilos
  <2>3. Correo(Tail(s), Append(t, a), l, c)
    BY <1>1, <2>2, CorreoAtiende
  <2>. QED
    BY <2>2, <2>3
<1>14. CASE \/ \E p \in Proc : \/ ConsolaCreaProceso(p) \/ ConsolaRegistra(p)
                               \/ ConsolaRetira(p) \/ ConsolaDestruye(p)
            \/ Despacha \/ RecibirAjena \/ RecibirLeido
            \/ UNCHANGED vars
  BY <1>2, <1>14 DEF ConsolaCreaProceso, ConsolaRegistra, ConsolaRetira, ConsolaDestruye,
     Despacha, RecibirAjena, RecibirLeido, enlace, hilos, vars
<1>. QED
  BY <1>3, <1>4, <1>5, <1>6, <1>8, <1>9, <1>10, <1>11, <1>12, <1>13, <1>14
  DEF Next, PlanificadorLargoPlazo, ManejarRespuestaCpu

\* What the thread of the CPU has at hand.
TipoHiloCpu ==
    [pc : {"espera", "procesa", "recibe", "pide_compactar", "recibe_compactacion",
           "recibe_reenvio", "suelta", "decide", "elimina", "recibe_eliminada", "libera"},
     pcb : ProcONull, tabla : Tabla, oom : BOOLEAN]

\* What the queue of answers has.
LEMMA RespuestasFacts ==
    ASSUME NEW t \in Seq(Respuesta)
    PROVE  \A i \in DOMAIN t : t[i] \in Respuesta /\ t[i].op \in Respuestas
<1>1. \A i \in DOMAIN t : t[i] \in Respuesta
  OBVIOUS
<1>2. \A a \in Respuesta : a.op \in Respuestas
  BY DEF Respuesta
<1>. QED
  BY <1>1, <1>2

\* The types, after a step.
LEMMA TiposPaso ==
    ASSUME KInv, [Next]_vars
    PROVE  Tipos'
<1>1. /\ Tipos /\ TipoKernelMemoria
      /\ cola_new \in Seq(Proc) /\ cola_ready \in Seq(Proc) /\ cola_exit \in Seq(Proc)
      /\ hacia_memoria \in Seq(Pedido) /\ desde_memoria \in Seq(Respuesta)
      /\ estado_actual \in [Proc -> {"NEW", "READY", "EXEC", "BLOCK", "EXIT"}]
      /\ tabla_segmento \in [Proc -> Tabla]
      /\ TablaVacia \in Tabla
  BY TablaVaciaFacts DEF KInv, Tipos, TipoKernelMemoria
<1>2. ASSUME NEW p \in Proc, ConsolaCreaProceso(p)
      PROVE  Tipos'
  <2>1. programa' \in [Proc -> Seq(Instruccion)]
    BY <1>1, <1>2, KernelMemoriaAssumption DEF ConsolaCreaProceso, TipoKernelMemoria
  <2>2. consola' \in [Proc -> {"inicio", "registra", "espera", "destruye", "fin"}]
    BY <1>1, <1>2 DEF ConsolaCreaProceso, TipoKernelMemoria
  <2>3. cola_new' \in Seq(Proc)
    BY <1>1, <1>2 DEF ConsolaCreaProceso
  <2>. QED
    BY <1>1, <1>2, <2>1, <2>2, <2>3 DEF ConsolaCreaProceso, Tipos, TipoKernelMemoria, enlace,
       memoria, cerrojos
<1>3. ASSUME NEW p \in Proc, ConsolaRegistra(p)
      PROVE  Tipos'
  BY <1>1, <1>3 DEF ConsolaRegistra, Tipos, TipoKernelMemoria, enlace, memoria, cerrojos
<1>4. ASSUME NEW p \in Proc, ConsolaRetira(p)
      PROVE  Tipos'
  <2>1. cola_exit' \in Seq(Proc)
    BY <1>1, <1>4, TailFacts DEF ConsolaRetira
  <2>. QED
    BY <1>1, <1>4, <2>1 DEF ConsolaRetira, Tipos, TipoKernelMemoria, enlace, memoria, cerrojos
<1>5. ASSUME NEW p \in Proc, ConsolaDestruye(p)
      PROVE  Tipos'
  BY <1>1, <1>5 DEF ConsolaDestruye, Tipos, TipoKernelMemoria, enlace, memoria, cerrojos, colas
<1>6. CASE PlpEspera
  <2>1. /\ cola_new # <<>> /\ sem_nuevo_proceso \in Nat /\ sem_nuevo_proceso > 0
        /\ sem_nuevo_proceso' = sem_nuevo_proceso - 1
    BY <1>1, <1>6 DEF PlpEspera, TipoKernelMemoria
  <2>2. Head(cola_new) \in Proc /\ sem_nuevo_proceso' \in Nat
    BY <1>1, <2>1, TailFacts
  <2>3. /\ plp' \in [pc : {"espera", "pide", "recibe"}, pcb : ProcONull]
        /\ plp'.pc # "espera" => plp'.pcb \in Proc
    BY <1>6, <2>2 DEF PlpEspera, ProcONull
  <2>. QED
    BY <1>1, <1>6, <2>2, <2>3 DEF PlpEspera, Tipos, TipoKernelMemoria, enlace, memoria,
       cerrojos, pcbs
<1>7. CASE PlpPide
  <2> DEFINE m == [hilo |-> "plp", op |-> "CREATE_TABLE", pid |-> plp.pcb, id |-> 0]
  <2>1. /\ plp.pcb \in Proc /\ plp'.pcb \in Proc
        /\ plp' \in [pc : {"espera", "pide", "recibe"}, pcb : ProcONull]
    BY <1>1, <1>7 DEF PlpPide, Tipos, TipoKernelMemoria
  <2>2. m \in Pedido
    BY <2>1 DEF Pedido, Hilos
  <2>3. hacia_memoria' \in Seq(Pedido)
    BY <1>1, <1>7, <2>2 DEF PlpPide, Enviar
  <2>4. mutex_socket_memoria' \in BOOLEAN
    BY <1>7 DEF PlpPide, TomarSocket
  <2>. QED
    BY <1>1, <1>7, <2>1, <2>3, <2>4 DEF PlpPide, Tipos, TipoKernelMemoria, memoria, pcbs, colas
<1>8. CASE PlpRecibe
  <2>1. /\ plp.pcb \in Proc /\ cola_new # <<>>
    BY <1>1, <1>8 DEF PlpRecibe, Tipos, KInv, ColasPuras
  <2>2. /\ Leida \in Respuesta /\ desde_memoria' \in Seq(Respuesta)
    BY <1>8, PasoQueLee DEF PlpRecibe
  <2>3. /\ tabla_segmento' \in [Proc -> Tabla]
        /\ estado_actual' \in [Proc -> {"NEW", "READY", "EXEC", "BLOCK", "EXIT"}]
    BY <1>1, <1>8, <2>2 DEF PlpRecibe, Respuesta
  <2>4. cola_new' \in Seq(Proc) /\ cola_ready' \in Seq(Proc)
    BY <1>1, <1>8, <2>1, TailFacts DEF PlpRecibe
  <2>5. /\ plp' \in [pc : {"espera", "pide", "recibe"}, pcb : ProcONull]
        /\ plp'.pc = "espera"
    BY <1>8 DEF PlpRecibe, ProcONull
  <2>6. \A i \in DOMAIN desde_memoria' : desde_memoria'[i].op \in Respuestas
    BY <2>2, RespuestasFacts
  <2>7. mutex_socket_memoria' \in BOOLEAN
    BY <1>8 DEF PlpRecibe, SoltarSocket
  <2>. QED
    BY <1>1, <1>8, <2>2, <2>3, <2>4, <2>5, <2>6, <2>7 DEF PlpRecibe, Tipos, TipoKernelMemoria,
       memoria
<1>9. CASE Despacha
  <2>1. /\ cola_ready # <<>> /\ cpu_liberada \in Nat /\ cpu_liberada > 0
        /\ cpu_liberada' = cpu_liberada - 1 /\ cola_ready' = Tail(cola_ready)
    BY <1>1, <1>9 DEF Despacha, TipoKernelMemoria
  <2>2. /\ Head(cola_ready) \in Proc /\ cpu_liberada' \in Nat /\ cola_ready' \in Seq(Proc)
    BY <1>1, <2>1, TailFacts
  <2>3. en_cpu' \in [pcb : ProcONull, tabla : Tabla]
    BY <1>1, <1>9, <2>2 DEF Despacha, Contexto, ProcONull
  <2>4. estado_actual' \in [Proc -> {"NEW", "READY", "EXEC", "BLOCK", "EXIT"}]
    BY <1>1, <1>9 DEF Despacha
  <2>. QED
    BY <1>1, <1>9, <2>2, <2>3, <2>4 DEF Despacha, Tipos, TipoKernelMemoria, enlace, memoria,
       cerrojos
<1>10. SinContexto \in [pcb : ProcONull, tabla : Tabla]
  BY <1>1 DEF SinContexto, ProcONull
<1>11. CASE CpuDevuelve
  <2>1. /\ en_cpu.pcb \in Proc /\ en_cpu.tabla \in Tabla
    BY <1>1, <1>11 DEF CpuDevuelve, TipoKernelMemoria, ProcONull
  <2>2. program_counter' \in [Proc -> Nat]
    BY <1>1, <1>11, <2>1 DEF CpuDevuelve, TipoKernelMemoria
  <2>3. /\ hilo_cpu'.pcb \in Proc
        /\ hilo_cpu' \in TipoHiloCpu
    BY <1>11, <2>1 DEF CpuDevuelve, ProcONull, TipoHiloCpu
  <2>4. en_cpu' \in [pcb : ProcONull, tabla : Tabla]
    BY <1>10, <1>11 DEF CpuDevuelve
  <2>. QED
    BY <1>1, <1>11, <2>2, <2>3, <2>4
    DEF CpuDevuelve, Tipos, TipoKernelMemoria, TipoHiloCpu, enlace, memoria,
       cerrojos, colas
<1>12. ASSUME NEW d, NEW h \in {"recibe", "pide_compactar", "recibe_compactacion",
                                "recibe_reenvio", "suelta", "decide", "elimina",
                                "recibe_eliminada", "libera", "espera"},
              HiloCpu(d, h), d # "espera"
       PROVE  /\ hilo_cpu.pcb \in Proc /\ hilo_cpu'.pcb \in Proc
              /\ hilo_cpu' \in TipoHiloCpu
              /\ UNCHANGED <<programa, program_counter, destruidos, cola_new,
                             sem_nuevo_proceso, consola, plp, tablas_segmentos,
                             compactaciones>>
  <2>1. hilo_cpu' = [hilo_cpu EXCEPT !.pc = h]
    BY <1>12 DEF HiloCpu
  <2>2. /\ hilo_cpu.pc = d /\ hilo_cpu'.pcb = hilo_cpu.pcb
        /\ UNCHANGED <<programa, program_counter, destruidos, cola_new, sem_nuevo_proceso,
                       consola, plp, tablas_segmentos, compactaciones>>
    BY <1>1, <1>12, PasoDeHilo
  <2>3. hilo_cpu.pcb \in Proc
    BY <1>1, <1>12, <2>2 DEF Tipos
  <2>4. hilo_cpu' \in TipoHiloCpu
    BY <1>1, <1>12, <2>1 DEF TipoKernelMemoria, TipoHiloCpu
  <2>. QED
    BY <2>2, <2>3, <2>4
<1>13. CASE PedirSegmento
  <2>1. /\ HiloCpu("procesa", "recibe")
        /\ InstruccionDe(hilo_cpu.pcb).codigo \in {"CREATE_SEGMENT", "DELETE_SEGMENT"}
        /\ Enviar("cpu", InstruccionDe(hilo_cpu.pcb).codigo, hilo_cpu.pcb,
                  InstruccionDe(hilo_cpu.pcb).id)
        /\ mutex_socket_memoria' \in BOOLEAN
    BY <1>13 DEF PedirSegmento, TomarSocket
  <2>2. hilo_cpu.pc = "procesa"
    BY <2>1 DEF HiloCpu
  <2>3. InstruccionDe(hilo_cpu.pcb).id \in SegmentoId \cup {0}
    BY <2>2, InstruccionEnCurso DEF Instruccion
  <2>4. hacia_memoria' \in Seq(Pedido)
    BY <2>1, <2>2, <2>3, PasoQuePide, AppendFacts
  <2>. QED
    BY <1>1, <1>12, <1>13, <2>1, <2>4 DEF PedirSegmento, Tipos, TipoKernelMemoria, TipoHiloCpu
<1>14. CASE PedirCompactacion
  <2>1. /\ HiloCpu("pide_compactar", "recibe_compactacion")
        /\ Enviar("cpu", "COMPACT", hilo_cpu.pcb, 0)
    BY <1>14 DEF PedirCompactacion
  <2>2. hilo_cpu.pc = "pide_compactar"
    BY <2>1 DEF HiloCpu
  <2>3. hacia_memoria' \in Seq(Pedido)
    BY <2>1, <2>2, PasoQuePide, AppendFacts
  <2>. QED
    BY <1>1, <1>12, <1>14, <2>1, <2>3
    DEF PedirCompactacion, Tipos, TipoKernelMemoria, TipoHiloCpu
<1>15. CASE PedirEliminarTabla
  <2>1. /\ HiloCpu("elimina", "recibe_eliminada")
        /\ Enviar("cpu", "DELETE_TABLE", hilo_cpu.pcb, 0)
        /\ mutex_socket_memoria' \in BOOLEAN
    BY <1>15 DEF PedirEliminarTabla, TomarSocket
  <2>2. hilo_cpu.pc = "elimina"
    BY <2>1 DEF HiloCpu
  <2>3. hacia_memoria' \in Seq(Pedido)
    BY <2>1, <2>2, PasoQuePide, AppendFacts
  <2>. QED
    BY <1>1, <1>12, <1>15, <2>1, <2>3
    DEF PedirEliminarTabla, Tipos, TipoKernelMemoria, TipoHiloCpu
<1>16. ASSUME NEW h, NEW ops, Leer(h, ops)
       PROVE  /\ Leida.tabla \in Tabla /\ desde_memoria' \in Seq(Respuesta)
              /\ \A i \in DOMAIN desde_memoria' : desde_memoria'[i].op \in Respuestas
              /\ Leida.tablas \in Tablas /\ DOMAIN Leida.tablas \subseteq Proc
              /\ \A p \in DOMAIN Leida.tablas : Leida.tablas[p] \in Tabla
  <2>1. Leida \in Respuesta /\ desde_memoria' \in Seq(Respuesta)
    BY <1>16, PasoQueLee
  <2>2. Leida.tabla \in Tabla /\ Leida.tablas \in Tablas
    BY <2>1 DEF Respuesta
  <2>3. \A i \in DOMAIN desde_memoria' : desde_memoria'[i].op \in Respuestas
    BY <2>1, RespuestasFacts
  <2>. QED
    BY <2>1, <2>2, <2>3, TablasFacts
<1>17. CASE RecibirTabla
  <2>1. HiloCpu("recibe", "suelta") /\ Leer("cpu", ConTabla)
    BY <1>17 DEF RecibirTabla
  <2>2. tabla_segmento' \in [Proc -> Tabla]
    BY <1>1, <1>16, <1>17, <2>1 DEF RecibirTabla
  <2>4. /\ hilo_cpu'.pcb \in Proc
        /\ hilo_cpu' \in TipoHiloCpu
        /\ UNCHANGED <<programa, program_counter, destruidos, cola_new, sem_nuevo_proceso,
                       consola, plp, tablas_segmentos, compactaciones>>
    BY <1>12, <2>1
  <2>5. /\ desde_memoria' \in Seq(Respuesta)
        /\ \A i \in DOMAIN desde_memoria' : desde_memoria'[i].op \in Respuestas
    BY <1>16, <2>1
  <2>. QED
    BY <1>1, <1>17, <2>1, <2>2, <2>4, <2>5
    DEF RecibirTabla, Tipos, TipoKernelMemoria, TipoHiloCpu, cerrojos
<1>18. CASE RecibirFaltaCompactar
  <2>1. /\ \E d \in {"recibe", "recibe_reenvio"} : HiloCpu(d, "pide_compactar")
        /\ Leer("cpu", {"NEEDS_TO_COMPACT"})
    BY <1>18 DEF RecibirFaltaCompactar
  <2>. QED
    BY <1>1, <1>12, <1>16, <1>18, <2>1
    DEF RecibirFaltaCompactar, Tipos, TipoKernelMemoria, TipoHiloCpu, cerrojos
<1>19. CASE RecibirCompactacion
  <2>1. /\ HiloCpu("recibe_compactacion", "recibe_reenvio") /\ Leer("cpu", {"COMPACT"})
        /\ caido' \in {"no", "pcb_sin_registrar"}
    BY <1>19 DEF RecibirCompactacion, HiloCpu
  <2>2. tabla_segmento' \in [Proc -> Tabla]
    BY <1>1, <1>16, <1>19, <2>1 DEF RecibirCompactacion, SincronizarTablasProcesos
  <2>3. hacia_memoria' \in Seq(Pedido)
    <3> DEFINE m == [hilo |-> "cpu", op |-> "CREATE_SEGMENT", pid |-> hilo_cpu.pcb,
                     id |-> InstruccionDe(hilo_cpu.pcb).id]
    <3>1. hilo_cpu.pc = "recibe_compactacion"
      BY <2>1 DEF HiloCpu
    <3>2. InstruccionDe(hilo_cpu.pcb).id \in SegmentoId \cup {0} /\ hilo_cpu.pcb \in Proc
      BY <1>1, <3>1, InstruccionEnCurso DEF Instruccion, Tipos
    <3>3. m \in Pedido
      BY <3>2 DEF Pedido, Hilos
    <3>4. hacia_memoria' = Append(hacia_memoria, m) \/ hacia_memoria' = hacia_memoria
      BY <1>19 DEF RecibirCompactacion, Enviar
    <3> HIDE DEF m
    <3>5. Append(hacia_memoria, m) \in Seq(Pedido)
      BY <1>1, <3>3, AppendFacts
    <3>. QED
      BY <1>1, <3>4, <3>5
  <2>. QED
    BY <1>1, <1>12, <1>16, <1>19, <2>1, <2>2, <2>3
    DEF RecibirCompactacion, Tipos, TipoKernelMemoria, TipoHiloCpu, cerrojos
<1>20. CASE RecibirReenvio
  <2>1. HiloCpu("recibe_reenvio", "suelta") /\ Leer("cpu", ConTabla)
    BY <1>20 DEF RecibirReenvio
  <2>2. tabla_segmento' \in [Proc -> Tabla]
    BY <1>1, <1>16, <1>20, <2>1 DEF RecibirReenvio
  <2>4. /\ hilo_cpu'.pcb \in Proc
        /\ hilo_cpu' \in TipoHiloCpu
        /\ UNCHANGED <<programa, program_counter, destruidos, cola_new, sem_nuevo_proceso,
                       consola, plp, tablas_segmentos, compactaciones>>
    BY <1>12, <2>1
  <2>5. /\ desde_memoria' \in Seq(Respuesta)
        /\ \A i \in DOMAIN desde_memoria' : desde_memoria'[i].op \in Respuestas
    BY <1>16, <2>1
  <2>. QED
    BY <1>1, <1>20, <2>1, <2>2, <2>4, <2>5
    DEF RecibirReenvio, Tipos, TipoKernelMemoria, TipoHiloCpu
<1>21. CASE RecibirOutOfMemory
  <2>1. /\ hilo_cpu.pc = "recibe"
        /\ hilo_cpu' = [hilo_cpu EXCEPT !.pc = "elimina", !.oom = TRUE]
        /\ mutex_socket_memoria' \in BOOLEAN /\ Leer("cpu", {"OUT_OF_MEMORY"})
    BY <1>21 DEF RecibirOutOfMemory, SoltarSocket
  <2>2. /\ hilo_cpu'.pcb \in Proc
        /\ hilo_cpu' \in TipoHiloCpu
    BY <1>1, <2>1 DEF Tipos, TipoKernelMemoria, TipoHiloCpu
  <2>. QED
    BY <1>1, <1>16, <1>21, <2>1, <2>2
    DEF RecibirOutOfMemory, Tipos, TipoKernelMemoria, TipoHiloCpu, pcbs, colas, memoria
<1>22. CASE ProcesarExit
  <2>1. HiloCpu("procesa", "elimina")
    BY <1>22 DEF ProcesarExit
  <2>. QED
    BY <1>1, <1>12, <1>22, <2>1
    DEF ProcesarExit, Tipos, TipoKernelMemoria, TipoHiloCpu, cerrojos, enlace
<1>23. CASE RecibirTablaEliminada
  <2>1. /\ HiloCpu("recibe_eliminada", "libera")
        /\ Leer("cpu", {"TABLE_DELETED"})
        /\ mutex_socket_memoria' \in BOOLEAN
    BY <1>23 DEF RecibirTablaEliminada, SoltarSocket
  <2>2. hilo_cpu.pcb \in Proc
    BY <1>12, <2>1
  <2>3. /\ estado_actual' \in [Proc -> {"NEW", "READY", "EXEC", "BLOCK", "EXIT"}]
        /\ motivo' \in [Proc -> {"NOT_DEFINED", "SUCCESS", "OUT_OF_MEMORY"}]
        /\ cola_exit' \in Seq(Proc)
    BY <1>1, <1>23, <2>2, AppendFacts DEF RecibirTablaEliminada, TipoKernelMemoria
  <2>4. /\ hilo_cpu'.pcb \in Proc
        /\ hilo_cpu' \in TipoHiloCpu
        /\ UNCHANGED <<programa, program_counter, destruidos, cola_new, sem_nuevo_proceso,
                       consola, plp, tablas_segmentos, compactaciones>>
    BY <1>12, <2>1
  <2>5. /\ desde_memoria' \in Seq(Respuesta)
        /\ \A i \in DOMAIN desde_memoria' : desde_memoria'[i].op \in Respuestas
    BY <1>16, <2>1
  <2>6. UNCHANGED <<tabla_segmento, procesos_en_kernel, cola_ready, cpu_liberada,
                    puede_compactar, desbloqueo_de_mas, en_cpu, lectura, hacia_memoria, caido>>
    BY <1>23 DEF RecibirTablaEliminada
  <2>. QED
    BY <1>1, <2>1, <2>3, <2>4, <2>5, <2>6 DEF Tipos, TipoKernelMemoria, TipoHiloCpu
<1>24. CASE HiloCpuLibera
  <2>1. \E h \in {"suelta", "espera"} : HiloCpu("libera", h)
    BY <1>24 DEF HiloCpuLibera
  <2>2. cpu_liberada' \in Nat
    BY <1>1, <1>24 DEF HiloCpuLibera, TipoKernelMemoria
  <2>. QED
    BY <1>1, <1>12, <1>24, <2>1, <2>2
    DEF HiloCpuLibera, Tipos, TipoKernelMemoria, TipoHiloCpu, cerrojos, enlace
<1>25. CASE HiloCpuSuelta
  <2>1. HiloCpu("suelta", "decide")
    BY <1>25 DEF HiloCpuSuelta
  <2>2. mutex_socket_memoria' \in BOOLEAN /\ desbloqueo_de_mas' \in BOOLEAN
    BY <1>1, <1>25 DEF HiloCpuSuelta, SoltarSocket, TipoKernelMemoria
  <2>. QED
    BY <1>1, <1>12, <1>25, <2>1, <2>2
    DEF HiloCpuSuelta, Tipos, TipoKernelMemoria, TipoHiloCpu, enlace
<1>26. CASE HiloCpuDecide
  <2>1. HiloCpu("decide", "espera")
    BY <1>26 DEF HiloCpuDecide
  <2>2. hilo_cpu.pcb \in Proc /\ caido = "no"
    BY <1>12, <2>1 DEF HiloCpu
  <2>3. /\ en_cpu' \in [pcb : ProcONull, tabla : Tabla]
        /\ caido' \in {"no", "pcb_liberado"}
    BY <1>1, <1>26, <2>2 DEF HiloCpuDecide, Contexto, ProcONull, TipoKernelMemoria
  <2>. QED
    BY <1>1, <1>12, <1>26, <2>1, <2>3
    DEF HiloCpuDecide, Tipos, TipoKernelMemoria, TipoHiloCpu, cerrojos, enlace
<1>27. CASE ProcesarFRead
  <2>1. HiloCpu("procesa", "libera")
    BY <1>27 DEF ProcesarFRead
  <2>2. hilo_cpu.pcb \in Proc
    BY <1>12, <2>1
  <2>3. /\ estado_actual' \in [Proc -> {"NEW", "READY", "EXEC", "BLOCK", "EXIT"}]
        /\ lectura' \in [pcb : ProcONull, tabla : Tabla]
    BY <1>1, <1>27, <2>2 DEF ProcesarFRead, TipoKernelMemoria, ProcONull
  <2>4. /\ hilo_cpu'.pcb \in Proc
        /\ hilo_cpu' \in TipoHiloCpu
        /\ UNCHANGED <<programa, program_counter, destruidos, cola_new, sem_nuevo_proceso,
                       consola, plp, tablas_segmentos, compactaciones>>
    BY <1>12, <2>1
  <2>. QED
    BY <1>1, <1>27, <2>3, <2>4 DEF ProcesarFRead, Tipos, TipoKernelMemoria, TipoHiloCpu, enlace
<1>28. CASE RecibirAjena
  BY <1>1, <1>28 DEF RecibirAjena, Tipos, TipoKernelMemoria, pcbs, colas, cerrojos, hilos,
     enlace, memoria
<1>29. CASE RecibirLeido
  <2>1. lectura.pcb \in Proc
    BY <1>1, <1>29 DEF RecibirLeido, TipoKernelMemoria, ProcONull
  <2>2. /\ estado_actual' \in [Proc -> {"NEW", "READY", "EXEC", "BLOCK", "EXIT"}]
        /\ cola_ready' \in Seq(Proc) /\ lectura' \in [pcb : ProcONull, tabla : Tabla]
    BY <1>1, <1>10, <1>29, <2>1 DEF RecibirLeido
  <2>. QED
    BY <1>1, <1>29, <2>2 DEF RecibirLeido, Tipos, TipoKernelMemoria, enlace, memoria
<1>30. CASE Memoria
  <2>1. PICK a \in Respuesta : EfectoDeMemoria(a)
    BY <1>30, PasoDeMemoria
  <2>2. /\ hacia_memoria # <<>> /\ hacia_memoria' = Tail(hacia_memoria)
        /\ desde_memoria' = Append(desde_memoria, a)
        /\ tablas_segmentos' \in Tablas /\ compactaciones' \in 0..MAX_COMPACTACIONES
        /\ UNCHANGED <<pcbs, colas, cerrojos, hilos, caido>>
    BY <2>1 DEF EfectoDeMemoria
  <2>3. hacia_memoria' \in Seq(Pedido) /\ desde_memoria' \in Seq(Respuesta)
    BY <1>1, <2>1, <2>2, TailFacts, AppendFacts
  <2>4. \A i \in DOMAIN desde_memoria' : desde_memoria'[i].op \in Respuestas
    BY <2>3, RespuestasFacts
  <2>5. /\ DOMAIN tablas_segmentos' \subseteq Proc
        /\ \A p \in DOMAIN tablas_segmentos' : tablas_segmentos'[p] \in Tabla
    BY <2>2, TablasFacts
  <2>. QED
    BY <1>1, <2>2, <2>3, <2>4, <2>5 DEF Tipos, TipoKernelMemoria, pcbs, colas, cerrojos, hilos
<1>31. CASE UNCHANGED vars
  BY <1>1, <1>31 DEF vars, Tipos, TipoKernelMemoria, pcbs, colas, cerrojos, hilos, enlace,
     memoria
<1>. QED
  BY <1>2, <1>3, <1>4, <1>5, <1>6, <1>7, <1>8, <1>9, <1>11, <1>13, <1>14, <1>15, <1>17, <1>18,
     <1>19, <1>20, <1>21, <1>22, <1>23, <1>24, <1>25, <1>26, <1>27, <1>28, <1>29, <1>30, <1>31
  DEF Next, PlanificadorLargoPlazo, ManejarRespuestaCpu

\* What the parts read of the threads.
LEMMA HilosFacts ==
    ASSUME KInv
    PROVE  /\ hilo_cpu \in TipoHiloCpu
           /\ plp \in [pc : {"espera", "pide", "recibe"}, pcb : ProcONull]
           /\ mutex_socket_memoria \in BOOLEAN /\ puede_compactar \in BOOLEAN
           /\ desbloqueo_de_mas \in BOOLEAN
           /\ en_cpu \in [pcb : ProcONull, tabla : Tabla]
           /\ lectura \in [pcb : ProcONull, tabla : Tabla]
           /\ estado_actual \in [Proc -> {"NEW", "READY", "EXEC", "BLOCK", "EXIT"}]
           /\ NoProc \notin Proc
BY KernelMemoriaAssumption DEF KInv, Tipos, TipoKernelMemoria, TipoHiloCpu

\* One thread at most has the mutex of the socket, until an unlock too many.
LEMMA SocketPaso ==
    ASSUME KInv, [Next]_vars
    PROVE  UnDuenoDelSocket'
<1>1. /\ hilo_cpu \in TipoHiloCpu /\ mutex_socket_memoria \in BOOLEAN
      /\ plp \in [pc : {"espera", "pide", "recibe"}, pcb : ProcONull]
      /\ UnDuenoDelSocket /\ Tipos
  BY HilosFacts DEF KInv
<1>2. CASE \/ \E p \in Proc : \/ ConsolaCreaProceso(p) \/ ConsolaRegistra(p)
                              \/ ConsolaRetira(p) \/ ConsolaDestruye(p)
           \/ Despacha \/ RecibirAjena \/ RecibirLeido \/ UNCHANGED vars
  <2>1. UNCHANGED <<mutex_socket_memoria, desbloqueo_de_mas, plp, hilo_cpu>>
    BY <1>2 DEF ConsolaCreaProceso, ConsolaRegistra, ConsolaRetira, ConsolaDestruye, Despacha,
       RecibirAjena, RecibirLeido, cerrojos, hilos, vars
  <2>. QED
    BY <1>1, <2>1 DEF UnDuenoDelSocket, TieneSocket
<1>3. CASE Memoria
  <2>1. UNCHANGED <<mutex_socket_memoria, desbloqueo_de_mas, plp, hilo_cpu>>
    BY <1>3, PasoDeMemoria DEF EfectoDeMemoria, cerrojos, hilos
  <2>. QED
    BY <1>1, <2>1 DEF UnDuenoDelSocket, TieneSocket
<1>4. CASE PlpEspera \/ PlpPide \/ PlpRecibe
  <2>1. UNCHANGED <<desbloqueo_de_mas, hilo_cpu>>
    BY <1>4 DEF PlpEspera, PlpPide, PlpRecibe, cerrojos
  <2>2. \/ /\ plp.pc = "espera" /\ plp'.pc = "pide" /\ UNCHANGED mutex_socket_memoria
        \/ /\ plp.pc = "pide" /\ plp'.pc = "recibe"
           /\ mutex_socket_memoria /\ mutex_socket_memoria' = FALSE
        \/ /\ plp.pc = "recibe" /\ plp'.pc = "espera" /\ mutex_socket_memoria' = TRUE
    BY <1>1, <1>4 DEF PlpEspera, PlpPide, PlpRecibe, cerrojos, TomarSocket, SoltarSocket
  <2>. QED
    BY <1>1, <2>1, <2>2 DEF UnDuenoDelSocket, TieneSocket
<1>5. CASE CpuDevuelve
  <2>1. /\ hilo_cpu.pc = "espera" /\ hilo_cpu'.pc = "procesa"
        /\ UNCHANGED <<mutex_socket_memoria, desbloqueo_de_mas, plp>>
    BY <1>5 DEF CpuDevuelve, cerrojos
  <2>. QED
    BY <1>1, <2>1 DEF UnDuenoDelSocket, TieneSocket
<1>6. CASE RecibirOutOfMemory
  <2>1. /\ hilo_cpu.pc = "recibe" /\ hilo_cpu'.pc = "elimina" /\ mutex_socket_memoria' = TRUE
        /\ UNCHANGED <<desbloqueo_de_mas, plp>>
    BY <1>1, <1>6 DEF RecibirOutOfMemory, SoltarSocket, TipoHiloCpu
  <2>. QED
    BY <1>1, <2>1 DEF UnDuenoDelSocket, TieneSocket
<1>7. CASE PedirSegmento \/ PedirEliminarTabla
  <2>1. /\ \/ HiloCpu("procesa", "recibe") \/ HiloCpu("elimina", "recibe_eliminada")
        /\ mutex_socket_memoria /\ mutex_socket_memoria' = FALSE
        /\ UNCHANGED <<desbloqueo_de_mas, plp>>
    BY <1>7 DEF PedirSegmento, PedirEliminarTabla, TomarSocket, HiloCpu
  <2>. QED
    BY <1>1, <2>1, PasoDeHilo DEF UnDuenoDelSocket, TieneSocket
<1>8. CASE RecibirTablaEliminada
  <2>1. /\ HiloCpu("recibe_eliminada", "libera") /\ mutex_socket_memoria' = TRUE
        /\ UNCHANGED <<desbloqueo_de_mas, plp>>
    BY <1>8 DEF RecibirTablaEliminada, SoltarSocket, HiloCpu
  <2>. QED
    BY <1>1, <2>1, PasoDeHilo DEF UnDuenoDelSocket, TieneSocket
<1>9. CASE HiloCpuSuelta
  <2>1. /\ HiloCpu("suelta", "decide") /\ mutex_socket_memoria' = TRUE /\ UNCHANGED plp
        /\ desbloqueo_de_mas' = (desbloqueo_de_mas \/ hilo_cpu.oom)
    BY <1>9 DEF HiloCpuSuelta, SoltarSocket, HiloCpu
  <2>2. hilo_cpu.pc = "suelta" /\ hilo_cpu'.pc = "decide"
    BY <1>1, <2>1, PasoDeHilo
  <2>3. CASE desbloqueo_de_mas \/ hilo_cpu.oom
    <3>1. desbloqueo_de_mas'
      BY <2>1, <2>3
    <3>. QED
      BY <3>1 DEF UnDuenoDelSocket
  <2>4. CASE ~(desbloqueo_de_mas \/ hilo_cpu.oom)
    <3>1. plp.pc # "recibe"
      BY <1>1, <2>2, <2>4 DEF UnDuenoDelSocket, TieneSocket
    <3>. QED
      BY <2>1, <2>2, <3>1 DEF UnDuenoDelSocket, TieneSocket
  <2>. QED
    BY <2>3, <2>4
<1>10. CASE RecibirTabla \/ RecibirFaltaCompactar \/ PedirCompactacion \/ RecibirCompactacion
            \/ RecibirReenvio \/ ProcesarExit \/ HiloCpuLibera \/ HiloCpuDecide \/ ProcesarFRead
  <2>1. UNCHANGED <<mutex_socket_memoria, desbloqueo_de_mas, plp>>
    BY <1>10 DEF RecibirTabla, RecibirFaltaCompactar, PedirCompactacion, RecibirCompactacion,
       RecibirReenvio, ProcesarExit, HiloCpuLibera, HiloCpuDecide, ProcesarFRead, HiloCpu,
       cerrojos
  <2>2. \E d, h : HiloCpu(d, h) /\
          \/ d = "recibe" /\ h = "suelta" /\ ~hilo_cpu.oom
          \/ d \in {"recibe", "recibe_reenvio"} /\ h = "pide_compactar"
          \/ d = "pide_compactar" /\ h = "recibe_compactacion"
          \/ d = "recibe_compactacion" /\ h = "recibe_reenvio"
          \/ d = "recibe_reenvio" /\ h = "suelta" /\ ~hilo_cpu.oom
          \/ d = "procesa" /\ h \in {"elimina", "libera"}
          \/ d = "libera" /\ h = "suelta" /\ hilo_cpu.oom
          \/ d = "libera" /\ h = "espera"
          \/ d = "decide" /\ h = "espera"
    <3>1. hilo_cpu.pc \in {"recibe", "recibe_reenvio"} => ~hilo_cpu.oom
      BY DEF KInv, EstadosDelHilo
    <3>2. CASE RecibirTabla \/ RecibirFaltaCompactar \/ PedirCompactacion
               \/ RecibirCompactacion \/ RecibirReenvio
      <4>1. \/ HiloCpu("recibe", "suelta") \/ HiloCpu("recibe", "pide_compactar")
            \/ HiloCpu("recibe_reenvio", "pide_compactar")
            \/ HiloCpu("pide_compactar", "recibe_compactacion")
            \/ HiloCpu("recibe_compactacion", "recibe_reenvio")
            \/ HiloCpu("recibe_reenvio", "suelta")
        BY <3>2 DEF RecibirTabla, RecibirFaltaCompactar, PedirCompactacion,
           RecibirCompactacion, RecibirReenvio
      <4>. QED
        BY <1>1, <3>1, <4>1, PasoDeHilo
    <3>3. CASE ProcesarExit \/ HiloCpuLibera \/ HiloCpuDecide \/ ProcesarFRead
      <4>1. \/ HiloCpu("procesa", "elimina") \/ HiloCpu("procesa", "libera")
            \/ HiloCpu("libera", "suelta") /\ hilo_cpu.oom
            \/ HiloCpu("libera", "espera") \/ HiloCpu("decide", "espera")
        BY <3>3 DEF ProcesarExit, HiloCpuLibera, HiloCpuDecide, ProcesarFRead
      <4>. QED
        BY <4>1
    <3>. QED
      BY <1>10, <3>2, <3>3
  <2>3. /\ hilo_cpu'.oom = hilo_cpu.oom
        /\ TieneSocket' <=> TieneSocket
    BY <1>1, <2>2, PasoDeHilo DEF TieneSocket
  <2>. QED
    BY <1>1, <2>1, <2>3 DEF UnDuenoDelSocket
<1>. QED
  BY <1>2, <1>3, <1>4, <1>5, <1>6, <1>7, <1>8, <1>9, <1>10
  DEF Next, PlanificadorLargoPlazo, ManejarRespuestaCpu

\* A thread that reads the answer of the other one does so after an unlock too many.
LEMMA RespuestaPropiaPaso ==
    ASSUME KInv, [Next]_vars
    PROVE  RespuestaPropia'
<1>1. CASE RecibirAjena
  <2>1. PICK h \in Hilos : EsperaRespuesta(h) /\ Leida.hilo # h
    BY <1>1 DEF RecibirAjena
  <2>2. /\ desde_memoria # <<>> /\ caido = "no" /\ UNCHANGED desbloqueo_de_mas
    BY <1>1 DEF RecibirAjena, HayRespuesta, cerrojos
  <2>3. RespuestaEsperada(Leida, plp, hilo_cpu)
    <3>1. /\ desde_memoria \in Seq(Respuesta)
          /\ Correo(hacia_memoria, desde_memoria, plp, hilo_cpu)
      BY DEF KInv, Tipos, Mensajes
    <3>2. RespuestaEsperada(Head(desde_memoria), plp, hilo_cpu)
      BY <2>2, <3>1, CorreoRecibe
    <3>. QED
      BY <3>2 DEF Leida
  <2>4. plp.pc = "recibe" /\ TieneSocket
    BY <2>1, <2>3 DEF Hilos, EsperaRespuesta, RespuestaEsperada, TieneSocket
  <2>. QED
    BY <2>2, <2>4 DEF KInv, UnDuenoDelSocket, RespuestaPropia
<1>2. CASE UNCHANGED vars
  BY <1>2 DEF KInv, RespuestaPropia, vars, cerrojos
<1>3. CASE \E p \in Proc : \/ ConsolaCreaProceso(p) \/ ConsolaRegistra(p)
                           \/ ConsolaRetira(p) \/ ConsolaDestruye(p)
  BY <1>3 DEF RespuestaPropia, ConsolaCreaProceso, ConsolaRegistra, ConsolaRetira,
     ConsolaDestruye
<1>4. CASE \/ PlanificadorLargoPlazo \/ Despacha \/ CpuDevuelve \/ RecibirLeido
  BY <1>4 DEF RespuestaPropia, PlanificadorLargoPlazo, PlpEspera, PlpPide, PlpRecibe, Leer,
     HayRespuesta, Despacha, CpuDevuelve, RecibirLeido
<1>5. CASE ManejarRespuestaCpu
  <2>1. caido' # "respuesta_ajena"
    <3>1. CASE PedirSegmento \/ RecibirTabla \/ RecibirFaltaCompactar \/ PedirCompactacion
               \/ RecibirCompactacion \/ RecibirReenvio \/ RecibirOutOfMemory
      BY <3>1 DEF PedirSegmento, RecibirTabla, RecibirFaltaCompactar, PedirCompactacion,
         RecibirCompactacion, RecibirReenvio, RecibirOutOfMemory, HiloCpu
    <3>2. CASE ProcesarExit \/ PedirEliminarTabla \/ RecibirTablaEliminada \/ HiloCpuLibera
               \/ HiloCpuSuelta \/ HiloCpuDecide \/ ProcesarFRead
      BY <3>2 DEF ProcesarExit, PedirEliminarTabla, RecibirTablaEliminada, HiloCpuLibera,
         HiloCpuSuelta, HiloCpuDecide, ProcesarFRead, HiloCpu
    <3>. QED
      BY <1>5, <3>1, <3>2 DEF ManejarRespuestaCpu
  <2>. QED
    BY <2>1 DEF RespuestaPropia
<1>6. CASE Memoria
  <2>1. caido' # "respuesta_ajena"
    BY <1>6, PasoDeMemoria DEF EfectoDeMemoria
  <2>. QED
    BY <2>1 DEF RespuestaPropia
<1>. QED
  BY <1>1, <1>2, <1>3, <1>4, <1>5, <1>6 DEF Next

\* The steps of the thread of the CPU after which it still has the process, and nobody
\* else gets the CPU.
SigueOcupado ==
    PedirSegmento \/ RecibirTabla \/ RecibirFaltaCompactar \/ PedirCompactacion
    \/ RecibirCompactacion \/ RecibirReenvio \/ RecibirOutOfMemory \/ ProcesarExit
    \/ PedirEliminarTabla \/ RecibirTablaEliminada \/ ProcesarFRead

\* What those steps do to the token of the CPU, and between which places.
LEMMA SigueOcupadoFacts ==
    ASSUME KInv, SigueOcupado
    PROVE  /\ Ocupado /\ Ocupado' /\ hilo_cpu.pcb \in Proc /\ hilo_cpu'.pcb = hilo_cpu.pcb
           /\ hilo_cpu.pc # "libera"
           /\ hilo_cpu.oom => hilo_cpu.pc \in {"elimina", "recibe_eliminada"}
           /\ hilo_cpu'.oom => hilo_cpu'.pc \in {"elimina", "recibe_eliminada", "libera"}
           /\ hilo_cpu'.pc \notin {"espera", "procesa", "decide"}
           /\ UNCHANGED <<cpu_liberada, en_cpu, plp, cola_new, cola_ready, consola, destruidos,
                          procesos_en_kernel, tablas_segmentos, compactaciones, programa,
                          program_counter>>
<1>1. hilo_cpu \in TipoHiloCpu /\ Tipos
  BY HilosFacts DEF KInv
<1>2. hilo_cpu.oom => hilo_cpu.pc \in {"elimina", "recibe_eliminada", "libera", "suelta",
                                       "decide", "espera"}
  BY DEF KInv, EstadosDelHilo
<1>3. CASE RecibirOutOfMemory
  <2>1. /\ hilo_cpu.pc = "recibe" /\ hilo_cpu'.pc = "elimina" /\ hilo_cpu'.pcb = hilo_cpu.pcb
        /\ UNCHANGED <<cpu_liberada, en_cpu, plp, cola_new, cola_ready, consola, destruidos,
                       procesos_en_kernel, tablas_segmentos, compactaciones, programa,
                       program_counter>>
    BY <1>1, <1>3 DEF RecibirOutOfMemory, TipoHiloCpu, pcbs, colas, memoria
  <2>. QED
    BY <1>1, <1>2, <2>1 DEF Ocupado, Terminado, Tipos
<1>4. CASE ~RecibirOutOfMemory
  <2>1. UNCHANGED <<cpu_liberada, en_cpu, plp, cola_new, cola_ready, consola, destruidos,
                    procesos_en_kernel, tablas_segmentos, compactaciones, programa,
                    program_counter>>
    BY <1>4 DEF SigueOcupado, PedirSegmento, RecibirTabla, RecibirFaltaCompactar,
       PedirCompactacion, RecibirCompactacion, RecibirReenvio, ProcesarExit,
       PedirEliminarTabla, RecibirTablaEliminada, ProcesarFRead, HiloCpu, memoria
  <2>2. \E d \in {"procesa", "recibe", "pide_compactar", "recibe_compactacion",
                  "recibe_reenvio", "elimina", "recibe_eliminada"},
           h \in {"recibe", "suelta", "pide_compactar", "recibe_compactacion",
                  "recibe_reenvio", "elimina", "recibe_eliminada", "libera"} :
            /\ HiloCpu(d, h)
            /\ h = "suelta" => d \in {"recibe", "recibe_reenvio"}
            /\ d \in {"elimina", "recibe_eliminada"} => h \in {"recibe_eliminada", "libera"}
    BY <1>4 DEF SigueOcupado, PedirSegmento, RecibirTabla, RecibirFaltaCompactar,
       PedirCompactacion, RecibirCompactacion, RecibirReenvio, ProcesarExit,
       PedirEliminarTabla, RecibirTablaEliminada, ProcesarFRead
  <2>3. /\ hilo_cpu.pc \in {"procesa", "recibe", "pide_compactar", "recibe_compactacion",
                            "recibe_reenvio", "elimina", "recibe_eliminada"}
        /\ hilo_cpu'.pc \in {"recibe", "suelta", "pide_compactar", "recibe_compactacion",
                             "recibe_reenvio", "elimina", "recibe_eliminada", "libera"}
        /\ hilo_cpu'.pc = "suelta" => hilo_cpu.pc \in {"recibe", "recibe_reenvio"}
        /\ hilo_cpu.pc \in {"elimina", "recibe_eliminada"} =>
              hilo_cpu'.pc \in {"recibe_eliminada", "libera"}
        /\ hilo_cpu'.pcb = hilo_cpu.pcb /\ hilo_cpu'.oom = hilo_cpu.oom
    BY <1>1, <2>2, PasoDeHilo
  <2>. QED
    BY <1>1, <1>2, <2>1, <2>3 DEF Ocupado, Terminado, Tipos
<1>. QED
  BY <1>3, <1>4

\* What the thread decides: the process goes back to the CPU only if it has not ended.
LEMMA DecideFacts ==
    ASSUME KInv, HiloCpuDecide
    PROVE  /\ hilo_cpu.pc = "decide" /\ hilo_cpu'.pc = "espera" /\ hilo_cpu.pcb \in Proc
           /\ Terminado => UNCHANGED en_cpu
           /\ ~Terminado => /\ en_cpu' = Contexto(hilo_cpu.pcb)
                            /\ estado_actual[hilo_cpu.pcb] = "EXEC"
           /\ UNCHANGED <<estado_actual, motivo, cpu_liberada, lectura, cola_new, cola_ready,
                          cola_exit, plp, consola, destruidos, procesos_en_kernel,
                          tablas_segmentos, compactaciones, tabla_segmento, puede_compactar,
                          hacia_memoria, desde_memoria>>
<1>1. /\ HiloCpu("decide", "espera") /\ Tipos
      /\ UNCHANGED <<estado_actual, motivo, cpu_liberada, lectura, cola_new, cola_ready,
                     cola_exit, plp, consola, destruidos, procesos_en_kernel,
                     tablas_segmentos, compactaciones, tabla_segmento, puede_compactar,
                     hacia_memoria, desde_memoria>>
  BY DEF KInv, HiloCpuDecide, HiloCpu, memoria, enlace, cerrojos
<1>2. hilo_cpu.pc = "decide" /\ hilo_cpu'.pc = "espera" /\ hilo_cpu.pcb \in Proc
  BY <1>1, PasoDeHilo DEF Tipos
<1>3. Terminado => UNCHANGED en_cpu
  <2>1. Terminado => estado_actual[hilo_cpu.pcb] = "EXIT"
    BY <1>2 DEF KInv, EstadosDelHilo, Terminado
  <2>. QED
    BY <2>1 DEF HiloCpuDecide
<1>4. ~Terminado => /\ en_cpu' = Contexto(hilo_cpu.pcb)
                    /\ estado_actual[hilo_cpu.pcb] = "EXEC"
  <2>1. ~Terminado => estado_actual[hilo_cpu.pcb] = "EXEC"
    BY <1>2 DEF KInv, EstadosDelHilo, Ocupado
  <2>2. hilo_cpu.pcb \in destruidos => estado_actual[hilo_cpu.pcb] = "EXIT"
    BY <1>2 DEF KInv, ConsolasEnOrden
  <2>. QED
    BY <2>1, <2>2 DEF HiloCpuDecide
<1>. QED
  BY <1>1, <1>2, <1>3, <1>4

\* The pcbs the threads are busy with.
LEMMA PcbsTomados ==
    ASSUME KInv
    PROVE  /\ plp.pc # "espera" =>
                 /\ plp.pcb \in Proc /\ cola_new # <<>> /\ plp.pcb = Head(cola_new)
                 /\ estado_actual[plp.pcb] = "NEW" /\ plp.pcb = cola_new[1]
                 /\ 1 \in 1..Len(cola_new)
           /\ cola_ready # <<>> =>
                 Head(cola_ready) \in Proc /\ estado_actual[Head(cola_ready)] = "READY"
           /\ en_cpu.pcb # NoProc => en_cpu.pcb \in Proc /\ estado_actual[en_cpu.pcb] = "EXEC"
           /\ lectura.pcb # NoProc =>
                 lectura.pcb \in Proc /\ estado_actual[lectura.pcb] = "BLOCK"
<1>1. /\ cola_new \in Seq(Proc) /\ cola_ready \in Seq(Proc)
      /\ en_cpu \in [pcb : ProcONull, tabla : Tabla]
      /\ lectura \in [pcb : ProcONull, tabla : Tabla]
  BY DEF KInv, Tipos, TipoKernelMemoria
<1>2. /\ cola_new # <<>> => /\ Head(cola_new) \in Proc /\ Head(cola_new) = cola_new[1]
                            /\ 1 \in 1..Len(cola_new)
      /\ cola_ready # <<>> => /\ Head(cola_ready) \in Proc /\ Head(cola_ready) = cola_ready[1]
                              /\ 1 \in 1..Len(cola_ready)
  BY <1>1, TailFacts
<1>3. /\ cola_new # <<>> => estado_actual[Head(cola_new)] = "NEW"
      /\ cola_ready # <<>> => estado_actual[Head(cola_ready)] = "READY"
  BY <1>2 DEF KInv, ColasPuras, Todos
<1>4. plp.pc # "espera" => cola_new # <<>> /\ plp.pcb = Head(cola_new)
  BY DEF KInv, ColasPuras
<1>. QED
  BY <1>1, <1>2, <1>3, <1>4 DEF KInv, EstadosDelHilo, ProcONull

\* The CPU is free, or of one process.
LEMMA TestigoPaso ==
    ASSUME KInv, [Next]_vars
    PROVE  TestigoDeCpu'
<1>1. TestigoDeCpu /\ NoProc \notin Proc /\ hilo_cpu \in TipoHiloCpu /\ Tipos
  BY HilosFacts DEF KInv
<1>2. CASE \/ \E p \in Proc : \/ ConsolaCreaProceso(p) \/ ConsolaRegistra(p)
                              \/ ConsolaRetira(p) \/ ConsolaDestruye(p)
           \/ PlpEspera \/ PlpPide \/ PlpRecibe \/ RecibirAjena \/ RecibirLeido
           \/ UNCHANGED vars
  <2>1. UNCHANGED <<cpu_liberada, en_cpu, hilo_cpu>>
    BY <1>2 DEF ConsolaCreaProceso, ConsolaRegistra, ConsolaRetira, ConsolaDestruye,
       PlpEspera, PlpPide, PlpRecibe, RecibirAjena, RecibirLeido, colas, hilos, vars
  <2>. QED
    BY <1>1, <2>1 DEF TestigoDeCpu, Ocupado, Terminado
<1>3. CASE Memoria
  <2>1. UNCHANGED <<cpu_liberada, en_cpu, hilo_cpu>>
    BY <1>3, PasoDeMemoria DEF EfectoDeMemoria, colas, hilos
  <2>. QED
    BY <1>1, <2>1 DEF TestigoDeCpu, Ocupado, Terminado
<1>4. CASE Despacha
  <2>1. /\ cpu_liberada > 0 /\ cpu_liberada' = cpu_liberada - 1 /\ cola_ready # <<>>
        /\ en_cpu'.pcb = Head(cola_ready) /\ UNCHANGED hilo_cpu
    BY <1>4 DEF Despacha, Contexto
  <2>2. Head(cola_ready) # NoProc
    BY <1>1, <2>1, PcbsTomados
  <2>. QED
    BY <1>1, <2>1, <2>2 DEF TestigoDeCpu, Ocupado, Terminado
<1>5. CASE CpuDevuelve
  <2>1. /\ en_cpu.pcb # NoProc /\ en_cpu'.pcb = NoProc /\ hilo_cpu'.pc = "procesa"
        /\ UNCHANGED cpu_liberada
    BY <1>5 DEF CpuDevuelve, SinContexto, colas
  <2>. QED
    BY <1>1, <2>1 DEF TestigoDeCpu, Ocupado, Terminado
<1>6. CASE SigueOcupado
  BY <1>1, <1>6, SigueOcupadoFacts DEF TestigoDeCpu
<1>7. CASE HiloCpuSuelta
  <2>1. /\ HiloCpu("suelta", "decide") /\ UNCHANGED <<cpu_liberada, en_cpu>>
    BY <1>7 DEF HiloCpuSuelta
  <2>. QED
    BY <1>1, <2>1, PasoDeHilo DEF TestigoDeCpu, Ocupado, Terminado
<1>8. CASE HiloCpuLibera
  <2>1. /\ HiloCpu("libera", IF hilo_cpu.oom THEN "suelta" ELSE "espera")
        /\ cpu_liberada' = cpu_liberada + 1 /\ UNCHANGED en_cpu
    BY <1>8 DEF HiloCpuLibera
  <2>2. /\ hilo_cpu.pc = "libera" /\ hilo_cpu'.oom = hilo_cpu.oom
        /\ hilo_cpu'.pc = IF hilo_cpu.oom THEN "suelta" ELSE "espera"
    BY <1>1, <2>1, PasoDeHilo
  <2>. QED
    BY <1>1, <2>1, <2>2 DEF TestigoDeCpu, Ocupado, Terminado
<1>9. CASE HiloCpuDecide
  <2>1. ~Terminado => en_cpu'.pcb # NoProc
    BY <1>1, <1>9, DecideFacts DEF Contexto
  <2>. QED
    BY <1>1, <1>9, <2>1, DecideFacts DEF TestigoDeCpu, Ocupado, Terminado
<1>. QED
  BY <1>2, <1>3, <1>4, <1>5, <1>6, <1>7, <1>8, <1>9
  DEF Next, PlanificadorLargoPlazo, ManejarRespuestaCpu, SigueOcupado

\* The steps that change the state of a process, and from which to which.
Pasa(p, e, x) ==
    /\ p \in Proc /\ estado_actual[p] = e
    /\ estado_actual' = [estado_actual EXCEPT ![p] = x]

\* From which state to which each of them takes a process.
LEMMA EstadoPaso ==
    ASSUME KInv, [Next]_vars
    PROVE  /\ PlpRecibe => Pasa(plp.pcb, "NEW", "READY")
           /\ Despacha => Pasa(Head(cola_ready), "READY", "EXEC")
           /\ RecibirTablaEliminada => Pasa(hilo_cpu.pcb, "EXEC", "EXIT")
           /\ ProcesarFRead => Pasa(hilo_cpu.pcb, "EXEC", "BLOCK")
           /\ RecibirLeido => Pasa(lectura.pcb, "BLOCK", "READY")
           /\ \/ PlpRecibe \/ Despacha \/ RecibirTablaEliminada \/ ProcesarFRead
              \/ RecibirLeido \/ UNCHANGED estado_actual
<1>1. PlpRecibe => Pasa(plp.pcb, "NEW", "READY")
  BY PcbsTomados DEF PlpRecibe, Pasa
<1>2. Despacha => Pasa(Head(cola_ready), "READY", "EXEC")
  BY PcbsTomados DEF Despacha, Pasa
<1>3. ASSUME RecibirTablaEliminada \/ ProcesarFRead
      PROVE  estado_actual[hilo_cpu.pcb] = "EXEC" /\ hilo_cpu.pcb \in Proc
  BY <1>3, SigueOcupadoFacts DEF KInv, EstadosDelHilo, SigueOcupado
<1>4. RecibirTablaEliminada => Pasa(hilo_cpu.pcb, "EXEC", "EXIT")
  BY <1>3 DEF RecibirTablaEliminada, Pasa
<1>5. ProcesarFRead => Pasa(hilo_cpu.pcb, "EXEC", "BLOCK")
  BY <1>3 DEF ProcesarFRead, Pasa
<1>6. RecibirLeido => Pasa(lectura.pcb, "BLOCK", "READY")
  BY PcbsTomados DEF RecibirLeido, Pasa
<1>7. ASSUME ~(\/ PlpRecibe \/ Despacha \/ RecibirTablaEliminada \/ ProcesarFRead
               \/ RecibirLeido)
      PROVE  UNCHANGED estado_actual
  <2>1. CASE \E p \in Proc : \/ ConsolaCreaProceso(p) \/ ConsolaRegistra(p)
                             \/ ConsolaRetira(p) \/ ConsolaDestruye(p)
    BY <2>1 DEF ConsolaCreaProceso, ConsolaRegistra, ConsolaRetira, ConsolaDestruye
  <2>2. CASE \/ PlpEspera \/ PlpPide \/ CpuDevuelve \/ RecibirAjena \/ RecibirOutOfMemory
             \/ UNCHANGED vars
    BY <2>2 DEF PlpEspera, PlpPide, CpuDevuelve, RecibirAjena, RecibirOutOfMemory, pcbs, vars
  <2>3. CASE \/ PedirSegmento \/ RecibirTabla \/ RecibirFaltaCompactar \/ PedirCompactacion
             \/ RecibirCompactacion \/ RecibirReenvio
    BY <2>3 DEF PedirSegmento, RecibirTabla, RecibirFaltaCompactar, PedirCompactacion,
       RecibirCompactacion, RecibirReenvio
  <2>4. CASE \/ ProcesarExit \/ PedirEliminarTabla \/ HiloCpuLibera \/ HiloCpuSuelta
             \/ HiloCpuDecide
    BY <2>4 DEF ProcesarExit, PedirEliminarTabla, HiloCpuLibera, HiloCpuSuelta, HiloCpuDecide
  <2>5. CASE Memoria
    BY <2>5, PasoDeMemoria DEF EfectoDeMemoria, pcbs
  <2>. QED
    BY <1>7, <2>1, <2>2, <2>3, <2>4, <2>5
    DEF Next, PlanificadorLargoPlazo, ManejarRespuestaCpu
<1>. QED
  BY <1>1, <1>2, <1>4, <1>5, <1>6, <1>7

\* Each local variable has a pcb of its state.
LEMMA EstadosPaso ==
    ASSUME KInv, [Next]_vars
    PROVE  EstadosDelHilo'
<1>1. /\ EstadosDelHilo /\ TestigoDeCpu /\ NoProc \notin Proc /\ Tipos
      /\ hilo_cpu \in TipoHiloCpu
      /\ estado_actual \in [Proc -> {"NEW", "READY", "EXEC", "BLOCK", "EXIT"}]
      /\ motivo \in [Proc -> {"NOT_DEFINED", "SUCCESS", "OUT_OF_MEMORY"}]
  BY HilosFacts DEF KInv, Tipos, TipoKernelMemoria
<1>2. CASE UNCHANGED <<hilo_cpu, estado_actual, motivo, en_cpu, lectura>>
  BY <1>1, <1>2 DEF EstadosDelHilo, Ocupado, Terminado
<1>3. CASE \/ \E p \in Proc : \/ ConsolaCreaProceso(p) \/ ConsolaRegistra(p)
                              \/ ConsolaRetira(p) \/ ConsolaDestruye(p)
           \/ PlpEspera \/ PlpPide \/ RecibirAjena \/ UNCHANGED vars
  BY <1>2, <1>3 DEF ConsolaCreaProceso, ConsolaRegistra, ConsolaRetira, ConsolaDestruye,
     PlpEspera, PlpPide, RecibirAjena, pcbs, hilos, vars
<1>4. CASE Memoria
  BY <1>2, <1>4, PasoDeMemoria DEF EfectoDeMemoria, pcbs, hilos
<1>5. CASE PlpRecibe
  <2>1. /\ Pasa(plp.pcb, "NEW", "READY") /\ UNCHANGED <<hilo_cpu, motivo, en_cpu, lectura>>
    BY <1>5, EstadoPaso DEF PlpRecibe
  <2>2. \A q \in Proc : estado_actual[q] # "NEW" => estado_actual'[q] = estado_actual[q]
    BY <1>1, <2>1 DEF Pasa
  <2>3. hilo_cpu.pc # "espera" => hilo_cpu.pcb \in Proc
    BY <1>1 DEF Tipos
  <2>. QED
    BY <1>1, <2>1, <2>2, <2>3, PcbsTomados DEF EstadosDelHilo, Ocupado, Terminado
<1>6. CASE Despacha
  <2>1. /\ Pasa(Head(cola_ready), "READY", "EXEC") /\ UNCHANGED <<hilo_cpu, motivo, lectura>>
        /\ en_cpu' = Contexto(Head(cola_ready))
    BY <1>6, EstadoPaso DEF Despacha
  <2>2. /\ \A q \in Proc : estado_actual[q] # "READY" => estado_actual'[q] = estado_actual[q]
        /\ estado_actual'[Head(cola_ready)] = "EXEC"
    BY <1>1, <2>1 DEF Pasa
  <2>3. hilo_cpu.pc # "espera" => hilo_cpu.pcb \in Proc
    BY <1>1 DEF Tipos
  <2>. QED
    BY <1>1, <2>1, <2>2, <2>3, PcbsTomados DEF EstadosDelHilo, Ocupado, Terminado, Contexto
<1>7. CASE CpuDevuelve
  <2>1. /\ hilo_cpu'.pc = "procesa" /\ hilo_cpu'.pcb = en_cpu.pcb /\ ~hilo_cpu'.oom
        /\ en_cpu.pcb # NoProc /\ en_cpu'.pcb = NoProc
        /\ UNCHANGED <<estado_actual, motivo, lectura>>
    BY <1>7 DEF CpuDevuelve, SinContexto
  <2>. QED
    BY <1>1, <2>1 DEF EstadosDelHilo
<1>8. CASE RecibirTablaEliminada
  <2>1. /\ Pasa(hilo_cpu.pcb, "EXEC", "EXIT") /\ UNCHANGED <<en_cpu, lectura>>
        /\ HiloCpu("recibe_eliminada", "libera")
        /\ motivo' = [motivo EXCEPT ![hilo_cpu.pcb] = IF hilo_cpu.oom THEN "OUT_OF_MEMORY"
                                                                      ELSE "SUCCESS"]
    BY <1>8, EstadoPaso DEF RecibirTablaEliminada
  <2>2. /\ hilo_cpu'.pc = "libera" /\ hilo_cpu'.pcb = hilo_cpu.pcb
        /\ hilo_cpu'.oom = hilo_cpu.oom
    BY <1>1, <2>1, PasoDeHilo
  <2>3. /\ estado_actual'[hilo_cpu.pcb] = "EXIT"
        /\ hilo_cpu.oom => motivo'[hilo_cpu.pcb] = "OUT_OF_MEMORY"
        /\ \A q \in Proc : estado_actual[q] # "EXEC" => estado_actual'[q] = estado_actual[q]
    BY <1>1, <2>1 DEF Pasa
  <2>4. en_cpu.pcb = NoProc
    BY <1>1, <1>8, SigueOcupadoFacts DEF SigueOcupado, TestigoDeCpu
  <2>. QED
    BY <1>1, <2>1, <2>2, <2>3, <2>4, PcbsTomados DEF EstadosDelHilo
<1>9. CASE ProcesarFRead
  <2>1. /\ Pasa(hilo_cpu.pcb, "EXEC", "BLOCK") /\ UNCHANGED <<en_cpu, motivo>>
        /\ HiloCpu("procesa", "libera") /\ lectura'.pcb = hilo_cpu.pcb
    BY <1>9, EstadoPaso DEF ProcesarFRead
  <2>2. /\ hilo_cpu.pc = "procesa" /\ hilo_cpu'.pc = "libera" /\ hilo_cpu'.pcb = hilo_cpu.pcb
        /\ hilo_cpu'.oom = hilo_cpu.oom
    BY <1>1, <2>1, PasoDeHilo
  <2>3. estado_actual'[hilo_cpu.pcb] = "BLOCK" /\ ~hilo_cpu.oom
    BY <1>1, <2>1, <2>2 DEF Pasa, EstadosDelHilo
  <2>4. en_cpu.pcb = NoProc
    BY <1>1, <1>9, SigueOcupadoFacts DEF SigueOcupado, TestigoDeCpu
  <2>. QED
    BY <1>1, <2>1, <2>2, <2>3, <2>4 DEF EstadosDelHilo
<1>10. CASE SigueOcupado /\ ~RecibirTablaEliminada /\ ~ProcesarFRead
  <2>1. UNCHANGED <<estado_actual, motivo, lectura>>
    BY <1>10 DEF SigueOcupado, PedirSegmento, RecibirTabla, RecibirFaltaCompactar,
       PedirCompactacion, RecibirCompactacion, RecibirReenvio, RecibirOutOfMemory,
       ProcesarExit, PedirEliminarTabla, pcbs
  <2>2. hilo_cpu'.pc # "libera"
    <3>1. CASE RecibirOutOfMemory
      BY <1>1, <3>1 DEF RecibirOutOfMemory, TipoHiloCpu
    <3>2. CASE ~RecibirOutOfMemory
      <4>1. \E d, h : HiloCpu(d, h) /\ h # "libera"
        BY <1>10, <3>2 DEF SigueOcupado, PedirSegmento, RecibirTabla, RecibirFaltaCompactar,
           PedirCompactacion, RecibirCompactacion, RecibirReenvio, ProcesarExit,
           PedirEliminarTabla
      <4>. QED
        BY <1>1, <4>1, PasoDeHilo
    <3>. QED
      BY <3>1, <3>2
  <2>3. estado_actual[hilo_cpu.pcb] = "EXEC"
    BY <1>1, <1>10, SigueOcupadoFacts DEF EstadosDelHilo
  <2>. QED
    BY <1>1, <1>10, <2>1, <2>2, <2>3, SigueOcupadoFacts DEF EstadosDelHilo
<1>11. CASE HiloCpuSuelta \/ HiloCpuLibera
  <2>1. /\ UNCHANGED <<estado_actual, motivo, en_cpu, lectura>>
        /\ \/ HiloCpu("suelta", "decide")
           \/ HiloCpu("libera", "suelta") /\ hilo_cpu.oom
           \/ HiloCpu("libera", "espera")
    BY <1>11 DEF HiloCpuSuelta, HiloCpuLibera
  <2>2. /\ hilo_cpu'.pcb = hilo_cpu.pcb /\ hilo_cpu'.oom = hilo_cpu.oom
        /\ \/ hilo_cpu.pc = "suelta" /\ hilo_cpu'.pc = "decide"
           \/ hilo_cpu.pc = "libera" /\ hilo_cpu'.pc = "suelta" /\ hilo_cpu.oom
           \/ hilo_cpu.pc = "libera" /\ hilo_cpu'.pc = "espera"
    BY <1>1, <2>1, PasoDeHilo
  <2>. QED
    BY <1>1, <2>1, <2>2 DEF EstadosDelHilo, Ocupado, Terminado
<1>12. CASE HiloCpuDecide
  <2>1. /\ hilo_cpu'.pc = "espera"
        /\ en_cpu'.pcb # NoProc => estado_actual[en_cpu'.pcb] = "EXEC"
        /\ UNCHANGED <<estado_actual, motivo, lectura>>
    BY <1>1, <1>12, DecideFacts DEF EstadosDelHilo, Contexto
  <2>. QED
    BY <1>1, <2>1 DEF EstadosDelHilo, Ocupado
<1>13. CASE RecibirLeido
  <2>1. /\ Pasa(lectura.pcb, "BLOCK", "READY") /\ UNCHANGED <<hilo_cpu, motivo, en_cpu>>
        /\ lectura'.pcb = NoProc
    BY <1>13, EstadoPaso DEF RecibirLeido, SinContexto
  <2>2. \A q \in Proc : estado_actual[q] # "BLOCK" => estado_actual'[q] = estado_actual[q]
    BY <1>1, <2>1 DEF Pasa
  <2>3. hilo_cpu.pc # "espera" => hilo_cpu.pcb \in Proc
    BY <1>1 DEF Tipos
  <2>. QED
    BY <1>1, <2>1, <2>2, <2>3, PcbsTomados DEF EstadosDelHilo, Ocupado, Terminado
<1>. QED
  BY <1>3, <1>4, <1>5, <1>6, <1>7, <1>8, <1>9, <1>10, <1>11, <1>12, <1>13
  DEF Next, PlanificadorLargoPlazo, ManejarRespuestaCpu, SigueOcupado

\* The head of a queue leaves it.
LEMMA TodosSinCabeza ==
    ASSUME NEW f, NEW s \in Seq(Proc), NEW e, s # <<>>, Todos(f, s, e)
    PROVE  Todos(f, Tail(s), e)
BY TailFacts DEF Todos

\* A pcb enters a queue whose state it has.
LEMMA TodosConUltimo ==
    ASSUME NEW f, NEW s \in Seq(Proc), NEW e, NEW p \in Proc, Todos(f, s, e), f[p] = e
    PROVE  Todos(f, Append(s, p), e)
<1>1. /\ Len(s) \in Nat /\ Len(Append(s, p)) = Len(s) + 1
      /\ \A i \in 1..Len(s) : Append(s, p)[i] = s[i]
      /\ Append(s, p)[Len(s) + 1] = p
  BY AppendFacts
<1>2. \A i \in 1..Len(Append(s, p)) : i \in 1..Len(s) \/ i = Len(s) + 1
  BY <1>1
<1>. QED
  BY <1>1, <1>2 DEF Todos

\* Each queue has the pcbs of one state.
LEMMA ColasPaso ==
    ASSUME KInv, [Next]_vars
    PROVE  ColasPuras'
<1>1. /\ ColasPuras /\ Tipos
      /\ cola_new \in Seq(Proc) /\ cola_ready \in Seq(Proc) /\ cola_exit \in Seq(Proc)
      /\ estado_actual \in [Proc -> {"NEW", "READY", "EXEC", "BLOCK", "EXIT"}]
      /\ plp \in [pc : {"espera", "pide", "recibe"}, pcb : ProcONull]
  BY HilosFacts DEF KInv, Tipos, TipoKernelMemoria
<1>2. CASE /\ UNCHANGED <<estado_actual, cola_new, cola_ready, cola_exit>>
           /\ plp' = plp \/ (plp'.pc # "espera" => plp.pc # "espera" /\ plp'.pcb = plp.pcb)
  BY <1>1, <1>2 DEF ColasPuras
<1>3. ASSUME NEW p \in Proc, ConsolaCreaProceso(p)
      PROVE  ColasPuras'
  <2>1. /\ estado_actual[p] = "NEW" /\ NoEsta(cola_new, p)
        /\ cola_new' = Append(cola_new, p)
        /\ UNCHANGED <<estado_actual, cola_ready, cola_exit, plp>>
    BY <1>3 DEF ConsolaCreaProceso, KInv, ConsolasEnOrden
  <2>2. SinRepetir(cola_new') /\ Todos(estado_actual, cola_new', "NEW")
    BY <1>1, <2>1, ColaConUltimo, TodosConUltimo DEF ColasPuras
  <2>3. cola_new # <<>> => cola_new' # <<>> /\ Head(cola_new') = Head(cola_new)
    BY <1>1, <2>1
  <2>. QED
    BY <1>1, <2>1, <2>2, <2>3 DEF ColasPuras
<1>4. ASSUME NEW p \in Proc, ConsolaRetira(p)
      PROVE  ColasPuras'
  <2>1. /\ cola_exit # <<>> /\ cola_exit' = Tail(cola_exit)
        /\ UNCHANGED <<estado_actual, cola_new, cola_ready, plp>>
    BY <1>4 DEF ConsolaRetira
  <2>2. Todos(estado_actual, cola_exit', "EXIT")
    BY <1>1, <2>1, TodosSinCabeza DEF ColasPuras
  <2>. QED
    BY <1>1, <2>1, <2>2 DEF ColasPuras
<1>5. ASSUME NEW p \in Proc, ConsolaRegistra(p) \/ ConsolaDestruye(p)
      PROVE  ColasPuras'
  BY <1>2, <1>5 DEF ConsolaRegistra, ConsolaDestruye, colas
<1>6. CASE PlpEspera
  <2>1. /\ cola_new # <<>> /\ plp'.pcb = Head(cola_new)
        /\ UNCHANGED <<estado_actual, cola_new, cola_ready, cola_exit>>
    BY <1>6 DEF PlpEspera, pcbs
  <2>. QED
    BY <1>1, <2>1 DEF ColasPuras
<1>7. CASE PlpPide
  <2>1. /\ UNCHANGED <<estado_actual, cola_new, cola_ready, cola_exit>>
        /\ plp.pc # "espera" /\ plp'.pcb = plp.pcb
    BY <1>1, <1>7 DEF PlpPide, pcbs, colas
  <2>. QED
    BY <1>2, <2>1
<1>8. CASE PlpRecibe
  <2>1. /\ Pasa(plp.pcb, "NEW", "READY") /\ plp.pcb = Head(cola_new) /\ cola_new # <<>>
        /\ cola_new' = Tail(cola_new) /\ cola_ready' = Append(cola_ready, plp.pcb)
        /\ plp'.pc = "espera" /\ UNCHANGED cola_exit
    BY <1>8, EstadoPaso, PcbsTomados DEF PlpRecibe
  <2>2. SinRepetir(cola_new') /\ Todos(estado_actual', cola_new', "NEW")
    BY <1>1, <2>1, ColaSinCabeza, SaleLaCabeza DEF ColasPuras, Pasa
  <2>3. NoEsta(cola_ready, plp.pcb)
    BY <1>1, <2>1, OtroCambia DEF ColasPuras, Pasa
  <2>4. SinRepetir(cola_ready') /\ Todos(estado_actual', cola_ready', "READY")
    BY <1>1, <2>1, <2>3, ColaConUltimo, EntraAlFinal DEF ColasPuras, Pasa
  <2>5. Todos(estado_actual', cola_exit, "EXIT")
    BY <1>1, <2>1, OtroCambia DEF ColasPuras, Pasa
  <2>. QED
    BY <2>1, <2>2, <2>4, <2>5 DEF ColasPuras
<1>9. CASE Despacha
  <2>1. /\ Pasa(Head(cola_ready), "READY", "EXEC") /\ cola_ready # <<>>
        /\ cola_ready' = Tail(cola_ready) /\ UNCHANGED <<cola_new, cola_exit, plp>>
    BY <1>9, EstadoPaso DEF Despacha
  <2>2. SinRepetir(cola_ready') /\ Todos(estado_actual', cola_ready', "READY")
    BY <1>1, <2>1, ColaSinCabeza, SaleLaCabeza DEF ColasPuras, Pasa
  <2>3. Todos(estado_actual', cola_new, "NEW")
    BY <1>1, <2>1, OtroCambia DEF ColasPuras, Pasa
  <2>4. Todos(estado_actual', cola_exit, "EXIT")
    BY <1>1, <2>1, OtroCambia DEF ColasPuras, Pasa
  <2>. QED
    BY <1>1, <2>1, <2>2, <2>3, <2>4 DEF ColasPuras
<1>10. CASE RecibirTablaEliminada
  <2>1. /\ Pasa(hilo_cpu.pcb, "EXEC", "EXIT") /\ cola_exit' = Append(cola_exit, hilo_cpu.pcb)
        /\ UNCHANGED <<cola_new, cola_ready, plp>>
    BY <1>10, EstadoPaso DEF RecibirTablaEliminada, HiloCpu
  <2>2. Todos(estado_actual', cola_exit', "EXIT")
    BY <1>1, <2>1, EntraAlFinal DEF ColasPuras, Pasa
  <2>3. Todos(estado_actual', cola_new, "NEW")
    BY <1>1, <2>1, OtroCambia DEF ColasPuras, Pasa
  <2>4. Todos(estado_actual', cola_ready, "READY")
    BY <1>1, <2>1, OtroCambia DEF ColasPuras, Pasa
  <2>. QED
    BY <1>1, <2>1, <2>2, <2>3, <2>4 DEF ColasPuras
<1>11. CASE ProcesarFRead
  <2>1. /\ Pasa(hilo_cpu.pcb, "EXEC", "BLOCK")
        /\ UNCHANGED <<cola_new, cola_ready, cola_exit, plp>>
    BY <1>11, EstadoPaso DEF ProcesarFRead, HiloCpu
  <2>2. Todos(estado_actual', cola_exit, "EXIT")
    BY <1>1, <2>1, OtroCambia DEF ColasPuras, Pasa
  <2>3. Todos(estado_actual', cola_new, "NEW")
    BY <1>1, <2>1, OtroCambia DEF ColasPuras, Pasa
  <2>4. Todos(estado_actual', cola_ready, "READY")
    BY <1>1, <2>1, OtroCambia DEF ColasPuras, Pasa
  <2>. QED
    BY <1>1, <2>1, <2>2, <2>3, <2>4 DEF ColasPuras
<1>12. CASE RecibirLeido
  <2>1. /\ Pasa(lectura.pcb, "BLOCK", "READY")
        /\ cola_ready' = Append(cola_ready, lectura.pcb)
        /\ UNCHANGED <<cola_new, cola_exit, plp>>
    BY <1>12, EstadoPaso DEF RecibirLeido
  <2>2. NoEsta(cola_ready, lectura.pcb)
    BY <1>1, <2>1, OtroCambia DEF ColasPuras, Pasa
  <2>3. SinRepetir(cola_ready') /\ Todos(estado_actual', cola_ready', "READY")
    BY <1>1, <2>1, <2>2, ColaConUltimo, EntraAlFinal DEF ColasPuras, Pasa
  <2>4. Todos(estado_actual', cola_new, "NEW")
    BY <1>1, <2>1, OtroCambia DEF ColasPuras, Pasa
  <2>5. Todos(estado_actual', cola_exit, "EXIT")
    BY <1>1, <2>1, OtroCambia DEF ColasPuras, Pasa
  <2>. QED
    BY <1>1, <2>1, <2>3, <2>4, <2>5 DEF ColasPuras
<1>13. CASE CpuDevuelve \/ RecibirAjena \/ RecibirOutOfMemory \/ UNCHANGED vars
  BY <1>2, <1>13 DEF CpuDevuelve, RecibirAjena, RecibirOutOfMemory, pcbs, colas, hilos, vars
<1>14. CASE \/ PedirSegmento \/ RecibirTabla \/ RecibirFaltaCompactar \/ PedirCompactacion
            \/ RecibirCompactacion \/ RecibirReenvio
  BY <1>2, <1>14 DEF PedirSegmento, RecibirTabla, RecibirFaltaCompactar, PedirCompactacion,
     RecibirCompactacion, RecibirReenvio, HiloCpu
<1>15. CASE \/ ProcesarExit \/ PedirEliminarTabla \/ HiloCpuLibera \/ HiloCpuSuelta
            \/ HiloCpuDecide
  BY <1>2, <1>15 DEF ProcesarExit, PedirEliminarTabla, HiloCpuLibera, HiloCpuSuelta,
     HiloCpuDecide, HiloCpu
<1>16. CASE Memoria
  BY <1>2, <1>16, PasoDeMemoria DEF EfectoDeMemoria, pcbs, colas, hilos
<1>. QED
  BY <1>3, <1>4, <1>5, <1>6, <1>7, <1>8, <1>9, <1>10, <1>11, <1>12, <1>13, <1>14, <1>15, <1>16
  DEF Next, PlanificadorLargoPlazo, ManejarRespuestaCpu

\* A console that is served has its process in the list until it ends.
LEMMA ConsolasPaso ==
    ASSUME KInv, [Next]_vars
    PROVE  ConsolasEnOrden'
<1>1. /\ ConsolasEnOrden /\ Tipos /\ cola_new \in Seq(Proc)
      /\ cola_exit \in Seq(Proc) /\ Todos(estado_actual, cola_exit, "EXIT")
      /\ estado_actual \in [Proc -> {"NEW", "READY", "EXEC", "BLOCK", "EXIT"}]
      /\ consola \in [Proc -> {"inicio", "registra", "espera", "destruye", "fin"}]
  BY DEF KInv, Tipos, TipoKernelMemoria, ColasPuras
<1>2. CASE UNCHANGED <<consola, destruidos, procesos_en_kernel, estado_actual, cola_new>>
  BY <1>1, <1>2 DEF ConsolasEnOrden
<1>3. ASSUME NEW p \in Proc, ConsolaCreaProceso(p)
      PROVE  ConsolasEnOrden'
  <2>1. /\ consola[p] = "inicio" /\ consola' = [consola EXCEPT ![p] = "registra"]
        /\ cola_new' = Append(cola_new, p)
        /\ UNCHANGED <<destruidos, procesos_en_kernel, estado_actual>>
    BY <1>3 DEF ConsolaCreaProceso
  <2>2. \A q \in Proc : q # p /\ NoEsta(cola_new, q) => NoEsta(cola_new', q)
    <3>1. /\ Len(cola_new') = Len(cola_new) + 1 /\ Len(cola_new) \in Nat
          /\ \A i \in 1..Len(cola_new) : cola_new'[i] = cola_new[i]
          /\ cola_new'[Len(cola_new) + 1] = p
      BY <1>1, <2>1, AppendFacts
    <3>2. \A i \in 1..Len(cola_new') : i \in 1..Len(cola_new) \/ i = Len(cola_new) + 1
      BY <3>1
    <3>. QED
      BY <3>1, <3>2 DEF NoEsta
  <2>. QED
    BY <1>1, <2>1, <2>2 DEF ConsolasEnOrden
<1>4. ASSUME NEW p \in Proc, ConsolaRegistra(p)
      PROVE  ConsolasEnOrden'
  <2>1. /\ consola[p] = "registra" /\ consola' = [consola EXCEPT ![p] = "espera"]
        /\ procesos_en_kernel' = procesos_en_kernel \cup {p}
        /\ UNCHANGED <<destruidos, estado_actual, cola_new>>
    BY <1>4 DEF ConsolaRegistra
  <2>. QED
    BY <1>1, <2>1 DEF ConsolasEnOrden
<1>5. ASSUME NEW p \in Proc, ConsolaRetira(p)
      PROVE  ConsolasEnOrden'
  <2>1. /\ consola[p] = "espera" /\ consola' = [consola EXCEPT ![p] = "destruye"]
        /\ estado_actual[p] = "EXIT" /\ cola_exit # <<>>
        /\ procesos_en_kernel' = procesos_en_kernel \ {Head(cola_exit)}
        /\ UNCHANGED <<destruidos, estado_actual, cola_new>>
    BY <1>5 DEF ConsolaRetira
  <2>2. estado_actual[Head(cola_exit)] = "EXIT"
    BY <1>1, <2>1, TailFacts DEF Todos
  <2>. QED
    BY <1>1, <2>1, <2>2 DEF ConsolasEnOrden
<1>6. ASSUME NEW p \in Proc, ConsolaDestruye(p)
      PROVE  ConsolasEnOrden'
  <2>1. /\ consola[p] = "destruye" /\ consola' = [consola EXCEPT ![p] = "fin"]
        /\ destruidos' = destruidos \cup {p}
        /\ UNCHANGED <<procesos_en_kernel, estado_actual, cola_new>>
    BY <1>6 DEF ConsolaDestruye, colas
  <2>. QED
    BY <1>1, <2>1 DEF ConsolasEnOrden
<1>7. ASSUME NEW p, NEW e \in {"READY", "EXEC", "BLOCK"}, NEW x \in {"READY", "EXEC", "BLOCK",
             "EXIT"}, Pasa(p, e, x),
             UNCHANGED <<consola, destruidos, procesos_en_kernel, cola_new>>
      PROVE  ConsolasEnOrden'
  <2>1. /\ p \in Proc /\ estado_actual[p] \notin {"NEW", "EXIT"}
        /\ \A q \in Proc : q # p => estado_actual'[q] = estado_actual[q]
    BY <1>1, <1>7 DEF Pasa
  <2>. QED
    BY <1>1, <1>7, <2>1 DEF ConsolasEnOrden
<1>8. CASE PlpRecibe
  <2>1. /\ Pasa(plp.pcb, "NEW", "READY") /\ plp.pcb = cola_new[1] /\ cola_new # <<>>
        /\ cola_new' = Tail(cola_new) /\ 1 \in 1..Len(cola_new)
        /\ UNCHANGED <<consola, destruidos, procesos_en_kernel>>
    BY <1>8, EstadoPaso, PcbsTomados DEF PlpRecibe
  <2>2. /\ consola[plp.pcb] # "inicio" /\ estado_actual[plp.pcb] = "NEW" /\ plp.pcb \in Proc
        /\ \A q \in Proc : q # plp.pcb => estado_actual'[q] = estado_actual[q]
    BY <1>1, <2>1 DEF ConsolasEnOrden, NoEsta, Pasa
  <2>3. \A q \in Proc : NoEsta(cola_new, q) => NoEsta(cola_new', q)
    BY <1>1, <2>1, TailFacts DEF NoEsta
  <2>. QED
    BY <1>1, <2>1, <2>2, <2>3 DEF ConsolasEnOrden
<1>9. CASE Despacha \/ RecibirTablaEliminada \/ ProcesarFRead \/ RecibirLeido
  <2>1. UNCHANGED <<consola, destruidos, procesos_en_kernel, cola_new>>
    BY <1>9 DEF Despacha, RecibirTablaEliminada, ProcesarFRead, RecibirLeido, HiloCpu
  <2>. QED
    BY <1>7, <1>9, <2>1, EstadoPaso
<1>10. CASE \/ PlpEspera \/ PlpPide \/ CpuDevuelve \/ RecibirAjena \/ RecibirOutOfMemory
            \/ UNCHANGED vars
  BY <1>2, <1>10 DEF PlpEspera, PlpPide, CpuDevuelve, RecibirAjena, RecibirOutOfMemory, pcbs,
     colas, hilos, vars
<1>11. CASE \/ PedirSegmento \/ RecibirTabla \/ RecibirFaltaCompactar \/ PedirCompactacion
            \/ RecibirCompactacion \/ RecibirReenvio
  BY <1>2, <1>11 DEF PedirSegmento, RecibirTabla, RecibirFaltaCompactar, PedirCompactacion,
     RecibirCompactacion, RecibirReenvio, HiloCpu
<1>12. CASE \/ ProcesarExit \/ PedirEliminarTabla \/ HiloCpuLibera \/ HiloCpuSuelta
            \/ HiloCpuDecide
  BY <1>2, <1>12 DEF ProcesarExit, PedirEliminarTabla, HiloCpuLibera, HiloCpuSuelta,
     HiloCpuDecide, HiloCpu
<1>13. CASE Memoria
  BY <1>2, <1>13, PasoDeMemoria DEF EfectoDeMemoria, pcbs, colas, hilos
<1>. QED
  BY <1>3, <1>4, <1>5, <1>6, <1>8, <1>9, <1>10, <1>11, <1>12, <1>13
  DEF Next, PlanificadorLargoPlazo, ManejarRespuestaCpu

\* A step of the thread of the CPU that is not the read of TABLE_DELETED stays with its
\* process, or starts with one when no answer is on its way to it.
LEMMA MovimientoDelHilo ==
    ASSUME KInv,
           \/ CpuDevuelve \/ HiloCpuLibera \/ HiloCpuSuelta \/ HiloCpuDecide
           \/ SigueOcupado /\ ~RecibirTablaEliminada
    PROVE  /\ UNCHANGED <<tablas_segmentos, compactaciones, plp>>
           /\ hilo_cpu'.pcb = hilo_cpu.pcb \/ SinMensajes("cpu", desde_memoria)
           /\ hilo_cpu.pc # "recibe_eliminada"
           /\ \/ UNCHANGED desde_memoria
              \/ \E ops : Leer("cpu", ops) /\ hilo_cpu'.pcb = hilo_cpu.pcb
<1>1. /\ Tipos /\ hilo_cpu \in TipoHiloCpu
      /\ Correo(hacia_memoria, desde_memoria, plp, hilo_cpu)
  BY HilosFacts DEF KInv, Mensajes
<1>2. CASE CpuDevuelve
  <2>1. /\ hilo_cpu.pc = "espera" /\ UNCHANGED <<tablas_segmentos, compactaciones, plp,
                                                 desde_memoria>>
    BY <1>2 DEF CpuDevuelve, memoria, enlace
  <2>. QED
    BY <1>1, <2>1, CorreoVacio
<1>3. CASE HiloCpuLibera \/ HiloCpuSuelta \/ HiloCpuDecide
  <2>1. /\ \E d \in {"libera", "suelta", "decide"} : \E h : HiloCpu(d, h)
        /\ UNCHANGED desde_memoria
    BY <1>3 DEF HiloCpuLibera, HiloCpuSuelta, HiloCpuDecide, enlace
  <2>. QED
    BY <1>1, <2>1, PasoDeHilo
<1>4. CASE PedirSegmento \/ PedirCompactacion \/ ProcesarExit \/ PedirEliminarTabla
           \/ ProcesarFRead
  <2>1. /\ \E d \in {"procesa", "pide_compactar", "elimina"} : \E h : HiloCpu(d, h)
        /\ UNCHANGED desde_memoria
    BY <1>4 DEF PedirSegmento, PedirCompactacion, ProcesarExit, PedirEliminarTabla,
       ProcesarFRead, enlace
  <2>. QED
    BY <1>1, <2>1, PasoDeHilo
<1>5. CASE RecibirTabla \/ RecibirFaltaCompactar \/ RecibirCompactacion \/ RecibirReenvio
  <2>1. /\ \E d \in {"recibe", "recibe_reenvio", "recibe_compactacion"} : \E h : HiloCpu(d, h)
        /\ \E ops : Leer("cpu", ops)
    BY <1>5 DEF RecibirTabla, RecibirFaltaCompactar, RecibirCompactacion, RecibirReenvio
  <2>. QED
    BY <1>1, <2>1, PasoDeHilo
<1>6. CASE RecibirOutOfMemory
  <2>1. /\ hilo_cpu.pc = "recibe" /\ hilo_cpu'.pcb = hilo_cpu.pcb
        /\ UNCHANGED <<tablas_segmentos, compactaciones, plp>>
        /\ \E ops : Leer("cpu", ops)
    BY <1>1, <1>6 DEF RecibirOutOfMemory, TipoHiloCpu, memoria
  <2>. QED
    BY <2>1
<1>. QED
  BY <1>2, <1>3, <1>4, <1>5, <1>6 DEF SigueOcupado

\* Memoria has the tables of the processes admitted and not ended.
LEMMA TablasDeAdmitidosPaso ==
    ASSUME KInv, [Next]_vars
    PROVE  TablasDeAdmitidos'
<1> DEFINE D == DOMAIN tablas_segmentos
<1>1. /\ TablasDeAdmitidos /\ Tipos /\ D \subseteq Proc /\ hilo_cpu \in TipoHiloCpu
      /\ estado_actual \in [Proc -> {"NEW", "READY", "EXEC", "BLOCK", "EXIT"}]
      /\ desde_memoria \in Seq(Respuesta)
      /\ Correo(hacia_memoria, desde_memoria, plp, hilo_cpu)
  BY HilosFacts DEF KInv, Tipos, TipoKernelMemoria, Mensajes
<1>2. CASE UNCHANGED <<tablas_segmentos, estado_actual, plp, hilo_cpu, desde_memoria>>
  BY <1>1, <1>2 DEF TablasDeAdmitidos
<1>3. CASE \/ \E p \in Proc : \/ ConsolaCreaProceso(p) \/ ConsolaRegistra(p)
                              \/ ConsolaRetira(p) \/ ConsolaDestruye(p)
           \/ RecibirAjena \/ UNCHANGED vars
  BY <1>2, <1>3 DEF ConsolaCreaProceso, ConsolaRegistra, ConsolaRetira, ConsolaDestruye,
     RecibirAjena, pcbs, hilos, enlace, memoria, vars
<1>4. CASE PlpEspera \/ PlpPide
  <2>1. /\ plp.pc # "recibe"
        /\ UNCHANGED <<tablas_segmentos, estado_actual, hilo_cpu, desde_memoria>>
    BY <1>4 DEF PlpEspera, PlpPide, pcbs, enlace, memoria
  <2>2. SinMensajes("plp", desde_memoria)
    BY <1>1, <2>1, CorreoVacio
  <2>3. /\ \A p \in D : estado_actual[p] \notin {"EXIT", "NEW"}
        /\ \A p \in Proc : estado_actual[p] \in {"READY", "EXEC", "BLOCK"} =>
              p \in D \/ (hilo_cpu.pc = "recibe_eliminada" /\ hilo_cpu.pcb = p)
        /\ \A i \in 1..Len(desde_memoria) :
              /\ desde_memoria[i].op \in {"TABLE_DELETED"} =>
                    hilo_cpu.pcb \notin D
              /\ desde_memoria[i].hilo # "plp"
    BY <1>1, <2>1, <2>2 DEF TablasDeAdmitidos, SinMensajes
  <2>. QED
    BY <2>1, <2>3 DEF TablasDeAdmitidos
<1>5. CASE PlpRecibe
  <2>1. /\ Leer("plp", {"TABLE_CREATED"}) /\ plp.pc = "recibe"
        /\ UNCHANGED <<tablas_segmentos, hilo_cpu>>
        /\ Pasa(plp.pcb, "NEW", "READY")
    BY <1>5, EstadoPaso DEF PlpRecibe, memoria
  <2>2. /\ desde_memoria # <<>> /\ desde_memoria' = Tail(desde_memoria)
        /\ SinMensajes("plp", desde_memoria') /\ Head(desde_memoria).hilo = "plp"
    BY <2>1, PasoQueLee DEF Leida
  <2>3. /\ Head(desde_memoria) = desde_memoria[1] /\ 1 \in 1..Len(desde_memoria)
        /\ \A i \in 1..Len(desde_memoria') :
              i + 1 \in 1..Len(desde_memoria) /\ desde_memoria'[i] = desde_memoria[i + 1]
    BY <1>1, <2>2, TailFacts
  <2>4. plp.pcb \in D
    BY <1>1, <2>2, <2>3 DEF TablasDeAdmitidos
  <2>5. /\ estado_actual'[plp.pcb] = "READY"
        /\ \A q \in Proc : q # plp.pcb => estado_actual'[q] = estado_actual[q]
    BY <1>1, <2>1 DEF Pasa
  <2>6. /\ \A p \in D : estado_actual'[p] \notin {"EXIT", "NEW"}
        /\ \A p \in Proc : estado_actual'[p] \in {"READY", "EXEC", "BLOCK"} =>
              p \in D \/ (hilo_cpu.pc = "recibe_eliminada" /\ hilo_cpu.pcb = p)
    BY <1>1, <2>1, <2>4, <2>5 DEF TablasDeAdmitidos
  <2>7. \A i \in 1..Len(desde_memoria') :
           /\ desde_memoria'[i].op \in {"TABLE_DELETED"} =>
                 hilo_cpu.pcb \notin D
           /\ desde_memoria'[i].hilo # "plp"
    BY <1>1, <2>2, <2>3 DEF TablasDeAdmitidos, SinMensajes
  <2>. QED
    BY <2>1, <2>6, <2>7 DEF TablasDeAdmitidos
<1>6. ASSUME NEW p, NEW e \in {"READY", "EXEC", "BLOCK"}, NEW x \in {"READY", "EXEC", "BLOCK"},
             Pasa(p, e, x), UNCHANGED <<tablas_segmentos, plp, desde_memoria>>,
             hilo_cpu'.pcb = hilo_cpu.pcb,
             hilo_cpu' = hilo_cpu \/ hilo_cpu.pc # "recibe_eliminada"
      PROVE  TablasDeAdmitidos'
  <2>1. /\ p \in Proc /\ estado_actual[p] = e /\ estado_actual'[p] = x
        /\ \A q \in Proc : q # p => estado_actual'[q] = estado_actual[q]
    BY <1>1, <1>6 DEF Pasa
  <2>. QED
    BY <1>1, <1>6, <2>1 DEF TablasDeAdmitidos
<1>7. CASE Despacha \/ RecibirLeido
  <2>1. UNCHANGED <<tablas_segmentos, plp, hilo_cpu, desde_memoria>>
    BY <1>7 DEF Despacha, RecibirLeido, memoria, enlace
  <2>. QED
    BY <1>6, <1>7, <2>1, EstadoPaso
<1>8. CASE ProcesarFRead
  <2>1. /\ HiloCpu("procesa", "libera") /\ UNCHANGED desde_memoria
    BY <1>8 DEF ProcesarFRead, enlace
  <2>2. /\ UNCHANGED <<tablas_segmentos, plp>> /\ hilo_cpu'.pcb = hilo_cpu.pcb
        /\ hilo_cpu.pc # "recibe_eliminada"
    BY <1>1, <2>1, PasoDeHilo
  <2>. QED
    BY <1>6, <1>8, <2>1, <2>2, EstadoPaso
<1>9. CASE RecibirTablaEliminada
  <2>1. /\ Leer("cpu", {"TABLE_DELETED"})
        /\ HiloCpu("recibe_eliminada", "libera")
        /\ Pasa(hilo_cpu.pcb, "EXEC", "EXIT")
    BY <1>9, EstadoPaso DEF RecibirTablaEliminada
  <2>2. /\ UNCHANGED <<tablas_segmentos, plp>> /\ hilo_cpu'.pcb = hilo_cpu.pcb
    BY <1>1, <2>1, PasoDeHilo
  <2>3. /\ desde_memoria # <<>> /\ desde_memoria' = Tail(desde_memoria)
        /\ Head(desde_memoria).op \in {"TABLE_DELETED"}
    BY <2>1, PasoQueLee DEF Leida
  <2>4. /\ Head(desde_memoria) = desde_memoria[1] /\ 1 \in 1..Len(desde_memoria)
        /\ \A i \in 1..Len(desde_memoria') :
              i + 1 \in 1..Len(desde_memoria) /\ desde_memoria'[i] = desde_memoria[i + 1]
    BY <1>1, <2>3, TailFacts
  <2>5. hilo_cpu.pcb \notin D
    BY <1>1, <2>3, <2>4 DEF TablasDeAdmitidos
  <2>6. /\ estado_actual'[hilo_cpu.pcb] = "EXIT" /\ hilo_cpu.pcb \in Proc
        /\ \A q \in Proc : q # hilo_cpu.pcb => estado_actual'[q] = estado_actual[q]
    BY <1>1, <2>1 DEF Pasa
  <2>7. /\ \A p \in D : /\ estado_actual'[p] # "EXIT"
                        /\ estado_actual'[p] = "NEW" => plp.pc = "recibe" /\ plp.pcb = p
        /\ \A p \in Proc : estado_actual'[p] \in {"READY", "EXEC", "BLOCK"} => p \in D
    BY <1>1, <2>5, <2>6 DEF TablasDeAdmitidos
  <2>8. \A i \in 1..Len(desde_memoria') : desde_memoria'[i].hilo = "plp" => plp.pcb \in D
    BY <1>1, <2>4 DEF TablasDeAdmitidos
  <2>. QED
    BY <2>2, <2>5, <2>7, <2>8 DEF TablasDeAdmitidos
<1>10. CASE \/ CpuDevuelve \/ HiloCpuLibera \/ HiloCpuSuelta \/ HiloCpuDecide
            \/ SigueOcupado /\ ~RecibirTablaEliminada /\ ~ProcesarFRead
  <2>1. /\ UNCHANGED <<tablas_segmentos, plp>>
        /\ hilo_cpu'.pcb = hilo_cpu.pcb \/ SinMensajes("cpu", desde_memoria)
        /\ hilo_cpu.pc # "recibe_eliminada"
        /\ \/ UNCHANGED desde_memoria
           \/ \E ops : Leer("cpu", ops) /\ hilo_cpu'.pcb = hilo_cpu.pcb
    BY <1>10, MovimientoDelHilo
  <2>2. UNCHANGED estado_actual
    <3>1. CASE \/ CpuDevuelve \/ HiloCpuLibera \/ HiloCpuSuelta \/ HiloCpuDecide
               \/ RecibirOutOfMemory \/ ProcesarExit \/ PedirEliminarTabla
      BY <3>1 DEF CpuDevuelve, HiloCpuLibera, HiloCpuSuelta, HiloCpuDecide,
         RecibirOutOfMemory, ProcesarExit, PedirEliminarTabla, pcbs
    <3>2. CASE \/ PedirSegmento \/ RecibirTabla \/ RecibirFaltaCompactar
               \/ PedirCompactacion \/ RecibirCompactacion \/ RecibirReenvio
      BY <3>2 DEF PedirSegmento, RecibirTabla, RecibirFaltaCompactar, PedirCompactacion,
         RecibirCompactacion, RecibirReenvio
    <3>. QED
      BY <1>10, <3>1, <3>2 DEF SigueOcupado
  <2>3. \A p \in Proc : estado_actual[p] \in {"READY", "EXEC", "BLOCK"} => p \in D
    BY <1>1, <2>1 DEF TablasDeAdmitidos
  <2>4. \A i \in 1..Len(desde_memoria') :
           /\ desde_memoria'[i].op \in {"TABLE_DELETED"} =>
                 hilo_cpu'.pcb \notin D
           /\ desde_memoria'[i].hilo = "plp" => plp.pcb \in D
    <3>1. CASE UNCHANGED desde_memoria /\ hilo_cpu'.pcb = hilo_cpu.pcb
      BY <1>1, <3>1 DEF TablasDeAdmitidos
    <3>2. CASE UNCHANGED desde_memoria /\ SinMensajes("cpu", desde_memoria)
      BY <1>1, <3>2 DEF TablasDeAdmitidos, SinMensajes, Correo, RespuestaEsperada
    <3>3. CASE \E ops : Leer("cpu", ops) /\ hilo_cpu'.pcb = hilo_cpu.pcb
      <4>1. desde_memoria # <<>> /\ desde_memoria' = Tail(desde_memoria)
        BY <3>3, PasoQueLee
      <4>2. \A i \in 1..Len(desde_memoria') :
              i + 1 \in 1..Len(desde_memoria) /\ desde_memoria'[i] = desde_memoria[i + 1]
        BY <1>1, <4>1, TailFacts
      <4>. QED
        BY <1>1, <3>3, <4>2 DEF TablasDeAdmitidos
    <3>. QED
      BY <2>1, <3>1, <3>2, <3>3
  <2>. QED
    BY <1>1, <2>1, <2>2, <2>3, <2>4 DEF TablasDeAdmitidos
<1>11. CASE Memoria
  <2>1. PICK a \in Respuesta : EfectoDeMemoria(a)
    BY <1>11, PasoDeMemoria
  <2>2. /\ desde_memoria' = Append(desde_memoria, a) /\ hacia_memoria # <<>>
        /\ a.hilo = Head(hacia_memoria).hilo /\ RespuestaEsperada(a, plp, hilo_cpu)
        /\ UNCHANGED <<estado_actual, plp, hilo_cpu>>
        /\ DOMAIN tablas_segmentos' \subseteq Proc
    BY <2>1, TablasFacts DEF EfectoDeMemoria, pcbs, hilos
  <2>3. /\ Len(desde_memoria) \in Nat /\ Len(desde_memoria') = Len(desde_memoria) + 1
        /\ \A i \in 1..Len(desde_memoria) : desde_memoria'[i] = desde_memoria[i]
        /\ desde_memoria'[Len(desde_memoria) + 1] = a
    BY <1>1, <2>1, <2>2, AppendFacts
  <2>4. \A i \in 1..Len(desde_memoria') :
          i \in 1..Len(desde_memoria) \/ i = Len(desde_memoria) + 1
    BY <2>3
  <2>5. /\ SinMensajes(a.hilo, desde_memoria)
        /\ \A i \in 1..Len(desde_memoria) :
              desde_memoria[i].op \in {"TABLE_DELETED"} =>
                  desde_memoria[i].hilo = "cpu"
    <3>1. hacia_memoria \in Seq(Pedido)
      BY DEF KInv, Tipos, TipoKernelMemoria
    <3>2. SinMensajes(a.hilo, desde_memoria)
      BY <1>1, <2>2, <3>1, CorreoAtiende
    <3>. QED
      BY <1>1, <3>2 DEF Correo, RespuestaEsperada
  <2>6. /\ \A p \in DOMAIN tablas_segmentos' :
              /\ estado_actual[p] # "EXIT"
              /\ estado_actual[p] = "NEW" => plp.pc = "recibe" /\ plp.pcb = p
        /\ \A p \in Proc : estado_actual[p] \in {"READY", "EXEC", "BLOCK"} =>
              \/ p \in DOMAIN tablas_segmentos'
              \/ hilo_cpu.pc = "recibe_eliminada" /\ hilo_cpu.pcb = p
        /\ \A i \in 1..Len(desde_memoria) :
              /\ desde_memoria[i].op \in {"TABLE_DELETED"} =>
                    hilo_cpu.pcb \notin DOMAIN tablas_segmentos'
              /\ desde_memoria[i].hilo = "plp" => plp.pcb \in DOMAIN tablas_segmentos'
        /\ a.op \in {"TABLE_DELETED"} =>
              hilo_cpu.pcb \notin DOMAIN tablas_segmentos'
        /\ a.hilo = "plp" => plp.pcb \in DOMAIN tablas_segmentos'
    <3>1. CASE EfectoCreaTabla(a)
      <4>1. plp.pc = "recibe" /\ estado_actual[plp.pcb] = "NEW"
        BY <3>1, PcbsTomados DEF EfectoCreaTabla
      <4>2. hilo_cpu.pc = "recibe_eliminada" => estado_actual[hilo_cpu.pcb] = "EXEC"
        BY DEF KInv, EstadosDelHilo, Ocupado, Terminado
      <4>3. \A i \in 1..Len(desde_memoria) :
              desde_memoria[i].op \in {"TABLE_DELETED"} =>
                  hilo_cpu.pc = "recibe_eliminada"
        BY <1>1 DEF Correo, RespuestaEsperada
      <4>. QED
        BY <1>1, <3>1, <4>1, <4>2, <4>3 DEF EfectoCreaTabla, TablasDeAdmitidos
    <3>2. CASE EfectoEliminaTabla(a)
      <4>1. /\ hilo_cpu.pc = "recibe_eliminada"
            /\ DOMAIN tablas_segmentos' = D \ {hilo_cpu.pcb} /\ a.hilo = "cpu"
        BY <3>2 DEF EfectoEliminaTabla
      <4>2. estado_actual[hilo_cpu.pcb] = "EXEC"
        BY <4>1 DEF KInv, EstadosDelHilo, Ocupado, Terminado
      <4>3. \A i \in 1..Len(desde_memoria) :
              desde_memoria[i].hilo = "plp" => estado_actual[plp.pcb] = "NEW"
        BY <1>1, PcbsTomados DEF Correo, RespuestaEsperada
      <4>. QED
        BY <1>1, <4>1, <4>2, <4>3 DEF TablasDeAdmitidos
    <3>3. CASE EfectoCambiaTabla(a) \/ EfectoRechaza(a) \/ EfectoCompacta(a)
      <4>1. DOMAIN tablas_segmentos' = D /\ a.hilo = "cpu"
            /\ a.op \notin {"TABLE_DELETED"}
        BY <3>3 DEF EfectoCambiaTabla, EfectoRechaza, EfectoCompacta
      <4>. QED
        BY <1>1, <4>1 DEF TablasDeAdmitidos
    <3>. QED
      BY <2>1, <3>1, <3>2, <3>3 DEF EfectoDeMemoria
  <2>7. \A i \in 1..Len(desde_memoria') :
           /\ desde_memoria'[i].op \in {"TABLE_DELETED"} =>
                 hilo_cpu.pcb \notin DOMAIN tablas_segmentos'
           /\ desde_memoria'[i].hilo = "plp" => plp.pcb \in DOMAIN tablas_segmentos'
    BY <2>3, <2>4, <2>6
  <2>. QED
    BY <2>2, <2>6, <2>7 DEF TablasDeAdmitidos
<1>. QED
  BY <1>3, <1>4, <1>5, <1>7, <1>8, <1>9, <1>10, <1>11
  DEF Next, PlanificadorLargoPlazo, ManejarRespuestaCpu, SigueOcupado

\* Nothing follows once the Kernel has gone wrong.
LEMMA NadaSigue ==
    ASSUME KInv, [Next]_vars
    PROVE  caido = "no" \/ UNCHANGED vars
<1>1. ASSUME \E p \in Proc : \/ ConsolaCreaProceso(p) \/ ConsolaRegistra(p)
                             \/ ConsolaRetira(p) \/ ConsolaDestruye(p)
      PROVE  caido = "no"
  BY <1>1 DEF ConsolaCreaProceso, ConsolaRegistra, ConsolaRetira, ConsolaDestruye
<1>2. ASSUME \/ PlanificadorLargoPlazo \/ Despacha \/ CpuDevuelve \/ RecibirLeido
             \/ RecibirAjena
      PROVE  caido = "no"
  BY <1>2 DEF PlanificadorLargoPlazo, PlpEspera, PlpPide, PlpRecibe, Leer, HayRespuesta,
     Despacha, CpuDevuelve, RecibirLeido, RecibirAjena
<1>3. ASSUME ManejarRespuestaCpu
      PROVE  caido = "no"
  <2>1. ASSUME \/ PedirSegmento \/ RecibirTabla \/ RecibirFaltaCompactar \/ PedirCompactacion
               \/ RecibirCompactacion \/ RecibirReenvio \/ RecibirOutOfMemory
        PROVE  caido = "no"
    BY <2>1 DEF PedirSegmento, RecibirTabla, RecibirFaltaCompactar, PedirCompactacion,
       RecibirCompactacion, RecibirReenvio, RecibirOutOfMemory, HiloCpu
  <2>2. ASSUME \/ ProcesarExit \/ PedirEliminarTabla \/ RecibirTablaEliminada \/ HiloCpuLibera
               \/ HiloCpuSuelta \/ HiloCpuDecide \/ ProcesarFRead
        PROVE  caido = "no"
    BY <2>2 DEF ProcesarExit, PedirEliminarTabla, RecibirTablaEliminada, HiloCpuLibera,
       HiloCpuSuelta, HiloCpuDecide, ProcesarFRead, HiloCpu
  <2>. QED
    BY <1>3, <2>1, <2>2 DEF ManejarRespuestaCpu
<1>4. ASSUME Memoria
      PROVE  caido = "no"
  BY <1>4, PasoDeMemoria DEF EfectoDeMemoria
<1>. QED
  BY <1>1, <1>2, <1>3, <1>4 DEF Next

\* Once the answers on their way are read, each pcb has the table of Memoria.
LEMMA EnCaminoPaso ==
    ASSUME KInv, [Next]_vars, caido' = "no"
    PROVE  TablasEnCamino'
<1> DEFINE t == desde_memoria
           lp == plp.pcb
           cp == hilo_cpu.pcb
<1>1. caido = "no"
  BY NadaSigue DEF vars
<1>2. /\ Tipos /\ hilo_cpu \in TipoHiloCpu /\ t \in Seq(Respuesta)
      /\ plp \in [pc : {"espera", "pide", "recibe"}, pcb : ProcONull]
      /\ tabla_segmento \in [Proc -> Tabla]
      /\ DOMAIN tablas_segmentos \subseteq Proc
      /\ Correo(hacia_memoria, t, plp, hilo_cpu)
      /\ \A p \in DOMAIN tablas_segmentos :
            Llega(t, p, tabla_segmento[p], tablas_segmentos[p], lp, cp)
  BY <1>1, HilosFacts DEF KInv, Tipos, TipoKernelMemoria, Mensajes, TablasEnCamino
<1>3. CASE /\ UNCHANGED <<tablas_segmentos, tabla_segmento, desde_memoria>>
           /\ plp'.pcb = lp \/ SinMensajes("plp", t)
           /\ hilo_cpu'.pcb = cp \/ SinMensajes("cpu", t)
  <2>1. \A p \in DOMAIN tablas_segmentos :
          Llega(t, p, tabla_segmento[p], tablas_segmentos[p], plp'.pcb, hilo_cpu'.pcb)
    BY <1>2, <1>3, LlegaCalla
  <2>. QED
    BY <1>3, <2>1 DEF TablasEnCamino
<1>4. CASE \/ \E p \in Proc : \/ ConsolaCreaProceso(p) \/ ConsolaRegistra(p)
                              \/ ConsolaRetira(p) \/ ConsolaDestruye(p)
           \/ Despacha \/ RecibirLeido \/ RecibirAjena \/ UNCHANGED vars
  <2>1. UNCHANGED <<tablas_segmentos, tabla_segmento, desde_memoria, plp, hilo_cpu>>
    BY <1>4 DEF ConsolaCreaProceso, ConsolaRegistra, ConsolaRetira, ConsolaDestruye, Despacha,
       RecibirLeido, RecibirAjena, pcbs, hilos, enlace, memoria, vars
  <2>. QED
    BY <1>3, <2>1
<1>5. CASE PlpEspera \/ PlpPide
  <2>1. /\ UNCHANGED <<tablas_segmentos, tabla_segmento, desde_memoria, hilo_cpu>>
        /\ plp.pc # "recibe"
    BY <1>5 DEF PlpEspera, PlpPide, pcbs, enlace, memoria
  <2>2. SinMensajes("plp", t)
    BY <1>2, <2>1, CorreoVacio
  <2>. QED
    BY <1>3, <2>1, <2>2
<1>6. CASE \/ CpuDevuelve \/ HiloCpuLibera \/ HiloCpuSuelta \/ HiloCpuDecide
           \/ PedirSegmento \/ PedirCompactacion \/ ProcesarExit \/ PedirEliminarTabla
           \/ ProcesarFRead
  <2>1. UNCHANGED <<tabla_segmento, desde_memoria>>
    BY <1>6 DEF CpuDevuelve, HiloCpuLibera, HiloCpuSuelta, HiloCpuDecide, PedirSegmento,
       PedirCompactacion, ProcesarExit, PedirEliminarTabla, ProcesarFRead, enlace
  <2>2. /\ UNCHANGED <<tablas_segmentos, plp>>
        /\ hilo_cpu'.pcb = cp \/ SinMensajes("cpu", t)
    <3>1. CASE CpuDevuelve
      <4>1. hilo_cpu.pc = "espera" /\ UNCHANGED <<tablas_segmentos, plp>>
        BY <3>1 DEF CpuDevuelve, memoria
      <4>. QED
        BY <1>2, <4>1, CorreoVacio
    <3>2. CASE ~CpuDevuelve
      <4>1. \E d, h : HiloCpu(d, h)
        BY <1>6, <3>2 DEF HiloCpuLibera, HiloCpuSuelta, HiloCpuDecide, PedirSegmento,
           PedirCompactacion, ProcesarExit, PedirEliminarTabla, ProcesarFRead
      <4>. QED
        BY <1>2, <4>1, PasoDeHilo
    <3>. QED
      BY <3>1, <3>2
  <2>. QED
    BY <1>3, <2>1, <2>2
<1>7. ASSUME NEW h, NEW ops, Leer(h, ops), UNCHANGED tablas_segmentos,
             plp'.pcb = lp \/ h = "plp", hilo_cpu'.pcb = cp \/ h = "cpu",
             \A p \in Proc :
                 /\ Afecta(Leida, p, lp, cp) => tabla_segmento'[p] = Valor(Leida, p)
                 /\ ~Afecta(Leida, p, lp, cp) => tabla_segmento'[p] = tabla_segmento[p]
      PROVE  TablasEnCamino'
  <2>1. /\ t # <<>> /\ t' = Tail(t) /\ SinMensajes(h, t') /\ Leida = Head(t)
    BY <1>7, PasoQueLee DEF Leida
  <2>2. \A p \in DOMAIN tablas_segmentos :
          Llega(Tail(t), p, tabla_segmento'[p], tablas_segmentos[p], lp, cp)
    BY <1>2, <1>7, <2>1, LlegaRecibe
  <2>3. \A p \in DOMAIN tablas_segmentos :
          Llega(t', p, tabla_segmento'[p], tablas_segmentos[p], plp'.pcb, hilo_cpu'.pcb)
    BY <1>7, <2>1, <2>2, LlegaCalla
  <2>. QED
    BY <1>7, <2>3 DEF TablasEnCamino
<1>8. CASE PlpRecibe
  <2>1. /\ Leer("plp", {"TABLE_CREATED"}) /\ lp \in Proc
        /\ UNCHANGED <<tablas_segmentos, hilo_cpu>>
        /\ tabla_segmento' = [tabla_segmento EXCEPT ![lp] = Leida.tabla]
    BY <1>8, PcbsTomados DEF PlpRecibe, memoria
  <2>2. Leida.hilo = "plp" /\ Leida.op = "TABLE_CREATED"
    BY <2>1, PasoQueLee
  <2>3. \A p \in Proc : /\ Afecta(Leida, p, lp, cp) <=> p = lp
                        /\ Valor(Leida, p) = Leida.tabla
    BY <2>2 DEF Afecta, Valor
  <2>4. \A p \in Proc :
          /\ Afecta(Leida, p, lp, cp) => tabla_segmento'[p] = Valor(Leida, p)
          /\ ~Afecta(Leida, p, lp, cp) => tabla_segmento'[p] = tabla_segmento[p]
    BY <1>2, <2>1, <2>3
  <2>. QED
    BY <1>7, <2>1, <2>4
<1>9. CASE RecibirTabla \/ RecibirReenvio
  <2>1. /\ Leer("cpu", ConTabla) /\ \E d \in {"recibe", "recibe_reenvio"} : HiloCpu(d, "suelta")
        /\ tabla_segmento' = [tabla_segmento EXCEPT ![cp] = Leida.tabla]
    BY <1>9 DEF RecibirTabla, RecibirReenvio
  <2>2. UNCHANGED <<tablas_segmentos, plp>> /\ hilo_cpu'.pcb = cp /\ cp \in Proc
    BY <1>2, <2>1, PasoDeHilo DEF Tipos
  <2>3. Leida.hilo = "cpu" /\ Leida.op \in ConTabla
    BY <2>1, PasoQueLee
  <2>4. \A p \in Proc : /\ Afecta(Leida, p, lp, cp) <=> p = cp
                        /\ Valor(Leida, p) = Leida.tabla
    BY <2>3 DEF Afecta, Valor, ConTabla
  <2>5. \A p \in Proc :
          /\ Afecta(Leida, p, lp, cp) => tabla_segmento'[p] = Valor(Leida, p)
          /\ ~Afecta(Leida, p, lp, cp) => tabla_segmento'[p] = tabla_segmento[p]
    BY <1>2, <2>1, <2>2, <2>4
  <2>. QED
    BY <1>7, <2>1, <2>2, <2>5
<1>10. CASE RecibirFaltaCompactar \/ RecibirOutOfMemory \/ RecibirTablaEliminada
  <2>1. /\ Leer("cpu", {"NEEDS_TO_COMPACT"}) \/ Leer("cpu", {"OUT_OF_MEMORY"})
           \/ Leer("cpu", {"TABLE_DELETED"})
        /\ UNCHANGED tabla_segmento
    BY <1>10 DEF RecibirFaltaCompactar, RecibirOutOfMemory, RecibirTablaEliminada, pcbs
  <2>2. UNCHANGED <<tablas_segmentos, plp>> /\ hilo_cpu'.pcb = cp
    <3>1. CASE RecibirOutOfMemory
      BY <1>2, <3>1 DEF RecibirOutOfMemory, TipoHiloCpu, memoria
    <3>2. CASE ~RecibirOutOfMemory
      <4>1. \E d, h : HiloCpu(d, h)
        BY <1>10, <3>2 DEF RecibirFaltaCompactar, RecibirTablaEliminada
      <4>. QED
        BY <1>2, <4>1, PasoDeHilo
    <3>. QED
      BY <3>1, <3>2
  <2>3. /\ Leida.hilo = "cpu"
        /\ Leida.op \in {"NEEDS_TO_COMPACT", "OUT_OF_MEMORY", "TABLE_DELETED"}
    BY <2>1, PasoQueLee
  <2>4. \A p \in Proc : ~Afecta(Leida, p, lp, cp)
    BY <2>3 DEF Afecta, ConTabla
  <2>. QED
    BY <1>7, <2>1, <2>2, <2>4
<1>11. CASE RecibirCompactacion
  <2>1. /\ Leer("cpu", {"COMPACT"}) /\ HiloCpu("recibe_compactacion", "recibe_reenvio")
        /\ SincronizarTablasProcesos(Leida.tablas)
    BY <1>11 DEF RecibirCompactacion
  <2>2. UNCHANGED <<tablas_segmentos, plp>> /\ hilo_cpu'.pcb = cp
    BY <1>2, <2>1, PasoDeHilo
  <2>3. Leida.hilo = "cpu" /\ Leida.op = "COMPACT"
    BY <2>1, PasoQueLee
  <2>4. \A p \in Proc : /\ Afecta(Leida, p, lp, cp) <=> p \in DOMAIN Leida.tablas
                        /\ Valor(Leida, p) = Leida.tablas[p]
    BY <2>3 DEF Afecta, Valor, ConTabla
  <2>5. \A p \in Proc :
          /\ Afecta(Leida, p, lp, cp) => tabla_segmento'[p] = Valor(Leida, p)
          /\ ~Afecta(Leida, p, lp, cp) => tabla_segmento'[p] = tabla_segmento[p]
    BY <2>1, <2>4 DEF SincronizarTablasProcesos
  <2>. QED
    BY <1>7, <2>1, <2>2, <2>5
<1>12. CASE Memoria
  <2>1. PICK a \in Respuesta : EfectoDeMemoria(a)
    BY <1>12, PasoDeMemoria
  <2>2. /\ t' = Append(t, a) /\ RespuestaEsperada(a, plp, hilo_cpu)
        /\ UNCHANGED <<tabla_segmento, plp, hilo_cpu>>
    BY <2>1 DEF EfectoDeMemoria, pcbs, hilos
  <2>3. \A p \in DOMAIN tablas_segmentos' :
          \/ Afecta(a, p, lp, cp) /\ Valor(a, p) = tablas_segmentos'[p]
          \/ /\ ~Afecta(a, p, lp, cp) /\ p \in DOMAIN tablas_segmentos
             /\ tablas_segmentos'[p] = tablas_segmentos[p]
    <3>1. CASE EfectoCreaTabla(a)
      BY <3>1 DEF EfectoCreaTabla, Afecta, Valor
    <3>2. CASE EfectoEliminaTabla(a)
      BY <3>2 DEF EfectoEliminaTabla, Afecta, ConTabla
    <3>3. CASE EfectoCambiaTabla(a)
      BY <3>3 DEF EfectoCambiaTabla, Afecta, Valor, ConTabla
    <3>4. CASE EfectoRechaza(a)
      BY <3>4 DEF EfectoRechaza, Afecta, ConTabla
    <3>5. CASE EfectoCompacta(a)
      BY <3>5 DEF EfectoCompacta, Afecta, Valor
    <3>. QED
      BY <2>1, <3>1, <3>2, <3>3, <3>4, <3>5 DEF EfectoDeMemoria
  <2>4. \A p \in DOMAIN tablas_segmentos' :
          Llega(Append(t, a), p, tabla_segmento[p], tablas_segmentos'[p], lp, cp)
    <3> SUFFICES ASSUME NEW p \in DOMAIN tablas_segmentos'
                 PROVE  Llega(Append(t, a), p, tabla_segmento[p], tablas_segmentos'[p], lp, cp)
      OBVIOUS
    <3>1. CASE Afecta(a, p, lp, cp) /\ Valor(a, p) = tablas_segmentos'[p]
      BY <1>2, <3>1, LlegaAtiende
    <3>2. CASE /\ ~Afecta(a, p, lp, cp) /\ p \in DOMAIN tablas_segmentos
               /\ tablas_segmentos'[p] = tablas_segmentos[p]
      <4>1. Llega(t, p, tabla_segmento[p], tablas_segmentos'[p], lp, cp)
        BY <1>2, <3>2
      <4>. QED
        BY <1>2, <3>2, <4>1, LlegaAtiende
    <3>. QED
      BY <2>3, <3>1, <3>2
  <2>. QED
    BY <2>2, <2>4 DEF TablasEnCamino
<1>. QED
  BY <1>4, <1>5, <1>6, <1>8, <1>9, <1>10, <1>11, <1>12
  DEF Next, PlanificadorLargoPlazo, ManejarRespuestaCpu

\* A pcb that no answer is on its way to has the table of Memoria.
LEMMA TablaAlDia ==
    ASSUME KInv, caido = "no", SinMensajes("cpu", desde_memoria),
           hilo_cpu.pc # "recibe_eliminada",
           NEW p \in Proc, estado_actual[p] \in {"READY", "EXEC"}
    PROVE  p \in DOMAIN tablas_segmentos /\ tabla_segmento[p] = tablas_segmentos[p]
<1>1. p \in DOMAIN tablas_segmentos
  BY DEF KInv, TablasDeAdmitidos
<1>2. \A i \in 1..Len(desde_memoria) :
        ~Afecta(desde_memoria[i], p, plp.pcb, hilo_cpu.pcb)
  <2>1. \A i \in 1..Len(desde_memoria) :
          /\ desde_memoria[i].hilo = "plp" /\ plp.pc = "recibe"
          /\ desde_memoria[i].op = "TABLE_CREATED"
    BY DEF KInv, Mensajes, Correo, RespuestaEsperada, SinMensajes
  <2>2. plp.pc = "recibe" => plp.pcb # p
    BY PcbsTomados
  <2>. QED
    BY <2>1, <2>2 DEF Afecta
<1>. QED
  BY <1>1, <1>2 DEF KInv, TablasEnCamino, Llega

\* A request of Memoria changes the table of no process that has the CPU or reads a file.
LEMMA CopiasIntactas ==
    ASSUME KInv, NEW a, EfectoDeMemoria(a), NEW p \in DOMAIN tablas_segmentos,
           \/ p = en_cpu.pcb
           \/ p = lectura.pcb
           \/ p = hilo_cpu.pcb /\ hilo_cpu.pc = "procesa"
    PROVE  p \in DOMAIN tablas_segmentos' /\ tablas_segmentos'[p] = tablas_segmentos[p]
<1>1. NoProc \notin Proc /\ DOMAIN tablas_segmentos \subseteq Proc
  BY HilosFacts DEF KInv, Tipos, TipoKernelMemoria
<1>2. /\ p = en_cpu.pcb => estado_actual[p] = "EXEC" /\ ~Ocupado
      /\ p = lectura.pcb =>
            /\ estado_actual[p] = "BLOCK"
            /\ hilo_cpu.pc \notin {"recibe_compactacion", "recibe_reenvio"}
      /\ hilo_cpu.pc = "procesa" => estado_actual[hilo_cpu.pcb] = "EXEC"
  BY <1>1, PcbsTomados DEF KInv, TestigoDeCpu, CompactacionSinLecturas, EstadosDelHilo,
     Ocupado, Terminado
<1>3. CASE EfectoCreaTabla(a)
  <2>1. estado_actual[plp.pcb] = "NEW"
    BY <1>3, PcbsTomados DEF EfectoCreaTabla
  <2>. QED
    BY <1>2, <1>3, <2>1 DEF EfectoCreaTabla
<1>4. CASE EfectoEliminaTabla(a) \/ EfectoCambiaTabla(a)
  <2>1. hilo_cpu.pc \in {"recibe_eliminada", "recibe", "recibe_reenvio"}
    BY <1>4 DEF EfectoEliminaTabla, EfectoCambiaTabla
  <2>2. Ocupado /\ estado_actual[hilo_cpu.pcb] = "EXEC"
    BY <2>1 DEF KInv, EstadosDelHilo, Ocupado, Terminado
  <2>3. p # hilo_cpu.pcb
    BY <1>2, <2>1, <2>2
  <2>. QED
    BY <1>4, <2>3 DEF EfectoEliminaTabla, EfectoCambiaTabla
<1>5. CASE EfectoRechaza(a)
  BY <1>5 DEF EfectoRechaza
<1>6. CASE EfectoCompacta(a)
  <2>1. hilo_cpu.pc = "recibe_compactacion"
    BY <1>6 DEF EfectoCompacta
  <2>. QED
    BY <1>2, <2>1 DEF Ocupado, Terminado
<1>. QED
  BY <1>3, <1>4, <1>5, <1>6 DEF EfectoDeMemoria

\* The copies in use are those of Memoria.
LEMMA CopiasPaso ==
    ASSUME KInv, [Next]_vars
    PROVE  CopiasVigentes'
<1>1. /\ CopiasVigentes /\ Tipos /\ hilo_cpu \in TipoHiloCpu /\ NoProc \notin Proc
      /\ Correo(hacia_memoria, desde_memoria, plp, hilo_cpu) /\ TestigoDeCpu
  BY HilosFacts DEF KInv, Mensajes
<1>2. CASE /\ UNCHANGED <<en_cpu, lectura, tablas_segmentos>>
           /\ hilo_cpu' = hilo_cpu \/ hilo_cpu'.pc # "procesa"
  BY <1>1, <1>2 DEF CopiasVigentes, Vigente
<1>3. CASE \/ \E p \in Proc : \/ ConsolaCreaProceso(p) \/ ConsolaRegistra(p)
                              \/ ConsolaRetira(p) \/ ConsolaDestruye(p)
           \/ PlpEspera \/ PlpPide \/ PlpRecibe \/ RecibirAjena \/ UNCHANGED vars
  BY <1>2, <1>3 DEF ConsolaCreaProceso, ConsolaRegistra, ConsolaRetira, ConsolaDestruye,
     PlpEspera, PlpPide, PlpRecibe, RecibirAjena, hilos, memoria, vars
<1>4. CASE Despacha
  <2>1. /\ en_cpu' = Contexto(Head(cola_ready)) /\ cpu_liberada > 0 /\ caido = "no"
        /\ cola_ready # <<>> /\ UNCHANGED <<hilo_cpu, lectura, tablas_segmentos>>
    BY <1>4 DEF Despacha, memoria
  <2>2. ~Ocupado
    BY <1>1, <2>1 DEF TestigoDeCpu
  <2>3. hilo_cpu.pc \in {"espera", "suelta", "decide"}
    BY <2>2 DEF Ocupado, Terminado
  <2>4. SinMensajes("cpu", desde_memoria)
    BY <1>1, <2>3, CorreoVacio
  <2>5. /\ Head(cola_ready) \in DOMAIN tablas_segmentos
        /\ tabla_segmento[Head(cola_ready)] = tablas_segmentos[Head(cola_ready)]
    BY <2>1, <2>3, <2>4, PcbsTomados, TablaAlDia
  <2>. QED
    BY <1>1, <2>1, <2>5 DEF CopiasVigentes, Vigente, Contexto
<1>5. CASE CpuDevuelve
  <2>1. /\ hilo_cpu'.pcb = en_cpu.pcb /\ hilo_cpu'.tabla = en_cpu.tabla
        /\ en_cpu'.pcb = NoProc /\ UNCHANGED <<lectura, tablas_segmentos>>
    BY <1>5 DEF CpuDevuelve, SinContexto, memoria
  <2>. QED
    BY <1>1, <2>1 DEF CopiasVigentes, Vigente
<1>6. CASE SigueOcupado /\ ~ProcesarFRead
  <2>1. UNCHANGED lectura
    BY <1>6 DEF SigueOcupado, PedirSegmento, RecibirTabla, RecibirFaltaCompactar,
       PedirCompactacion, RecibirCompactacion, RecibirReenvio, RecibirOutOfMemory,
       ProcesarExit, PedirEliminarTabla, RecibirTablaEliminada
  <2>. QED
    BY <1>2, <1>6, <2>1, SigueOcupadoFacts
<1>7. CASE ProcesarFRead
  <2>1. /\ HiloCpu("procesa", "libera") /\ UNCHANGED en_cpu
        /\ lectura' = [pcb |-> hilo_cpu.pcb, tabla |-> hilo_cpu.tabla]
    BY <1>7 DEF ProcesarFRead
  <2>2. /\ hilo_cpu.pc = "procesa" /\ hilo_cpu'.pc = "libera" /\ UNCHANGED tablas_segmentos
    BY <1>1, <2>1, PasoDeHilo
  <2>. QED
    BY <1>1, <2>1, <2>2 DEF CopiasVigentes, Vigente
<1>8. CASE HiloCpuLibera \/ HiloCpuSuelta
  <2>1. /\ \/ HiloCpu("libera", "suelta") \/ HiloCpu("libera", "espera")
           \/ HiloCpu("suelta", "decide")
        /\ UNCHANGED <<en_cpu, lectura>>
    BY <1>8 DEF HiloCpuLibera, HiloCpuSuelta
  <2>2. hilo_cpu'.pc # "procesa" /\ UNCHANGED tablas_segmentos
    BY <1>1, <2>1, PasoDeHilo
  <2>. QED
    BY <1>2, <2>1, <2>2
<1>9. CASE HiloCpuDecide
  <2>1. /\ hilo_cpu.pc = "decide" /\ hilo_cpu'.pc = "espera" /\ hilo_cpu.pcb \in Proc
        /\ UNCHANGED <<lectura, tablas_segmentos>>
    BY <1>9, DecideFacts
  <2>2. SinMensajes("cpu", desde_memoria)
    BY <1>1, <2>1, CorreoVacio
  <2>3. caido = "no"
    BY <1>9 DEF HiloCpuDecide, HiloCpu
  <2>4. CASE Terminado
    BY <1>2, <1>9, <2>1, <2>4, DecideFacts
  <2>5. CASE ~Terminado
    <3>1. /\ en_cpu' = Contexto(hilo_cpu.pcb) /\ estado_actual[hilo_cpu.pcb] = "EXEC"
      BY <1>9, <2>5, DecideFacts
    <3>2. /\ hilo_cpu.pcb \in DOMAIN tablas_segmentos
          /\ tabla_segmento[hilo_cpu.pcb] = tablas_segmentos[hilo_cpu.pcb]
      BY <2>1, <2>2, <2>3, <3>1, TablaAlDia
    <3>. QED
      BY <1>1, <2>1, <3>1, <3>2 DEF CopiasVigentes, Vigente, Contexto
  <2>. QED
    BY <2>4, <2>5
<1>10. CASE RecibirLeido
  <2>1. lectura'.pcb = NoProc /\ UNCHANGED <<en_cpu, hilo_cpu, tablas_segmentos>>
    BY <1>10 DEF RecibirLeido, SinContexto, memoria
  <2>. QED
    BY <1>1, <2>1 DEF CopiasVigentes, Vigente
<1>11. CASE Memoria
  <2>1. PICK a \in Respuesta : EfectoDeMemoria(a)
    BY <1>11, PasoDeMemoria
  <2>2. UNCHANGED <<en_cpu, lectura, hilo_cpu>>
    BY <2>1 DEF EfectoDeMemoria, hilos
  <2>3. \A p \in DOMAIN tablas_segmentos :
          (\/ p = en_cpu.pcb
           \/ p = lectura.pcb
           \/ p = hilo_cpu.pcb /\ hilo_cpu.pc = "procesa") =>
              p \in DOMAIN tablas_segmentos' /\ tablas_segmentos'[p] = tablas_segmentos[p]
    BY <2>1, CopiasIntactas
  <2>. QED
    BY <1>1, <2>2, <2>3 DEF CopiasVigentes, Vigente
<1>. QED
  BY <1>3, <1>4, <1>5, <1>6, <1>7, <1>8, <1>9, <1>10, <1>11
  DEF Next, PlanificadorLargoPlazo, ManejarRespuestaCpu, SigueOcupado

\* Only a process that its console has not registered yet is missed by a compaction.
LEMMA SoloFaltanPaso ==
    ASSUME KInv, [Next]_vars
    PROVE  SoloFaltanSinRegistrar'
<1>1. CASE UNCHANGED vars
  BY <1>1 DEF KInv, SoloFaltanSinRegistrar, vars, memoria, pcbs, hilos
<1>2. CASE RecibirCompactacion
  <2>1. UNCHANGED <<tablas_segmentos, procesos_en_kernel, consola>>
    BY <1>2 DEF RecibirCompactacion, HiloCpu, memoria
  <2>2. \A p \in DOMAIN tablas_segmentos \ procesos_en_kernel : consola[p] = "registra"
    <3> SUFFICES ASSUME NEW p \in DOMAIN tablas_segmentos \ procesos_en_kernel
                 PROVE  consola[p] = "registra"
      OBVIOUS
    <3>1. /\ p \in Proc /\ estado_actual[p] # "EXIT"
          /\ consola[p] \in {"inicio", "registra", "espera", "destruye", "fin"}
          /\ estado_actual[p] = "NEW" => plp.pc = "recibe" /\ plp.pcb = p
      BY DEF KInv, Tipos, TipoKernelMemoria, TablasDeAdmitidos
    <3>2. consola[p] \in {"inicio", "registra"}
      BY <3>1 DEF KInv, ConsolasEnOrden
    <3>3. consola[p] = "inicio" => estado_actual[p] = "NEW" /\ NoEsta(cola_new, p)
      BY <3>1 DEF KInv, ConsolasEnOrden
    <3>4. plp.pc = "recibe" => plp.pcb = cola_new[1] /\ 1 \in 1..Len(cola_new)
      BY PcbsTomados
    <3>. QED
      BY <3>1, <3>2, <3>3, <3>4 DEF NoEsta
  <2>. QED
    BY <2>1, <2>2 DEF SoloFaltanSinRegistrar
<1>3. ASSUME Next, ~RecibirCompactacion
      PROVE  caido' # "pcb_sin_registrar"
  <2>1. CASE \E p \in Proc : \/ ConsolaCreaProceso(p) \/ ConsolaRegistra(p)
                             \/ ConsolaRetira(p) \/ ConsolaDestruye(p)
    BY <2>1 DEF ConsolaCreaProceso, ConsolaRegistra, ConsolaRetira, ConsolaDestruye
  <2>2. CASE \/ PlanificadorLargoPlazo \/ Despacha \/ CpuDevuelve \/ RecibirLeido
             \/ RecibirAjena
    BY <2>2 DEF PlanificadorLargoPlazo, PlpEspera, PlpPide, PlpRecibe, Leer, HayRespuesta,
       Despacha, CpuDevuelve, RecibirLeido, RecibirAjena
  <2>3. CASE \/ PedirSegmento \/ RecibirTabla \/ RecibirFaltaCompactar \/ PedirCompactacion
             \/ RecibirReenvio \/ RecibirOutOfMemory \/ ProcesarExit
    BY <2>3 DEF PedirSegmento, RecibirTabla, RecibirFaltaCompactar, PedirCompactacion,
       RecibirReenvio, RecibirOutOfMemory, ProcesarExit, HiloCpu
  <2>4. CASE \/ PedirEliminarTabla \/ RecibirTablaEliminada \/ HiloCpuLibera
             \/ HiloCpuSuelta \/ HiloCpuDecide \/ ProcesarFRead
    BY <2>4 DEF PedirEliminarTabla, RecibirTablaEliminada, HiloCpuLibera, HiloCpuSuelta,
       HiloCpuDecide, ProcesarFRead, HiloCpu
  <2>5. CASE Memoria
    BY <2>5, PasoDeMemoria DEF EfectoDeMemoria
  <2>. QED
    BY <1>3, <2>1, <2>2, <2>3, <2>4, <2>5 DEF Next, ManejarRespuestaCpu
<1>. QED
  BY <1>1, <1>2, <1>3 DEF SoloFaltanSinRegistrar

\* The thread handles an instruction of the program, and nobody runs past its end.
LEMMA ProgramaPaso ==
    ASSUME KInv, [Next]_vars
    PROVE  ProgramaEnCurso'
<1>1. /\ ProgramaEnCurso /\ Tipos /\ hilo_cpu \in TipoHiloCpu /\ NoProc \notin Proc
      /\ programa \in [Proc -> Seq(Instruccion)] /\ program_counter \in [Proc -> Nat]
      /\ consola \in [Proc -> {"inicio", "registra", "espera", "destruye", "fin"}]
  BY HilosFacts DEF KInv, Tipos, TipoKernelMemoria
<1>2. CASE /\ UNCHANGED <<programa, program_counter>>
           /\ \A p \in Proc : consola'[p] = "inicio" => consola[p] = "inicio"
           /\ hilo_cpu'.pc # "espera" =>
                 hilo_cpu.pc # "espera" /\ hilo_cpu'.pcb = hilo_cpu.pcb
  BY <1>1, <1>2 DEF ProgramaEnCurso
<1>3. CASE \E p \in Proc : ConsolaRegistra(p) \/ ConsolaRetira(p) \/ ConsolaDestruye(p)
  BY <1>1, <1>2, <1>3 DEF ConsolaRegistra, ConsolaRetira, ConsolaDestruye
<1>4. CASE \/ PlanificadorLargoPlazo \/ Despacha \/ RecibirAjena \/ RecibirLeido
           \/ UNCHANGED vars
  BY <1>2, <1>4 DEF PlanificadorLargoPlazo, PlpEspera, PlpPide, PlpRecibe, Despacha,
     RecibirAjena, RecibirLeido, pcbs, hilos, vars
<1>5. CASE Memoria
  BY <1>2, <1>5, PasoDeMemoria DEF EfectoDeMemoria, pcbs, hilos
<1>6. CASE SigueOcupado
  BY <1>2, <1>6, SigueOcupadoFacts DEF Ocupado
<1>7. CASE HiloCpuLibera \/ HiloCpuSuelta \/ HiloCpuDecide
  <2>1. \/ HiloCpu("libera", "suelta") \/ HiloCpu("libera", "espera")
        \/ HiloCpu("suelta", "decide") \/ HiloCpu("decide", "espera")
    BY <1>7 DEF HiloCpuLibera, HiloCpuSuelta, HiloCpuDecide
  <2>2. /\ hilo_cpu.pc # "espera" /\ hilo_cpu'.pcb = hilo_cpu.pcb
        /\ UNCHANGED <<programa, program_counter, consola>>
    BY <1>1, <2>1, PasoDeHilo
  <2>. QED
    BY <1>2, <2>2
<1>8. ASSUME NEW p \in Proc, ConsolaCreaProceso(p)
      PROVE  ProgramaEnCurso'
  <2>1. /\ consola[p] = "inicio" /\ consola' = [consola EXCEPT ![p] = "registra"]
        /\ UNCHANGED <<program_counter, hilo_cpu>>
    BY <1>8 DEF ConsolaCreaProceso
  <2>2. PICK prg \in Programas : programa' = [programa EXCEPT ![p] = prg]
    BY <1>8 DEF ConsolaCreaProceso
  <2>3. program_counter[p] = 0 /\ Len(prg) \in Nat /\ programa'[p] = prg
    BY <1>1, <2>1, <2>2, KernelMemoriaAssumption DEF ProgramaEnCurso
  <2>4. \A q \in Proc : program_counter[q] <= Len(programa'[q])
    BY <1>1, <2>2, <2>3 DEF ProgramaEnCurso
  <2>. QED
    BY <1>1, <2>1, <2>4 DEF ProgramaEnCurso
<1>9. CASE CpuDevuelve
  <2>1. /\ en_cpu.pcb # NoProc /\ program_counter[en_cpu.pcb] < Len(programa[en_cpu.pcb])
        /\ program_counter' = [program_counter EXCEPT ![en_cpu.pcb] = @ + 1]
        /\ hilo_cpu'.pcb = en_cpu.pcb /\ UNCHANGED <<programa, consola>>
    BY <1>9 DEF CpuDevuelve
  <2>2. en_cpu.pcb \in Proc /\ consola[en_cpu.pcb] # "inicio"
    BY <2>1, PcbsTomados DEF KInv, ConsolasEnOrden
  <2>3. programa[en_cpu.pcb] \in Seq(Instruccion) /\ Len(programa[en_cpu.pcb]) \in Nat
    BY <1>1, <2>2
  <2>4. \A q \in Proc : program_counter'[q] <= Len(programa'[q])
    BY <1>1, <2>1, <2>2, <2>3 DEF ProgramaEnCurso
  <2>5. \A q \in Proc : consola'[q] = "inicio" => program_counter'[q] = 0
    BY <1>1, <2>1, <2>2 DEF ProgramaEnCurso
  <2>6. program_counter'[hilo_cpu'.pcb] >= 1
    BY <1>1, <2>1, <2>2
  <2>. QED
    BY <2>4, <2>5, <2>6 DEF ProgramaEnCurso
<1>. QED
  BY <1>3, <1>4, <1>5, <1>6, <1>7, <1>8, <1>9 DEF Next, ManejarRespuestaCpu, SigueOcupado

\* A read of a file and a compaction exclude each other.
LEMMA SinLecturasPaso ==
    ASSUME KInv, [Next]_vars
    PROVE  CompactacionSinLecturas'
<1>1. /\ CompactacionSinLecturas /\ Tipos /\ hilo_cpu \in TipoHiloCpu
      /\ puede_compactar \in BOOLEAN
  BY HilosFacts DEF KInv
<1>2. CASE /\ UNCHANGED <<puede_compactar, lectura>>
           /\ \/ hilo_cpu'.pc \notin {"recibe_compactacion", "recibe_reenvio"}
              \/ hilo_cpu.pc \in {"recibe_compactacion", "recibe_reenvio"}
  BY <1>1, <1>2 DEF CompactacionSinLecturas
<1>3. CASE \/ \E p \in Proc : \/ ConsolaCreaProceso(p) \/ ConsolaRegistra(p)
                              \/ ConsolaRetira(p) \/ ConsolaDestruye(p)
           \/ PlpEspera \/ PlpPide \/ PlpRecibe \/ RecibirAjena \/ UNCHANGED vars
           \/ Despacha
  <2>1. UNCHANGED <<puede_compactar, lectura, hilo_cpu>>
    BY <1>3 DEF ConsolaCreaProceso, ConsolaRegistra, ConsolaRetira, ConsolaDestruye,
       PlpEspera, PlpPide, PlpRecibe, RecibirAjena, Despacha, hilos, cerrojos, vars
  <2>. QED
    BY <1>2, <2>1
<1>4. CASE Memoria
  <2>1. UNCHANGED <<puede_compactar, lectura, hilo_cpu>>
    BY <1>4, PasoDeMemoria DEF EfectoDeMemoria, hilos, cerrojos
  <2>. QED
    BY <1>2, <2>1
<1>5. CASE CpuDevuelve \/ RecibirOutOfMemory
  <2>1. UNCHANGED <<puede_compactar, lectura>>
    BY <1>5 DEF CpuDevuelve, RecibirOutOfMemory, cerrojos
  <2>2. hilo_cpu'.pc \in {"procesa", "elimina"}
    <3>1. CASE CpuDevuelve
      BY <3>1 DEF CpuDevuelve
    <3>2. CASE RecibirOutOfMemory
      BY <1>1, <3>2 DEF RecibirOutOfMemory, TipoHiloCpu
    <3>. QED
      BY <1>5, <3>1, <3>2
  <2>. QED
    BY <1>2, <2>1, <2>2
<1>6. CASE \/ PedirSegmento \/ RecibirTabla \/ RecibirFaltaCompactar \/ ProcesarExit
           \/ PedirEliminarTabla \/ RecibirTablaEliminada
           \/ HiloCpuLibera \/ HiloCpuSuelta \/ HiloCpuDecide
  <2>1. /\ \E d, h : /\ HiloCpu(d, h)
                     /\ h \notin {"recibe_compactacion", "recibe_reenvio"}
        /\ UNCHANGED <<puede_compactar, lectura>>
    BY <1>6 DEF PedirSegmento, RecibirTabla, RecibirFaltaCompactar, ProcesarExit,
       PedirEliminarTabla, RecibirTablaEliminada, HiloCpuLibera, HiloCpuSuelta,
       HiloCpuDecide, cerrojos
  <2>2. hilo_cpu'.pc \notin {"recibe_compactacion", "recibe_reenvio"}
    BY <1>1, <2>1, PasoDeHilo
  <2>. QED
    BY <1>2, <2>1, <2>2
<1>7. CASE PedirCompactacion
  <2>1. puede_compactar /\ puede_compactar' = FALSE /\ UNCHANGED lectura
    BY <1>7 DEF PedirCompactacion
  <2>. QED
    BY <1>1, <2>1 DEF CompactacionSinLecturas
<1>8. CASE RecibirCompactacion
  <2>1. /\ hilo_cpu.pc = "recibe_compactacion" /\ UNCHANGED <<puede_compactar, lectura>>
    BY <1>8 DEF RecibirCompactacion, HiloCpu, cerrojos
  <2>. QED
    BY <1>2, <2>1
<1>9. CASE RecibirReenvio
  <2>1. HiloCpu("recibe_reenvio", "suelta") /\ UNCHANGED lectura
    BY <1>9 DEF RecibirReenvio
  <2>2. hilo_cpu.pc = "recibe_reenvio" /\ hilo_cpu'.pc = "suelta"
    BY <1>1, <2>1, PasoDeHilo
  <2>. QED
    BY <1>1, <2>1, <2>2 DEF CompactacionSinLecturas
<1>10. CASE ProcesarFRead
  <2>1. HiloCpu("procesa", "libera") /\ puede_compactar' = FALSE
    BY <1>10 DEF ProcesarFRead
  <2>2. hilo_cpu'.pc = "libera"
    BY <1>1, <2>1, PasoDeHilo
  <2>. QED
    BY <2>1, <2>2 DEF CompactacionSinLecturas
<1>11. CASE RecibirLeido
  <2>1. lectura.pcb # NoProc /\ lectura'.pcb = NoProc /\ UNCHANGED hilo_cpu
    BY <1>11 DEF RecibirLeido, SinContexto
  <2>. QED
    BY <1>1, <2>1 DEF CompactacionSinLecturas
<1>. QED
  BY <1>3, <1>4, <1>5, <1>6, <1>7, <1>8, <1>9, <1>10, <1>11
  DEF Next, PlanificadorLargoPlazo, ManejarRespuestaCpu

\* The thread asks for a compaction only while the bound allows one more.
LEMMA CompactacionesPaso ==
    ASSUME KInv, [Next]_vars
    PROVE  CompactacionesAcotadas'
<1> DEFINE s == hacia_memoria
           t == desde_memoria
           Queda == compactaciones < MAX_COMPACTACIONES
           Pedidas(u) == \A i \in 1..Len(u) : u[i].op = "COMPACT" => Queda
           Faltas(u) == \A i \in 1..Len(u) : u[i].op = "NEEDS_TO_COMPACT" => Queda
           Espera == Queda \/ (~puede_compactar /\ lectura.pcb = NoProc)
<1>1. /\ CompactacionesAcotadas /\ CompactacionSinLecturas /\ Tipos
      /\ hilo_cpu \in TipoHiloCpu /\ puede_compactar \in BOOLEAN
      /\ s \in Seq(Pedido) /\ t \in Seq(Respuesta)
      /\ Correo(s, t, plp, hilo_cpu)
  BY HilosFacts DEF KInv, Tipos, TipoKernelMemoria, Mensajes
<1>2. Correo(s', t', plp', hilo_cpu')
  BY MensajesPaso DEF Mensajes
<1>3. /\ \A i \in 1..Len(s') : s'[i].op = "COMPACT" => hilo_cpu'.pc = "recibe_compactacion"
      /\ \A i \in 1..Len(t') : t'[i].op = "NEEDS_TO_COMPACT" =>
            hilo_cpu'.pc \in {"recibe", "recibe_reenvio"}
  BY <1>2 DEF Correo, PedidoPropio, RespuestaEsperada
<1>4. /\ Pedidas(s)
      /\ hilo_cpu.pc # "recibe_reenvio" => Faltas(t)
      /\ hilo_cpu.pc = "pide_compactar" => Espera
  BY <1>1 DEF CompactacionesAcotadas
<1>5. ASSUME hilo_cpu'.pc = "recibe_compactacion" => Pedidas(s)',
             hilo_cpu'.pc = "recibe" => Faltas(t)',
             hilo_cpu'.pc = "pide_compactar" => Espera'
      PROVE  CompactacionesAcotadas'
  BY <1>3, <1>5 DEF CompactacionesAcotadas
<1>6. CASE /\ UNCHANGED <<s, t, compactaciones, hilo_cpu, lectura>>
           /\ puede_compactar' = puede_compactar
  BY <1>1, <1>6 DEF CompactacionesAcotadas
<1>7. CASE \/ \E p \in Proc : \/ ConsolaCreaProceso(p) \/ ConsolaRegistra(p)
                              \/ ConsolaRetira(p) \/ ConsolaDestruye(p)
           \/ PlpEspera \/ RecibirAjena \/ UNCHANGED vars \/ Despacha
  BY <1>6, <1>7 DEF ConsolaCreaProceso, ConsolaRegistra, ConsolaRetira, ConsolaDestruye,
     PlpEspera, RecibirAjena, Despacha, hilos, cerrojos, memoria, enlace, vars
<1>8. CASE PlpPide
  <2> DEFINE m == [hilo |-> "plp", op |-> "CREATE_TABLE", pid |-> plp.pcb, id |-> 0]
  <2>1. /\ s' = Append(s, m) /\ plp.pc = "pide"
        /\ UNCHANGED <<t, compactaciones, hilo_cpu, lectura, puede_compactar>>
    BY <1>8 DEF PlpPide, Enviar, memoria
  <2>2. m \in Pedido /\ m.op # "COMPACT"
    BY <1>1, <2>1 DEF Tipos, Pedido, Hilos
  <2> HIDE DEF m
  <2>3. \A i \in 1..Len(s') : (i \in 1..Len(s) /\ s'[i] = s[i]) \/ s'[i] = m
    <3>1. /\ Len(s) \in Nat /\ Len(s') = Len(s) + 1 /\ s'[Len(s) + 1] = m
          /\ \A i \in 1..Len(s) : s'[i] = s[i]
      BY <1>1, <2>1, <2>2, AppendFacts
    <3>. QED
      BY <3>1
  <2>4. Pedidas(s)'
    BY <1>4, <2>1, <2>2, <2>3
  <2>. QED
    BY <1>4, <1>5, <2>1, <2>4
<1>9. CASE PlpRecibe
  <2>1. /\ Leer("plp", {"TABLE_CREATED"})
        /\ UNCHANGED <<s, compactaciones, hilo_cpu, lectura, puede_compactar>>
    BY <1>9 DEF PlpRecibe, memoria
  <2>2. t # <<>> /\ t' = Tail(t)
    BY <2>1, PasoQueLee
  <2>3. \A i \in 1..Len(t') : i + 1 \in 1..Len(t) /\ t'[i] = t[i + 1]
    BY <1>1, <2>2, TailFacts
  <2>4. hilo_cpu'.pc = "recibe" => Faltas(t)'
    BY <1>4, <2>1, <2>3
  <2>. QED
    BY <1>4, <1>5, <2>1, <2>4
<1>10. CASE CpuDevuelve \/ RecibirOutOfMemory
  <2>1. CASE CpuDevuelve
    <3>1. hilo_cpu'.pc = "procesa"
      BY <2>1 DEF CpuDevuelve
    <3>. QED
      BY <1>5, <3>1
  <2>2. CASE RecibirOutOfMemory
    <3>1. hilo_cpu'.pc = "elimina"
      BY <1>1, <2>2 DEF RecibirOutOfMemory, TipoHiloCpu
    <3>. QED
      BY <1>5, <3>1
  <2>. QED
    BY <1>10, <2>1, <2>2
<1>11. CASE \/ RecibirTabla \/ RecibirCompactacion \/ RecibirReenvio \/ ProcesarExit
            \/ PedirEliminarTabla \/ RecibirTablaEliminada
            \/ HiloCpuLibera \/ HiloCpuSuelta \/ HiloCpuDecide \/ ProcesarFRead
  <2>1. \E d, h : HiloCpu(d, h) /\ h \notin {"recibe", "pide_compactar",
                                             "recibe_compactacion"}
    BY <1>11 DEF RecibirTabla, RecibirCompactacion, RecibirReenvio, ProcesarExit,
       PedirEliminarTabla, RecibirTablaEliminada, HiloCpuLibera, HiloCpuSuelta,
       HiloCpuDecide, ProcesarFRead
  <2>2. hilo_cpu'.pc \notin {"recibe", "pide_compactar", "recibe_compactacion"}
    BY <1>1, <2>1, PasoDeHilo
  <2>. QED
    BY <1>5, <2>2
<1>12. CASE PedirSegmento
  <2>1. HiloCpu("procesa", "recibe") /\ UNCHANGED t
    BY <1>12 DEF PedirSegmento
  <2>2. hilo_cpu.pc = "procesa" /\ hilo_cpu'.pc = "recibe" /\ UNCHANGED compactaciones
    BY <1>1, <2>1, PasoDeHilo
  <2>. QED
    BY <1>4, <1>5, <2>1, <2>2
<1>13. CASE PedirCompactacion
  <2>1. HiloCpu("pide_compactar", "recibe_compactacion") /\ puede_compactar
    BY <1>13 DEF PedirCompactacion
  <2>2. /\ hilo_cpu.pc = "pide_compactar" /\ hilo_cpu'.pc = "recibe_compactacion"
        /\ UNCHANGED compactaciones
    BY <1>1, <2>1, PasoDeHilo
  <2>3. Queda'
    BY <1>4, <2>1, <2>2
  <2>. QED
    BY <1>5, <2>2, <2>3
<1>14. CASE RecibirFaltaCompactar
  <2>1. /\ HiloCpu("recibe", "pide_compactar") \/ HiloCpu("recibe_reenvio", "pide_compactar")
        /\ Leer("cpu", {"NEEDS_TO_COMPACT"}) /\ UNCHANGED <<lectura, puede_compactar>>
    BY <1>14 DEF RecibirFaltaCompactar, cerrojos
  <2>2. /\ hilo_cpu.pc \in {"recibe", "recibe_reenvio"} /\ hilo_cpu'.pc = "pide_compactar"
        /\ UNCHANGED compactaciones
    BY <1>1, <2>1, PasoDeHilo
  <2>3. t # <<>> /\ Leida.op = "NEEDS_TO_COMPACT"
    BY <2>1, PasoQueLee
  <2>4. 1 \in 1..Len(t) /\ t[1].op = "NEEDS_TO_COMPACT"
    BY <1>1, <2>3, TailFacts DEF Leida
  <2>5. Espera
    BY <1>1, <1>4, <2>2, <2>4 DEF CompactacionSinLecturas
  <2>. QED
    BY <1>5, <2>1, <2>2, <2>5
<1>15. CASE RecibirLeido
  <2>1. /\ lectura.pcb # NoProc /\ UNCHANGED <<s, t, compactaciones, hilo_cpu>>
    BY <1>15 DEF RecibirLeido, enlace, memoria
  <2>. QED
    BY <1>4, <1>5, <2>1
<1>16. CASE Memoria
  <2>1. PICK a \in Respuesta : EfectoDeMemoria(a)
    BY <1>16, PasoDeMemoria
  <2>2. /\ s # <<>> /\ s' = Tail(s) /\ t' = Append(t, a) /\ a.hilo = Head(s).hilo
        /\ UNCHANGED <<hilo_cpu, lectura, puede_compactar>>
    BY <2>1 DEF EfectoDeMemoria, hilos, cerrojos
  <2>3. CASE EfectoCompacta(a)
    <3>1. /\ a.hilo = "cpu" /\ hilo_cpu.pc = "recibe_compactacion"
      BY <2>3 DEF EfectoCompacta
    <3>2. SinMensajes("cpu", s')
      BY <1>1, <2>2, <3>1, CorreoAtiende
    <3>3. \A i \in 1..Len(s') : s'[i].op # "COMPACT"
      BY <1>2, <3>2 DEF Correo, PedidoPropio, SinMensajes
    <3>. QED
      BY <1>5, <2>2, <3>1, <3>3
  <2>4. CASE ~EfectoCompacta(a)
    <3>1. /\ UNCHANGED compactaciones
          /\ a.op = "NEEDS_TO_COMPACT" => Queda \/ hilo_cpu.pc = "recibe_reenvio"
      BY <2>1, <2>4 DEF EfectoDeMemoria, EfectoCreaTabla, EfectoEliminaTabla,
         EfectoCambiaTabla, EfectoRechaza
    <3>2. \A i \in 1..Len(s') : i + 1 \in 1..Len(s) /\ s'[i] = s[i + 1]
      BY <1>1, <2>2, TailFacts
    <3>3. \A i \in 1..Len(t') : (i \in 1..Len(t) /\ t'[i] = t[i]) \/ t'[i] = a
      <4>1. /\ Len(t) \in Nat /\ Len(t') = Len(t) + 1 /\ t'[Len(t) + 1] = a
            /\ \A i \in 1..Len(t) : t'[i] = t[i]
        BY <1>1, <2>2, AppendFacts
      <4>. QED
        BY <4>1
    <3>4. Pedidas(s)'
      BY <1>4, <3>1, <3>2
    <3>5. hilo_cpu'.pc = "recibe" => Faltas(t)'
      BY <1>4, <2>2, <3>1, <3>3
    <3>. QED
      BY <1>4, <1>5, <2>2, <3>1, <3>4, <3>5
  <2>. QED
    BY <2>3, <2>4
<1>. QED
  BY <1>7, <1>8, <1>9, <1>10, <1>11, <1>12, <1>13, <1>14, <1>15, <1>16
  DEF Next, PlanificadorLargoPlazo, ManejarRespuestaCpu

-----------------------------------------------------------------------------
(* The theorems *)

\* The invariant holds at the start.
LEMMA InitKInv == Init => KInv
<1> SUFFICES ASSUME Init
             PROVE  KInv
  OBVIOUS
<1>1. /\ TablaVacia \in Tabla /\ NoProc \notin Proc /\ MAX_COMPACTACIONES \in Nat
  BY TablaVaciaFacts, KernelMemoriaAssumption
<1>2. /\ cola_new = <<>> /\ cola_ready = <<>> /\ cola_exit = <<>>
      /\ hacia_memoria = <<>> /\ desde_memoria = <<>>
      /\ DOMAIN tablas_segmentos = {}
      /\ plp.pc = "espera" /\ hilo_cpu.pc = "espera" /\ ~hilo_cpu.oom
      /\ en_cpu.pcb = NoProc /\ lectura.pcb = NoProc
      /\ mutex_socket_memoria = TRUE /\ puede_compactar = TRUE /\ desbloqueo_de_mas = FALSE
      /\ cpu_liberada = 1 /\ caido = "no" /\ destruidos = {}
  BY DEF Init, SinContexto
<1>3. \A p \in Proc : /\ estado_actual[p] = "NEW" /\ consola[p] = "inicio"
                      /\ program_counter[p] = 0 /\ programa[p] = <<>>
  BY DEF Init
<1>4. tablas_segmentos \in Tablas
  <2>1. tablas_segmentos \in [{} -> Tabla]
    BY DEF Init
  <2>. QED
    BY <2>1, TablasFacts
<1>5. Tipos
  <2>1. /\ programa \in [Proc -> Seq(Instruccion)] /\ program_counter \in [Proc -> Nat]
        /\ estado_actual \in [Proc -> {"NEW", "READY", "EXEC", "BLOCK", "EXIT"}]
        /\ tabla_segmento \in [Proc -> Tabla]
        /\ motivo \in [Proc -> {"NOT_DEFINED", "SUCCESS", "OUT_OF_MEMORY"}]
        /\ consola \in [Proc -> {"inicio", "registra", "espera", "destruye", "fin"}]
    BY <1>1 DEF Init
  <2>2. /\ cola_new \in Seq(Proc) /\ cola_ready \in Seq(Proc) /\ cola_exit \in Seq(Proc)
        /\ hacia_memoria \in Seq(Pedido) /\ desde_memoria \in Seq(Respuesta)
        /\ \A i \in DOMAIN desde_memoria : desde_memoria[i].op \in Respuestas
    BY <1>2
  <2>3. /\ plp \in [pc : {"espera", "pide", "recibe"}, pcb : ProcONull]
        /\ hilo_cpu \in TipoHiloCpu
        /\ en_cpu \in [pcb : ProcONull, tabla : Tabla]
        /\ lectura \in [pcb : ProcONull, tabla : Tabla]
    BY <1>1 DEF Init, SinContexto, TipoHiloCpu, ProcONull
  <2>4. compactaciones \in 0..MAX_COMPACTACIONES /\ sem_nuevo_proceso = 0
        /\ procesos_en_kernel = {}
    BY <1>1 DEF Init
  <2>5. TipoKernelMemoria
    <3>1. /\ destruidos \subseteq Proc /\ procesos_en_kernel \subseteq Proc
          /\ {cola_new, cola_ready, cola_exit} \subseteq Seq(Proc)
          /\ {cpu_liberada, sem_nuevo_proceso} \subseteq Nat
      BY <1>2, <2>2, <2>4
    <3>3. {mutex_socket_memoria, puede_compactar, desbloqueo_de_mas} \subseteq BOOLEAN
      <4>1. /\ mutex_socket_memoria \in BOOLEAN /\ puede_compactar \in BOOLEAN
            /\ desbloqueo_de_mas \in BOOLEAN
        BY DEF Init
      <4>. QED
        BY <4>1
    <3>2. /\ DOMAIN tablas_segmentos \subseteq Proc
          /\ \A p \in DOMAIN tablas_segmentos : tablas_segmentos[p] \in Tabla
          /\ caido \in {"no", "pcb_sin_registrar", "pcb_liberado", "respuesta_ajena"}
      BY <1>2
    <3>. QED
      BY <2>1, <2>2, <2>3, <2>4, <3>1, <3>2, <3>3 DEF TipoKernelMemoria, TipoHiloCpu
  <2>. QED
    BY <1>2, <1>4, <2>2, <2>5 DEF Tipos
<1>6. ProgramaEnCurso
  BY <1>2, <1>3 DEF ProgramaEnCurso
<1>7. Mensajes
  BY <1>2 DEF Mensajes, Correo, UnoPorHilo
<1>8. UnDuenoDelSocket /\ CompactacionSinLecturas /\ CompactacionesAcotadas
  BY <1>2 DEF UnDuenoDelSocket, TieneSocket, CompactacionSinLecturas, CompactacionesAcotadas
<1>9. TestigoDeCpu /\ EstadosDelHilo
  BY <1>2 DEF TestigoDeCpu, EstadosDelHilo, Ocupado, Terminado
<1>10. ColasPuras /\ ConsolasEnOrden
  BY <1>2, <1>3 DEF ColasPuras, ConsolasEnOrden, SinRepetir, Todos, NoEsta
<1>11. TablasDeAdmitidos /\ TablasEnCamino
  BY <1>2, <1>3 DEF TablasDeAdmitidos, TablasEnCamino
<1>12. CopiasVigentes /\ RespuestaPropia /\ SoloFaltanSinRegistrar
  BY <1>2 DEF CopiasVigentes, Vigente, RespuestaPropia, SoloFaltanSinRegistrar
<1>. QED
  BY <1>5, <1>6, <1>7, <1>8, <1>9, <1>10, <1>11, <1>12 DEF KInv

\* Every step keeps it.
LEMMA PasoKInv == KInv /\ [Next]_vars => KInv'
<1> SUFFICES ASSUME KInv, [Next]_vars
             PROVE  KInv'
  OBVIOUS
<1>1. /\ Tipos' /\ ProgramaEnCurso' /\ Mensajes' /\ UnDuenoDelSocket'
  BY TiposPaso, ProgramaPaso, MensajesPaso, SocketPaso
<1>2. /\ CompactacionSinLecturas' /\ CompactacionesAcotadas' /\ TestigoDeCpu'
  BY SinLecturasPaso, CompactacionesPaso, TestigoPaso
<1>3. /\ EstadosDelHilo' /\ ColasPuras' /\ ConsolasEnOrden' /\ TablasDeAdmitidos'
  BY EstadosPaso, ColasPaso, ConsolasPaso, TablasDeAdmitidosPaso
<1>4. /\ caido' = "no" => TablasEnCamino'
      /\ CopiasVigentes' /\ RespuestaPropia' /\ SoloFaltanSinRegistrar'
  BY EnCaminoPaso, CopiasPaso, RespuestaPropiaPaso, SoloFaltanPaso
<1>. QED
  BY <1>1, <1>2, <1>3, <1>4 DEF KInv

\* The invariant holds in every state the Kernel and Memoria reach, for every set of
\* processes and of programs and every bound of compactions (planificador_utils.c:490-620,
\* i_cpu.c:60-330).
THEOREM InvarianteDelKernelConMemoria == Spec => []KInv
<1>1. Init => KInv
  BY InitKInv
<1>2. KInv /\ [Next]_vars => KInv'
  BY PasoKInv
<1>. QED
  BY <1>1, <1>2, PTL DEF Spec

\* The variables of the Kernel and of Memoria have their types.
THEOREM TiposDelKernelConMemoria == Spec => []TipoKernelMemoria
<1>1. KInv => TipoKernelMemoria
  BY DEF KInv, Tipos
<1>. QED
  BY <1>1, InvarianteDelKernelConMemoria, PTL

\* The addresses the CPU and an F_READ on its way work with are those of Memoria,
\* although compactions asked for other processes move the segments under them
\* (planificador_utils.c:517-529, 564-599, i_cpu.c:103).
THEOREM NingunaDireccionVieja == Spec => []DireccionesVigentes
<1>1. KInv => DireccionesVigentes
  BY DEF KInv, CopiasVigentes, DireccionesVigentes
<1>. QED
  BY <1>1, InvarianteDelKernelConMemoria, PTL

\* Two threads share the socket of Memoria and none reads the answer of the other, until
\* the unlock too many of an OUT_OF_MEMORY (planificador_utils.c:511, i_cpu.c:308).
THEOREM CadaHiloLeeLaSuya == Spec => []RespuestaPropia
<1>1. KInv => RespuestaPropia
  BY DEF KInv
<1>. QED
  BY <1>1, InvarianteDelKernelConMemoria, PTL

\* A compaction misses a pcb only in the window of its console between cola_new and
\* procesos_en_kernel (i_console.c:70-72).
THEOREM LaCompactacionSoloOmiteNuevos == Spec => []SoloFaltanSinRegistrar
<1>1. KInv => SoloFaltanSinRegistrar
  BY DEF KInv
<1>. QED
  BY <1>1, InvarianteDelKernelConMemoria, PTL

\* The thread of the CPU works on a pcb its console has freed only after an
\* OUT_OF_MEMORY of that process, or to release the CPU (i_cpu.c:123).
THEOREM NoTocaPcbsLiberados == Spec => []PcbVivo
<1>1. KInv => PcbVivo
  <2> SUFFICES ASSUME KInv, hilo_cpu.pcb \in destruidos, hilo_cpu.pc # "espera",
                      hilo_cpu.pc # "libera"
               PROVE  motivo[hilo_cpu.pcb] = "OUT_OF_MEMORY"
    BY DEF PcbVivo
  <2>1. hilo_cpu.pcb \in Proc
    BY DEF KInv, Tipos
  <2>2. estado_actual[hilo_cpu.pcb] = "EXIT"
    BY <2>1 DEF KInv, ConsolasEnOrden
  <2>3. Terminado
    BY <2>2 DEF KInv, EstadosDelHilo, Ocupado
  <2>. QED
    BY <2>3 DEF KInv, EstadosDelHilo, Terminado
<1>. QED
  BY <1>1, InvarianteDelKernelConMemoria, PTL

=============================================================================

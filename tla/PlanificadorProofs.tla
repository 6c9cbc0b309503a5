------------------------- MODULE PlanificadorProofs -------------------------
(***************************************************************************)
(* The invariant IInv of Planificador is inductive, for every set of       *)
(* processes and resources, every degree, both algorithms and every set of *)
(* programs.  One lemma per action; Marco says which variables each part   *)
(* of IInv reads, so that a lemma argues only about the parts its action   *)
(* disturbs.                                                               *)
(***************************************************************************)
EXTENDS Planificador, SequenceTheorems, FiniteSetTheorems, TLAPS

\* What the pop of a non-empty queue leaves, and what it takes.
LEMMA TailFacts ==
    ASSUME NEW S, NEW s \in Seq(S), s # <<>>
    PROVE  /\ Len(s) \in Nat /\ Len(s) > 0
           /\ Head(s) \in S /\ Head(s) = s[1]
           /\ Tail(s) \in Seq(S)
           /\ Len(Tail(s)) = Len(s) - 1
           /\ \A i \in 1..Len(Tail(s)) : i + 1 \in 1..Len(s) /\ Tail(s)[i] = s[i + 1]
BY SMT

\* What the push of an element leaves.
LEMMA AppendFacts ==
    ASSUME NEW S, NEW s \in Seq(S), NEW e \in S
    PROVE  /\ Append(s, e) \in Seq(S)
           /\ Len(Append(s, e)) = Len(s) + 1
           /\ \A i \in 1..Len(s) : Append(s, e)[i] = s[i]
           /\ Append(s, e)[Len(s) + 1] = e
BY SMT

\* A queue of one pcb is the pcb it holds.
LEMMA ColaDeUno ==
    ASSUME NEW S, NEW s \in Seq(S), Len(s) = 1
    PROVE  s = <<s[1]>> /\ s[1] \in S /\ Head(s) = s[1]
<1>1. s[1] \in S /\ Head(s) = s[1]
  BY SMT
<1>2. <<s[1]>> \in Seq(S) /\ Len(<<s[1]>>) = 1 /\ <<s[1]>>[1] = s[1]
  BY <1>1
<1>3. s = <<s[1]>>
  BY <1>2, SeqEqual
<1>. QED
  BY <1>1, <1>3

\* The insertion of HRRN keeps the queue and opens one place in it.
LEMMA InsertarEnOrdenFacts ==
    ASSUME NEW S, NEW s \in Seq(S), NEW e \in S, NEW t \in InsertarEnOrden(s, e)
    PROVE  /\ t \in Seq(S)
           /\ Len(t) = Len(s) + 1
           /\ \E k \in 0..Len(s) :
                \A i \in 1..Len(t) :
                    t[i] = IF i <= k THEN s[i] ELSE IF i = k + 1 THEN e ELSE s[i - 1]
<1>1. PICK k \in 0..Len(s) : t = SubSeq(s, 1, k) \o <<e>> \o SubSeq(s, k + 1, Len(s))
  BY DEF InsertarEnOrden
<1> DEFINE a == SubSeq(s, 1, k)
           b == SubSeq(s, k + 1, Len(s))
<1>2. a \in Seq(S) /\ Len(a) = k /\ \A i \in 1..k : a[i] = s[i]
  OBVIOUS
<1>3. b \in Seq(S) /\ Len(b) = Len(s) - k /\ \A i \in 1..Len(b) : b[i] = s[k + i]
  OBVIOUS
<1>4. <<e>> \in Seq(S) /\ Len(<<e>>) = 1 /\ <<e>>[1] = e
  OBVIOUS
<1> HIDE DEF a, b
<1>5. a \o <<e>> \in Seq(S) /\ Len(a \o <<e>>) = k + 1
  BY <1>2, <1>4
<1>6. \A i \in 1..(k + 1) : (a \o <<e>>)[i] = IF i <= k THEN s[i] ELSE e
  BY <1>2, <1>4
<1>7. t = (a \o <<e>>) \o b
  BY <1>1 DEF a, b
<1>8. t \in Seq(S) /\ Len(t) = Len(s) + 1
  BY <1>3, <1>5, <1>7
<1>9. \A i \in 1..Len(t) :
        t[i] = IF i <= k + 1 THEN (a \o <<e>>)[i] ELSE b[i - (k + 1)]
  BY <1>3, <1>5, <1>7, <1>8
<1>10. \A i \in 1..Len(t) :
        t[i] = IF i <= k THEN s[i] ELSE IF i = k + 1 THEN e ELSE s[i - 1]
  <2> TAKE i \in 1..Len(t)
  <2>1. CASE i <= k + 1
    <3>1. i \in 1..(k + 1)
      BY <2>1, <1>8
    <3>2. t[i] = (a \o <<e>>)[i]
      BY <2>1, <1>9
    <3>3. (a \o <<e>>)[i] = IF i <= k THEN s[i] ELSE e
      BY <3>1, <1>6
    <3>4. i <= k \/ i = k + 1
      BY <3>1
    <3>. QED
      BY <3>2, <3>3, <3>4
  <2>2. CASE i > k + 1
    <3>1. i - (k + 1) \in 1..Len(b) /\ k + (i - (k + 1)) = i - 1
      BY <2>2, <1>3, <1>8
    <3>2. t[i] = b[i - (k + 1)]
      BY <2>2, <1>8, <1>9
    <3>3. b[i - (k + 1)] = s[k + (i - (k + 1))]
      BY <3>1, <1>3
    <3>. QED
      BY <2>2, <3>1, <3>2, <3>3, <1>8
  <2>. QED
    BY <2>1, <2>2, <1>8
<1>. QED
  BY <1>8, <1>10

\* list_sort only permutes the places of cola_ready.
LEMMA ReordenamientosFacts ==
    ASSUME NEW S, NEW s \in Seq(S), NEW t \in Reordenamientos(s)
    PROVE  /\ t \in Seq(S)
           /\ Len(t) = Len(s)
           /\ \E f \in [1..Len(s) -> 1..Len(s)] :
                /\ \A i, j \in 1..Len(s) : f[i] = f[j] => i = j
                /\ \A i \in 1..Len(s) : t[i] = s[f[i]]
<1> DEFINE n == Len(s)
<1>1. PICK f \in [1..n -> 1..n] :
        /\ \A i, j \in 1..n : f[i] = f[j] => i = j
        /\ t = [i \in 1..n |-> s[f[i]]]
  BY DEF Reordenamientos
<1>2. n \in Nat
  OBVIOUS
<1>3. \A i \in 1..n : f[i] \in 1..n /\ s[f[i]] \in S
  OBVIOUS
<1> HIDE DEF n
<1>4. t \in [1..n -> S]
  BY <1>1, <1>3
<1>5. t \in Seq(S) /\ Len(t) = n
  BY <1>2, <1>4
<1>. QED
  BY <1>1, <1>5 DEF n

-----------------------------------------------------------------------------
(* Queues without repetition, and queues whose members are all in one state *)

NoEsta(s, p) == \A i \in 1..Len(s) : s[i] # p
Todos(f, s, e) == \A i \in 1..Len(s) : f[s[i]] = e

\* The pcb popped from a queue without repetition is no longer in it.
LEMMA ColaSinCabeza ==
    ASSUME NEW s \in Seq(Proc), s # <<>>, SinRepetir(s)
    PROVE  SinRepetir(Tail(s)) /\ NoEsta(Tail(s), Head(s))
<1>1. /\ Len(s) \in Nat /\ Len(s) > 0 /\ Head(s) = s[1] /\ Len(Tail(s)) = Len(s) - 1
      /\ \A i \in 1..Len(Tail(s)) : i + 1 \in 1..Len(s) /\ Tail(s)[i] = s[i + 1]
  BY TailFacts
<1>. QED
  BY <1>1 DEF SinRepetir, NoEsta

\* A push of a pcb that was not in the queue repeats nobody.
LEMMA ColaConUltimo ==
    ASSUME NEW s \in Seq(Proc), NEW p \in Proc, SinRepetir(s), NoEsta(s, p)
    PROVE  SinRepetir(Append(s, p))
<1>1. /\ Len(s) \in Nat /\ Len(Append(s, p)) = Len(s) + 1
      /\ \A i \in 1..Len(s) : Append(s, p)[i] = s[i]
      /\ Append(s, p)[Len(s) + 1] = p
  BY AppendFacts
<1>2. \A i \in 1..Len(Append(s, p)) : i \in 1..Len(s) \/ i = Len(s) + 1
  BY <1>1
<1>. QED
  BY <1>1, <1>2 DEF SinRepetir, NoEsta

\* Nor does an insertion in order.
LEMMA ColaEnOrden ==
    ASSUME NEW s \in Seq(Proc), NEW p \in Proc, SinRepetir(s), NoEsta(s, p),
           NEW t \in InsertarEnOrden(s, p)
    PROVE  SinRepetir(t)
<1>1. PICK k \in 0..Len(s) :
        \A i \in 1..Len(t) :
            t[i] = IF i <= k THEN s[i] ELSE IF i = k + 1 THEN p ELSE s[i - 1]
  BY InsertarEnOrdenFacts
<1>2. Len(s) \in Nat /\ Len(t) = Len(s) + 1
  BY InsertarEnOrdenFacts
<1> SUFFICES ASSUME NEW i \in 1..Len(t), NEW j \in 1..Len(t), t[i] = t[j]
             PROVE  i = j
  BY DEF SinRepetir
<1> DEFINE antes(x) == IF x <= k THEN x ELSE x - 1
<1>3. \A x \in 1..Len(t) : x # k + 1 => antes(x) \in 1..Len(s) /\ t[x] = s[antes(x)]
  BY <1>1, <1>2
<1>4. t[k + 1] = p
  BY <1>1, <1>2
<1>5. CASE i = k + 1 \/ j = k + 1
  BY <1>3, <1>4, <1>5 DEF NoEsta
<1>6. CASE i # k + 1 /\ j # k + 1
  <2>1. antes(i) = antes(j)
    BY <1>3, <1>6 DEF SinRepetir
  <2>. QED
    BY <2>1, <1>2, <1>6
<1>. QED
  BY <1>5, <1>6

\* Nor does a sort.
LEMMA ColaReordenada ==
    ASSUME NEW s \in Seq(Proc), SinRepetir(s), NEW t \in Reordenamientos(s)
    PROVE  SinRepetir(t)
<1>1. PICK f \in [1..Len(s) -> 1..Len(s)] :
        /\ \A i, j \in 1..Len(s) : f[i] = f[j] => i = j
        /\ \A i \in 1..Len(s) : t[i] = s[f[i]]
  BY ReordenamientosFacts
<1>2. Len(t) = Len(s)
  BY ReordenamientosFacts
<1>. QED
  BY <1>1, <1>2 DEF SinRepetir

\* The members of a queue of another state do not notice that p changes its own.
LEMMA OtraCola ==
    ASSUME NEW f \in [Proc -> Estados], NEW s \in Seq(Proc), NEW e, NEW p \in Proc,
           Todos(f, s, e), f[p] # e, NEW e2
    PROVE  NoEsta(s, p) /\ Todos([f EXCEPT ![p] = e2], s, e)
BY DEF Todos, NoEsta

\* Leaving a queue by its head, and entering one at its end or in order.
LEMMA SaleDeCola ==
    ASSUME NEW f \in [Proc -> Estados], NEW s \in Seq(Proc), s # <<>>, NEW e, NEW e2,
           SinRepetir(s), Todos(f, s, e)
    PROVE  Todos([f EXCEPT ![Head(s)] = e2], Tail(s), e)
<1>1. /\ Len(s) \in Nat /\ Len(s) > 0 /\ Head(s) \in Proc /\ Tail(s) \in Seq(Proc)
      /\ \A i \in 1..Len(Tail(s)) : i + 1 \in 1..Len(s) /\ Tail(s)[i] = s[i + 1]
  BY TailFacts
<1>2. NoEsta(Tail(s), Head(s))
  BY ColaSinCabeza
<1>. QED
  BY <1>1, <1>2 DEF Todos, NoEsta

\* Entering a queue at its end, in the state of that queue.
LEMMA EntraAlFinal ==
    ASSUME NEW f \in [Proc -> Estados], NEW s \in Seq(Proc), NEW e \in Estados,
           NEW p \in Proc, Todos(f, s, e), f[p] # e
    PROVE  Todos([f EXCEPT ![p] = e], Append(s, p), e)
<1>1. /\ Len(s) \in Nat /\ Len(Append(s, p)) = Len(s) + 1
      /\ \A i \in 1..Len(s) : Append(s, p)[i] = s[i] /\ s[i] \in Proc
      /\ Append(s, p)[Len(s) + 1] = p
  BY AppendFacts
<1>2. \A i \in 1..Len(Append(s, p)) : i \in 1..Len(s) \/ i = Len(s) + 1
  BY <1>1
<1>. QED
  BY <1>1, <1>2 DEF Todos

\* A queue that only got p: the others that are in it were in it before.
SoloAgrega(s, t, p) == \A i \in 1..Len(t) : t[i] = p \/ \E j \in 1..Len(s) : t[i] = s[j]

\* A push at the end only adds its pcb.
LEMMA AgregaAlFinal ==
    ASSUME NEW s \in Seq(Proc), NEW p \in Proc
    PROVE  SoloAgrega(s, Append(s, p), p)
<1>1. /\ Len(s) \in Nat /\ Len(Append(s, p)) = Len(s) + 1
      /\ \A i \in 1..Len(s) : Append(s, p)[i] = s[i]
      /\ Append(s, p)[Len(s) + 1] = p
  BY AppendFacts
<1>2. \A i \in 1..Len(Append(s, p)) : i \in 1..Len(s) \/ i = Len(s) + 1
  BY <1>1
<1>. QED
  BY <1>1, <1>2 DEF SoloAgrega

\* So does an insertion in order.
LEMMA AgregaEnOrden ==
    ASSUME NEW s \in Seq(Proc), NEW p \in Proc, NEW t \in InsertarEnOrden(s, p)
    PROVE  SoloAgrega(s, t, p)
<1>1. PICK k \in 0..Len(s) :
        \A i \in 1..Len(t) :
            t[i] = IF i <= k THEN s[i] ELSE IF i = k + 1 THEN p ELSE s[i - 1]
  BY InsertarEnOrdenFacts
<1>2. Len(s) \in Nat /\ Len(t) = Len(s) + 1
  BY InsertarEnOrdenFacts
<1>3. \A i \in 1..Len(t) : t[i] = p \/ \E j \in 1..Len(s) : t[i] = s[j]
  <2> TAKE i \in 1..Len(t)
  <2>1. i \in Nat /\ k \in Nat /\ i >= 1 /\ i <= Len(s) + 1
    BY <1>2
  <2>2. CASE i <= k
    BY <2>1, <2>2, <1>1, <1>2
  <2>3. CASE i = k + 1
    BY <2>1, <2>3, <1>1
  <2>4. CASE i > k + 1
    <3>1. i - 1 \in 1..Len(s) /\ t[i] = s[i - 1]
      BY <2>1, <2>4, <1>1, <1>2
    <3>. QED
      BY <3>1
  <2>. QED
    BY <2>1, <2>2, <2>3, <2>4
<1>. QED
  BY <1>3 DEF SoloAgrega

\* Entering a queue in order, in the state of that queue.
LEMMA EntraEnOrden ==
    ASSUME NEW f \in [Proc -> Estados], NEW s \in Seq(Proc), NEW e \in Estados,
           NEW p \in Proc, Todos(f, s, e), f[p] # e, NEW t \in InsertarEnOrden(s, p)
    PROVE  Todos([f EXCEPT ![p] = e], t, e)
<1>1. \A i \in 1..Len(t) : t[i] = p \/ \E j \in 1..Len(s) : t[i] = s[j]
  BY AgregaEnOrden DEF SoloAgrega
<1>. QED
  BY <1>1 DEF Todos

-----------------------------------------------------------------------------
(* The invariant, part by part: each part depends on few variables, and a   *)
(* step that leaves them alone leaves the part alone.                       *)

\* A step that leaves alone the variables of a part of IInv keeps that part.
LEMMA Marco ==
    ASSUME IInv
    PROVE  /\ UNCHANGED pcbs => TipoPcbs'
           /\ UNCHANGED colas => TipoColas'
           /\ UNCHANGED recursos => TipoRecursos'
           /\ UNCHANGED semaforos => TipoSemaforos'
           /\ UNCHANGED hilos => TipoHilos'
           /\ UNCHANGED enlace => TipoEnlace'
           /\ UNCHANGED <<cpu_liberada, pcp, hilo_cpu, cola_exec>> => TestigoDeCpu'
           /\ UNCHANGED <<pcp, hilo_cpu, cola_exec, enlace>> => ContextoEnUnLugar'
           /\ UNCHANGED <<proceso_enviado, hilo_cpu, enlace>> => UnAvisoPorContexto'
           /\ UNCHANGED <<hilo_cpu, plp, pcp, cola_exec, cola_new>> => PcbsTomados'
           /\ UNCHANGED <<estado_actual, cola_new>> => ColaNewPura'
           /\ UNCHANGED <<estado_actual, cola_ready, insertando>> => ColaReadyPura'
           /\ UNCHANGED <<estado_actual, cola_exec>> => ColaExecPura'
           /\ UNCHANGED <<estado_actual, cola_bloqueados>> => ColasDeRecursosPuras'
           /\ UNCHANGED <<estado_actual, hilos_io>> => DurmientesBloqueados'
           /\ UNCHANGED <<estado_actual, consola, cola_new>> => SinCrearFueraDeColas'
           /\ UNCHANGED <<cola_ready, sem_ready_proceso, pcp>> => DespertaresContados'
           /\ UNCHANGED recursos => EsperasContadas'
<1> USE DEF IInv, TypeOK, pcbs, colas, recursos, semaforos, hilos, consolas, hilos_de_io, enlace
<1>1. UNCHANGED pcbs => TipoPcbs'
  BY DEF TipoPcbs
<1>2. UNCHANGED colas => TipoColas'
  BY DEF TipoColas
<1>3. UNCHANGED recursos => TipoRecursos'
  BY DEF TipoRecursos
<1>4. UNCHANGED semaforos => TipoSemaforos'
  BY DEF TipoSemaforos
<1>5. UNCHANGED hilos => TipoHilos'
  BY DEF TipoHilos
<1>6. UNCHANGED enlace => TipoEnlace'
  BY DEF TipoEnlace
<1>7. UNCHANGED <<cpu_liberada, pcp, hilo_cpu, cola_exec>> => TestigoDeCpu'
  BY DEF TestigoDeCpu
<1>8. UNCHANGED <<pcp, hilo_cpu, cola_exec, enlace>> => ContextoEnUnLugar'
  BY DEF ContextoEnUnLugar, EnVuelo
<1>9. UNCHANGED <<proceso_enviado, hilo_cpu, enlace>> => UnAvisoPorContexto'
  BY DEF UnAvisoPorContexto, EnVuelo
<1>10. UNCHANGED <<hilo_cpu, plp, pcp, cola_exec, cola_new>> => PcbsTomados'
  BY DEF PcbsTomados
<1>11. /\ UNCHANGED <<estado_actual, cola_new>> => ColaNewPura'
       /\ UNCHANGED <<estado_actual, cola_exec>> => ColaExecPura'
  BY DEF ColasPorEstado, ColaNewPura, ColaExecPura, SinRepetir, TodosEn
<1>16. UNCHANGED <<estado_actual, cola_ready, insertando>> => ColaReadyPura'
  <2> SUFFICES ASSUME UNCHANGED <<estado_actual, cola_ready, insertando>>
               PROVE  ColaReadyPura'
    OBVIOUS
  <2>1. InsertandoFueraDeReady'
    BY DEF ColasPorEstado, ColaReadyPura, InsertandoFueraDeReady
  <2>2. SinRepetir(cola_ready)' /\ TodosEn(cola_ready, "READY")'
    BY DEF ColasPorEstado, ColaReadyPura, SinRepetir, TodosEn
  <2>. QED
    BY <2>1, <2>2 DEF ColaReadyPura
<1>14. UNCHANGED <<estado_actual, cola_bloqueados>> => ColasDeRecursosPuras'
  BY DEF ColasPorEstado, ColasDeRecursosPuras, SinRepetir, TodosEn
<1>15. /\ UNCHANGED <<estado_actual, hilos_io>> => DurmientesBloqueados'
       /\ UNCHANGED <<estado_actual, consola, cola_new>> => SinCrearFueraDeColas'
  BY DEF ColasPorEstado, DurmientesBloqueados, SinCrearFueraDeColas
<1>12. UNCHANGED <<cola_ready, sem_ready_proceso, pcp>> => DespertaresContados'
  BY DEF IInv, DespertaresContados, SinDespertarPerdido, SinDespertarInventado
<1>13. UNCHANGED recursos => EsperasContadas'
  BY DEF EsperasContadas
<1>. QED
  BY <1>1, <1>2, <1>3, <1>4, <1>5, <1>6, <1>7, <1>8, <1>9, <1>10, <1>11, <1>12, <1>13,
     <1>14, <1>15, <1>16

\* The two counting parts of the invariant give the exclusive use of the CPU.
LEMMA UnoEnLaCpu ==
    ASSUME IInv
    PROVE  UnSoloProcesoEnCpu
<1> DEFINE L == Len(cola_exec)
           V == EnVuelo
           a == Uno(pcp.pc \in {"espera_ready", "elige", "despacha"})
           b == Uno(hilo_cpu.pc = "libera")
           c == Uno(pcp.pc = "ejecuta")
           d == Uno(hilo_cpu.pc \in {"procesa", "ejecuta"})
<1>1. a \in Nat /\ b \in Nat /\ c \in Nat /\ d \in Nat /\ Uno(cpu.pid # NoProc) \in Nat
  BY DEF Uno
<1>2. cpu_liberada \in Nat /\ L \in Nat /\ Len(hacia_cpu) \in Nat /\ Len(desde_cpu) \in Nat
  BY DEF IInv, TypeOK, TipoSemaforos, TipoColas, TipoEnlace
<1>3. V \in Nat
  BY <1>1, <1>2 DEF EnVuelo
<1>4. cpu_liberada + a + b + L = 1 /\ c + V + d = L
  BY DEF IInv, TestigoDeCpu, ContextoEnUnLugar
<1> HIDE DEF L, V, a, b, c, d
<1>5. L <= 1 /\ cpu_liberada + L <= 1 /\ V <= L
  BY <1>1, <1>2, <1>3, <1>4
<1>6. L <= 1 /\ V <= 1 /\ (V = 1 => L = 1 /\ cpu_liberada = 0)
  BY <1>2, <1>3, <1>5
<1>. QED
  BY <1>6 DEF UnSoloProcesoEnCpu, L, V

-----------------------------------------------------------------------------
(* The consoles *)

\* A new console pushes a pcb no queue has.
LEMMA PasoConsolaCreaProceso ==
    ASSUME IInv, NEW p \in Proc, ConsolaCreaProceso(p)
    PROVE  IInv'
<1> USE DEF ConsolaCreaProceso, pcbs, colas, recursos, semaforos, hilos, consolas, hilos_de_io, enlace
<1>1. /\ TipoRecursos' /\ TipoSemaforos' /\ TipoEnlace'
      /\ TestigoDeCpu' /\ ContextoEnUnLugar' /\ UnAvisoPorContexto'
      /\ DespertaresContados' /\ EsperasContadas'
      /\ ColaReadyPura' /\ ColaExecPura' /\ ColasDeRecursosPuras' /\ DurmientesBloqueados'
  BY Marco
<1>2. TipoPcbs'
  BY ConstantesAssumption DEF IInv, TypeOK, TipoPcbs
<1>3. TipoColas'
  BY AppendFacts DEF IInv, TypeOK, TipoColas
<1>4. TipoHilos'
  BY DEF IInv, TypeOK, TipoHilos
<1>5. /\ cola_new \in Seq(Proc) /\ cola_new' = Append(cola_new, p)
      /\ SinRepetir(cola_new) /\ NoEsta(cola_new, p) /\ TodosEn(cola_new, "NEW")
      /\ estado_actual[p] = "NEW"
  BY DEF IInv, TypeOK, TipoColas, ColasPorEstado, ColaNewPura, SinCrearFueraDeColas, NoEsta
<1>6. /\ Len(cola_new') = Len(cola_new) + 1 /\ Len(cola_new) \in Nat
      /\ \A i \in 1..Len(cola_new) : cola_new'[i] = cola_new[i]
      /\ cola_new'[Len(cola_new) + 1] = p
  BY <1>5, AppendFacts
<1>7. \A i \in 1..Len(cola_new') : i \in 1..Len(cola_new) \/ i = Len(cola_new) + 1
  BY <1>6
<1>8. PcbsTomados'
  <2>1. cola_new # <<>> => cola_new' # <<>> /\ Head(cola_new') = Head(cola_new)
    BY <1>5
  <2>. QED
    BY <2>1 DEF IInv, PcbsTomados
<1>9. ColaNewPura'
  <2>1. SinRepetir(cola_new)'
    <3>1. SinRepetir(Append(cola_new, p))
      BY <1>5, ColaConUltimo
    <3>2. cola_new' = Append(cola_new, p)
      BY <1>5
    <3>. QED
      BY <3>1, <3>2 DEF SinRepetir
  <2>2. TodosEn(cola_new, "NEW")'
    <3>1. /\ UNCHANGED estado_actual /\ estado_actual[p] = "NEW"
          /\ \A i \in 1..Len(cola_new) : estado_actual[cola_new[i]] = "NEW"
      BY <1>5 DEF TodosEn
    <3>. QED
      BY <3>1, <1>6, <1>7 DEF TodosEn
  <2>. QED
    BY <2>1, <2>2 DEF ColaNewPura
<1>10. SinCrearFueraDeColas'
  BY <1>6, <1>7 DEF IInv, TypeOK, TipoHilos, ColasPorEstado, SinCrearFueraDeColas
<1>. QED
  BY <1>1, <1>2, <1>3, <1>4, <1>8, <1>9, <1>10 DEF IInv, TypeOK, ColasPorEstado

\* After its creation a console touches nothing the invariant says of the queues.
LEMMA ConsolaYaCreada ==
    ASSUME IInv, NEW p \in Proc, consola[p] # "inicio", NEW e, e # "inicio",
           consola' = [consola EXCEPT ![p] = e],
           UNCHANGED <<estado_actual, cola_new, cola_ready, cola_exec, cola_bloqueados,
                       hilos_io, insertando>>
    PROVE  ColasPorEstado'
<1>1. \A q \in Proc : consola'[q] = "inicio" => consola[q] = "inicio"
  BY DEF IInv, TypeOK, TipoHilos
<1>2. SinCrearFueraDeColas'
  BY <1>1 DEF IInv, ColasPorEstado, SinCrearFueraDeColas
<1>. QED
  BY <1>2, Marco DEF ColasPorEstado

\* Registering the process and posting sem_nuevo_proceso keeps IInv.
LEMMA PasoConsolaRegistra ==
    ASSUME IInv, NEW p \in Proc, ConsolaRegistra(p)
    PROVE  IInv'
<1> USE DEF ConsolaRegistra, pcbs, colas, recursos, semaforos, hilos, consolas, hilos_de_io, enlace
<1>1. /\ TipoColas' /\ TipoRecursos' /\ TipoEnlace'
      /\ TestigoDeCpu' /\ ContextoEnUnLugar' /\ UnAvisoPorContexto' /\ PcbsTomados'
      /\ DespertaresContados' /\ EsperasContadas'
  BY Marco
<1>2. TipoPcbs'
  BY DEF IInv, TypeOK, TipoPcbs
<1>3. TipoSemaforos'
  BY DEF IInv, TypeOK, TipoSemaforos
<1>4. TipoHilos'
  BY DEF IInv, TypeOK, TipoHilos
<1>5. ColasPorEstado'
  BY ConsolaYaCreada
<1>. QED
  BY <1>1, <1>2, <1>3, <1>4, <1>5 DEF IInv, TypeOK

\* The wait of the exit semaphore keeps IInv.
LEMMA PasoConsolaEspera ==
    ASSUME IInv, NEW p \in Proc, ConsolaEspera(p)
    PROVE  IInv'
<1> USE DEF ConsolaEspera, pcbs, colas, recursos, semaforos, hilos, consolas, hilos_de_io, enlace
<1>1. /\ TipoPcbs' /\ TipoColas' /\ TipoRecursos' /\ TipoEnlace'
      /\ TestigoDeCpu' /\ ContextoEnUnLugar' /\ UnAvisoPorContexto' /\ PcbsTomados'
      /\ DespertaresContados' /\ EsperasContadas'
  BY Marco
<1>2. TipoSemaforos'
  BY DEF IInv, TypeOK, TipoSemaforos
<1>3. TipoHilos'
  BY DEF IInv, TypeOK, TipoHilos
<1>4. ColasPorEstado'
  BY ConsolaYaCreada
<1>. QED
  BY <1>1, <1>2, <1>3, <1>4 DEF IInv, TypeOK

\* The pop of cola_exit, whoever it takes, keeps IInv.
LEMMA PasoConsolaRetira ==
    ASSUME IInv, NEW p \in Proc, ConsolaRetira(p)
    PROVE  IInv'
<1> USE DEF ConsolaRetira, pcbs, colas, recursos, semaforos, hilos, consolas, hilos_de_io, enlace
<1>1. /\ TipoRecursos' /\ TipoEnlace'
      /\ TestigoDeCpu' /\ ContextoEnUnLugar' /\ UnAvisoPorContexto' /\ PcbsTomados'
      /\ DespertaresContados' /\ EsperasContadas'
  BY Marco
<1>2. TipoPcbs'
  BY DEF IInv, TypeOK, TipoPcbs
<1>3. TipoColas' /\ Head(cola_exit) \in Proc
  BY TailFacts DEF IInv, TypeOK, TipoColas
<1>4. TipoSemaforos'
  BY DEF IInv, TypeOK, TipoSemaforos
<1>5. TipoHilos'
  BY <1>3 DEF IInv, TypeOK, TipoHilos, ProcONull
<1>6. ColasPorEstado'
  BY ConsolaYaCreada
<1>. QED
  BY <1>1, <1>2, <1>3, <1>4, <1>5, <1>6 DEF IInv, TypeOK

\* What the console reads in the pcb it popped, freed or not, is a reason.
LEMMA PasoConsolaResponde ==
    ASSUME IInv, NEW p \in Proc, ConsolaResponde(p)
    PROVE  IInv'
<1> USE DEF ConsolaResponde, pcbs, colas, recursos, semaforos, hilos, consolas, hilos_de_io, enlace
<1>1. /\ TipoPcbs' /\ TipoColas' /\ TipoRecursos' /\ TipoSemaforos' /\ TipoEnlace'
      /\ TestigoDeCpu' /\ ContextoEnUnLugar' /\ UnAvisoPorContexto' /\ PcbsTomados'
      /\ DespertaresContados' /\ EsperasContadas'
  BY Marco
<1>2. TipoHilos'
  <2>1. PICK m \in MotivoLeido(retirado[p]) : respuesta' = [respuesta EXCEPT ![p] = m]
    OBVIOUS
  <2>2. motivo[retirado[p]] \in Motivos
    BY DEF IInv, TypeOK, TipoPcbs, TipoHilos
  <2>3. m \in Motivos
    BY <2>1, <2>2 DEF MotivoLeido
  <2>. QED
    BY <2>1, <2>3 DEF IInv, TypeOK, TipoHilos, ProcONull
<1>3. ColasPorEstado'
  BY ConsolaYaCreada
<1>. QED
  BY <1>1, <1>2, <1>3 DEF IInv, TypeOK

\* destroy_pcb keeps IInv.
LEMMA PasoConsolaDestruye ==
    ASSUME IInv, NEW p \in Proc, ConsolaDestruye(p)
    PROVE  IInv'
<1> USE DEF ConsolaDestruye, pcbs, colas, recursos, semaforos, hilos, consolas, hilos_de_io, enlace
<1>1. /\ TipoColas' /\ TipoRecursos' /\ TipoSemaforos' /\ TipoEnlace'
      /\ TestigoDeCpu' /\ ContextoEnUnLugar' /\ UnAvisoPorContexto' /\ PcbsTomados'
      /\ DespertaresContados' /\ EsperasContadas'
  BY Marco
<1>2. TipoPcbs'
  BY DEF IInv, TypeOK, TipoPcbs
<1>3. TipoHilos'
  BY DEF IInv, TypeOK, TipoHilos
<1>4. ColasPorEstado'
  BY ConsolaYaCreada
<1>. QED
  BY <1>1, <1>2, <1>3, <1>4 DEF IInv, TypeOK

-----------------------------------------------------------------------------
(* A process that changes state disturbs the queue of the state it leaves, and *)
(* the one it enters; the others stay as they were.                            *)

\* A pcb that changes state cannot be in the queues of the other states.
LEMMA CambioDeEstado ==
    ASSUME IInv, NEW p \in Proc, NEW e2,
           estado_actual' = [estado_actual EXCEPT ![p] = e2]
    PROVE  /\ estado_actual[p] # "NEW" /\ UNCHANGED cola_new => ColaNewPura'
           /\ estado_actual[p] # "READY" /\ UNCHANGED <<cola_ready, insertando>>
                => ColaReadyPura'
           /\ estado_actual[p] # "EXEC" /\ UNCHANGED cola_exec => ColaExecPura'
           /\ estado_actual[p] # "BLOCK_RECURSO" /\ UNCHANGED cola_bloqueados
                => ColasDeRecursosPuras'
           /\ estado_actual[p] # "BLOCK" /\ UNCHANGED hilos_io => DurmientesBloqueados'
           /\ estado_actual[p] # "NEW" /\ UNCHANGED <<consola, cola_new>>
                => SinCrearFueraDeColas'
<1>1. /\ estado_actual \in [Proc -> Estados]
      /\ cola_new \in Seq(Proc) /\ cola_ready \in Seq(Proc) /\ cola_exec \in Seq(Proc)
      /\ cola_bloqueados \in [Recurso -> Seq(Proc)]
      /\ hilos_io \subseteq Proc
  BY DEF IInv, TypeOK, TipoPcbs, TipoColas, TipoRecursos, TipoHilos
<1>2. ASSUME NEW s \in Seq(Proc), NEW e, TodosEn(s, e), estado_actual[p] # e
      PROVE  \A i \in 1..Len(s) : estado_actual'[s[i]] = e
  BY <1>1, <1>2 DEF TodosEn
<1>3. ASSUME estado_actual[p] # "NEW", UNCHANGED cola_new
      PROVE  ColaNewPura'
  BY <1>1, <1>2, <1>3 DEF IInv, ColasPorEstado, ColaNewPura, SinRepetir, TodosEn
<1>4. ASSUME estado_actual[p] # "READY", UNCHANGED <<cola_ready, insertando>>
      PROVE  ColaReadyPura'
  <2>1. InsertandoFueraDeReady'
    <3>1. /\ ALGORITMO = "FIFO" => insertando = {}
          /\ insertando \subseteq Proc
          /\ \A q \in insertando : /\ estado_actual[q] = "READY"
                                   /\ \A i \in 1..Len(cola_ready) : cola_ready[i] # q
      BY DEF IInv, TypeOK, TipoHilos, ColasPorEstado, ColaReadyPura, InsertandoFueraDeReady
    <3>2. \A q \in insertando : estado_actual'[q] = "READY"
      BY <3>1, <1>1, <1>4
    <3>. QED
      BY <3>1, <3>2, <1>4 DEF InsertandoFueraDeReady
  <2>2. SinRepetir(cola_ready)' /\ TodosEn(cola_ready, "READY")'
    <3>1. SinRepetir(cola_ready) /\ TodosEn(cola_ready, "READY")
      BY DEF IInv, ColasPorEstado, ColaReadyPura
    <3>2. \A i \in 1..Len(cola_ready) : estado_actual'[cola_ready[i]] = "READY"
      BY <3>1, <1>1, <1>2, <1>4
    <3>. QED
      BY <3>1, <3>2, <1>4 DEF SinRepetir, TodosEn
  <2>. QED
    BY <2>1, <2>2 DEF ColaReadyPura
<1>5. ASSUME estado_actual[p] # "EXEC", UNCHANGED cola_exec
      PROVE  ColaExecPura'
  BY <1>1, <1>2, <1>5 DEF IInv, ColasPorEstado, ColaExecPura, TodosEn
<1>6. ASSUME estado_actual[p] # "BLOCK_RECURSO", UNCHANGED cola_bloqueados
      PROVE  ColasDeRecursosPuras'
  <2>1. \A r \in Recurso : \A i \in 1..Len(cola_bloqueados[r]) :
            estado_actual'[cola_bloqueados[r][i]] = "BLOCK_RECURSO"
    BY <1>1, <1>2, <1>6 DEF IInv, ColasPorEstado, ColasDeRecursosPuras
  <2>. QED
    BY <2>1, <1>6 DEF IInv, ColasPorEstado, ColasDeRecursosPuras, SinRepetir, TodosEn
<1>7. ASSUME estado_actual[p] # "BLOCK", UNCHANGED hilos_io
      PROVE  DurmientesBloqueados'
  BY <1>1, <1>7 DEF IInv, ColasPorEstado, DurmientesBloqueados
<1>8. ASSUME estado_actual[p] # "NEW", UNCHANGED <<consola, cola_new>>
      PROVE  SinCrearFueraDeColas'
  BY <1>1, <1>8 DEF IInv, ColasPorEstado, SinCrearFueraDeColas
<1>. QED
  BY <1>3, <1>4, <1>5, <1>6, <1>7, <1>8

-----------------------------------------------------------------------------
(* The long-term scheduler *)

\* The PLP takes a sem_nuevo_proceso.
LEMMA PasoPlpEsperaNuevo ==
    ASSUME IInv, PlpEsperaNuevo
    PROVE  IInv'
<1> USE DEF PlpEsperaNuevo, pcbs, colas, recursos, semaforos, hilos, consolas, hilos_de_io, enlace
<1>1. /\ TipoPcbs' /\ TipoColas' /\ TipoRecursos' /\ TipoEnlace'
      /\ TestigoDeCpu' /\ ContextoEnUnLugar' /\ UnAvisoPorContexto'
      /\ DespertaresContados' /\ EsperasContadas'
      /\ ColaNewPura' /\ ColaReadyPura' /\ ColaExecPura' /\ ColasDeRecursosPuras'
      /\ DurmientesBloqueados' /\ SinCrearFueraDeColas'
  BY Marco
<1>2. TipoSemaforos'
  BY DEF IInv, TypeOK, TipoSemaforos
<1>3. TipoHilos'
  BY DEF IInv, TypeOK, TipoHilos, ProcONull
<1>4. PcbsTomados'
  BY DEF IInv, PcbsTomados
<1>. QED
  BY <1>1, <1>2, <1>3, <1>4 DEF IInv, TypeOK, ColasPorEstado

\* The PLP takes a place of the degree of multiprogramming.
LEMMA PasoPlpEsperaGrado ==
    ASSUME IInv, PlpEsperaGrado
    PROVE  IInv'
<1> USE DEF PlpEsperaGrado, pcbs, colas, recursos, semaforos, hilos, consolas, hilos_de_io, enlace
<1>1. /\ TipoPcbs' /\ TipoColas' /\ TipoRecursos' /\ TipoEnlace'
      /\ TestigoDeCpu' /\ ContextoEnUnLugar' /\ UnAvisoPorContexto'
      /\ DespertaresContados' /\ EsperasContadas'
      /\ ColaNewPura' /\ ColaReadyPura' /\ ColaExecPura' /\ ColasDeRecursosPuras'
      /\ DurmientesBloqueados' /\ SinCrearFueraDeColas'
  BY Marco
<1>2. TipoSemaforos'
  BY DEF IInv, TypeOK, TipoSemaforos
<1>3. TipoHilos'
  BY DEF IInv, TypeOK, TipoHilos, ProcONull
<1>4. PcbsTomados'
  BY DEF IInv, PcbsTomados
<1>. QED
  BY <1>1, <1>2, <1>3, <1>4 DEF IInv, TypeOK, ColasPorEstado

\* The PLP peeks cola_new.
LEMMA PasoPlpAdmite ==
    ASSUME IInv, PlpAdmite
    PROVE  IInv'
<1> USE DEF PlpAdmite, pcbs, colas, recursos, semaforos, hilos, consolas, hilos_de_io, enlace
<1>1. /\ TipoPcbs' /\ TipoColas' /\ TipoRecursos' /\ TipoSemaforos' /\ TipoEnlace'
      /\ TestigoDeCpu' /\ ContextoEnUnLugar' /\ UnAvisoPorContexto'
      /\ DespertaresContados' /\ EsperasContadas'
      /\ ColaNewPura' /\ ColaReadyPura' /\ ColaExecPura' /\ ColasDeRecursosPuras'
      /\ DurmientesBloqueados' /\ SinCrearFueraDeColas'
  BY Marco
<1>2. Head(cola_new) \in Proc
  BY TailFacts DEF IInv, TypeOK, TipoColas
<1>3. TipoHilos'
  BY <1>2 DEF IInv, TypeOK, TipoHilos, ProcONull
<1>4. PcbsTomados'
  BY DEF IInv, PcbsTomados
<1>. QED
  BY <1>1, <1>3, <1>4 DEF IInv, TypeOK, ColasPorEstado

\* A process that becomes ready, at the end of cola_ready or in order, is counted.
LEMMA EntraEnReady ==
    ASSUME IInv, NEW p \in Proc, estado_actual[p] # "READY",
           estado_actual' = [estado_actual EXCEPT ![p] = "READY"],
           \/ cola_ready' = Append(cola_ready, p)
           \/ cola_ready' \in InsertarEnOrden(cola_ready, p),
           sem_ready_proceso' = sem_ready_proceso + 1, UNCHANGED <<pcp, insertando>>
    PROVE  /\ cola_ready' \in Seq(Proc)
           /\ estado_actual' \in [Proc -> Estados]
           /\ ColaReadyPura'
           /\ DespertaresContados'
<1>1. /\ estado_actual \in [Proc -> Estados] /\ cola_ready \in Seq(Proc)
      /\ SinRepetir(cola_ready) /\ Todos(estado_actual, cola_ready, "READY")
  BY DEF IInv, TypeOK, TipoPcbs, TipoColas, ColasPorEstado, ColaReadyPura, TodosEn, Todos
<1>2. NoEsta(cola_ready, p)
  BY <1>1 DEF NoEsta, Todos
<1>3. "READY" \in Estados
  BY DEF Estados
<1>4. /\ cola_ready' \in Seq(Proc) /\ Len(cola_ready') = Len(cola_ready) + 1
      /\ SinRepetir(cola_ready') /\ Todos(estado_actual', cola_ready', "READY")
      /\ SoloAgrega(cola_ready, cola_ready', p)
  <2>1. CASE cola_ready' = Append(cola_ready, p)
    <3>1. SoloAgrega(cola_ready, cola_ready', p)
      BY <2>1, <1>1, AgregaAlFinal
    <3>. QED
      BY <3>1, <2>1, <1>1, <1>2, <1>3, AppendFacts, ColaConUltimo, EntraAlFinal
  <2>2. CASE cola_ready' \in InsertarEnOrden(cola_ready, p)
    <3>1. cola_ready' \in Seq(Proc) /\ Len(cola_ready') = Len(cola_ready) + 1
      BY <2>2, <1>1, InsertarEnOrdenFacts
    <3>2. SinRepetir(cola_ready')
      BY <2>2, <1>1, <1>2, ColaEnOrden
    <3>3. Todos(estado_actual', cola_ready', "READY")
      BY <2>2, <1>1, <1>3, EntraEnOrden
    <3>4. SoloAgrega(cola_ready, cola_ready', p)
      BY <2>2, <1>1, AgregaEnOrden
    <3>. QED
      BY <3>1, <3>2, <3>3, <3>4
  <2>. QED
    BY <2>1, <2>2
<1>5. ColaReadyPura'
  <2>1. InsertandoFueraDeReady'
    <3>1. /\ ALGORITMO = "FIFO" => insertando = {}
          /\ insertando \subseteq Proc
          /\ \A q \in insertando : /\ estado_actual[q] = "READY"
                                   /\ \A i \in 1..Len(cola_ready) : cola_ready[i] # q
      BY DEF IInv, TypeOK, TipoHilos, ColasPorEstado, ColaReadyPura, InsertandoFueraDeReady
    <3>2. \A q \in insertando : /\ q # p /\ estado_actual'[q] = "READY"
                                /\ \A i \in 1..Len(cola_ready') : cola_ready'[i] # q
      BY <3>1, <1>1, <1>4 DEF SoloAgrega
    <3>. QED
      BY <3>1, <3>2 DEF InsertandoFueraDeReady
  <2>. QED
    BY <2>1, <1>4 DEF ColaReadyPura, SinRepetir, TodosEn, Todos
<1>6. DespertaresContados'
  <2>1. sem_ready_proceso \in Nat /\ Len(cola_ready) \in Nat
    BY <1>1 DEF IInv, TypeOK, TipoSemaforos
  <2>. QED
    BY <2>1, <1>4 DEF IInv, DespertaresContados, SinDespertarPerdido,
         SinDespertarInventado, Uno
<1>. QED
  BY <1>1, <1>3, <1>4, <1>5, <1>6

\* Nobody else pops cola_new: the PLP moves the pcb it peeked.
LEMMA PasoPlpPasaAReady ==
    ASSUME IInv, PlpPasaAReady
    PROVE  IInv'
<1> USE DEF PlpPasaAReady, pcbs, colas, recursos, semaforos, hilos, consolas, hilos_de_io, enlace
<1> DEFINE p == plp.pcb
<1>1. /\ cola_new \in Seq(Proc) /\ cola_new # <<>> /\ p = Head(cola_new)
      /\ SinRepetir(cola_new) /\ Todos(estado_actual, cola_new, "NEW")
      /\ estado_actual \in [Proc -> Estados]
  BY DEF IInv, TypeOK, TipoPcbs, TipoColas, PcbsTomados, ColasPorEstado, ColaNewPura,
         TodosEn, Todos
<1>2. p \in Proc /\ estado_actual[p] = "NEW" /\ Tail(cola_new) \in Seq(Proc)
  <2>1. Head(cola_new) \in Proc /\ Head(cola_new) = cola_new[1] /\ Tail(cola_new) \in Seq(Proc)
        /\ 1 \in 1..Len(cola_new)
    BY <1>1, TailFacts
  <2>. QED
    BY <2>1, <1>1 DEF Todos
<1>3. /\ cola_new' = Tail(cola_new)
      /\ estado_actual' = [estado_actual EXCEPT ![p] = "READY"]
      /\ cola_ready' = Append(cola_ready, p)
      /\ sem_ready_proceso' = sem_ready_proceso + 1
      /\ UNCHANGED <<cola_exec, cola_block, cola_exit, cola_bloqueados, pcp, hilo_cpu, consola>>
  BY <1>1, <1>2 DEF PasarAColaReady, Sacado, QuitarDeColaActual, Insertar
<1> HIDE DEF p
<1>4. /\ cola_ready' \in Seq(Proc) /\ estado_actual' \in [Proc -> Estados]
      /\ ColaReadyPura' /\ DespertaresContados'
  BY <1>2, <1>3, EntraEnReady
<1>5. /\ ColaExecPura' /\ ColasDeRecursosPuras'
  BY <1>2, <1>3, CambioDeEstado
<1>51. DurmientesBloqueados'
  BY <1>2, <1>3, CambioDeEstado
<1>6. /\ TipoRecursos' /\ TipoEnlace'
      /\ TestigoDeCpu' /\ ContextoEnUnLugar' /\ UnAvisoPorContexto' /\ EsperasContadas'
  BY <1>3, Marco
<1>7. TipoPcbs'
  BY <1>4 DEF IInv, TypeOK, TipoPcbs
<1>8. TipoColas'
  BY <1>2, <1>3, <1>4 DEF IInv, TypeOK, TipoColas
<1>9. TipoSemaforos'
  BY <1>3 DEF IInv, TypeOK, TipoSemaforos
<1>10. TipoHilos'
  BY <1>3 DEF IInv, TypeOK, TipoHilos, ProcONull
<1>11. PcbsTomados'
  BY <1>3 DEF IInv, PcbsTomados
<1>12. ColaNewPura'
  <2>1. SinRepetir(Tail(cola_new)) /\ Todos(estado_actual', Tail(cola_new), "NEW")
    BY <1>1, <1>3, ColaSinCabeza, SaleDeCola
  <2>. QED
    BY <2>1, <1>3 DEF ColaNewPura, SinRepetir, TodosEn, Todos
<1>13. SinCrearFueraDeColas'
  <2>1. /\ \A q \in Proc : consola[q] = "inicio" => q # p
        /\ \A i \in 1..Len(Tail(cola_new)) :
              i + 1 \in 1..Len(cola_new) /\ Tail(cola_new)[i] = cola_new[i + 1]
    <3>1. /\ p = cola_new[1] /\ 1 \in 1..Len(cola_new)
          /\ \A i \in 1..Len(Tail(cola_new)) :
                i + 1 \in 1..Len(cola_new) /\ Tail(cola_new)[i] = cola_new[i + 1]
      BY <1>1, TailFacts
    <3>. QED
      BY <3>1 DEF IInv, ColasPorEstado, SinCrearFueraDeColas
  <2>. QED
    BY <2>1, <1>1, <1>3 DEF IInv, ColasPorEstado, SinCrearFueraDeColas
<1>. QED
  BY <1>4, <1>5, <1>51, <1>6, <1>7, <1>8, <1>9, <1>10, <1>11, <1>12, <1>13
  DEF IInv, TypeOK, ColasPorEstado

-----------------------------------------------------------------------------
(* The short-term scheduler *)

\* The PCP takes the right to use the CPU.
LEMMA PasoPcpEsperaCpu ==
    ASSUME IInv, PcpEsperaCpu
    PROVE  IInv'
<1> USE DEF PcpEsperaCpu, pcbs, colas, recursos, semaforos, hilos, consolas, hilos_de_io, enlace
<1>1. /\ TipoPcbs' /\ TipoColas' /\ TipoRecursos' /\ TipoEnlace'
      /\ UnAvisoPorContexto' /\ EsperasContadas'
      /\ ColaNewPura' /\ ColaReadyPura' /\ ColaExecPura' /\ ColasDeRecursosPuras'
      /\ DurmientesBloqueados' /\ SinCrearFueraDeColas'
  BY Marco
<1>2. TipoSemaforos'
  BY DEF IInv, TypeOK, TipoSemaforos
<1>3. TipoHilos'
  BY DEF IInv, TypeOK, TipoHilos, ProcONull
<1>4. TestigoDeCpu'
  <2>1. cpu_liberada \in Nat /\ Len(cola_exec) \in Nat
    BY DEF IInv, TypeOK, TipoSemaforos, TipoColas
  <2>. QED
    BY <2>1 DEF IInv, TestigoDeCpu, Uno
<1>5. ContextoEnUnLugar'
  BY DEF IInv, ContextoEnUnLugar, EnVuelo, Uno
<1>6. PcbsTomados'
  BY DEF IInv, PcbsTomados
<1>7. DespertaresContados'
  BY DEF IInv, DespertaresContados, SinDespertarPerdido,
         SinDespertarInventado, Uno
<1>. QED
  BY <1>1, <1>2, <1>3, <1>4, <1>5, <1>6, <1>7 DEF IInv, TypeOK, ColasPorEstado

\* The PCP takes a wake-up: the process it answers for is in cola_ready.
LEMMA PasoPcpEsperaReady ==
    ASSUME IInv, PcpEsperaReady
    PROVE  IInv'
<1> USE DEF PcpEsperaReady, pcbs, colas, recursos, semaforos, hilos, consolas, hilos_de_io, enlace
<1>1. /\ TipoPcbs' /\ TipoColas' /\ TipoRecursos' /\ TipoEnlace'
      /\ UnAvisoPorContexto' /\ EsperasContadas'
      /\ ColaNewPura' /\ ColaReadyPura' /\ ColaExecPura' /\ ColasDeRecursosPuras'
      /\ DurmientesBloqueados' /\ SinCrearFueraDeColas'
  BY Marco
<1>2. TipoSemaforos'
  BY DEF IInv, TypeOK, TipoSemaforos
<1>3. TipoHilos'
  BY DEF IInv, TypeOK, TipoHilos, ProcONull
<1>4. TestigoDeCpu'
  BY DEF IInv, TestigoDeCpu, Uno
<1>5. ContextoEnUnLugar'
  BY DEF IInv, ContextoEnUnLugar, EnVuelo, Uno
<1>6. PcbsTomados'
  BY DEF IInv, PcbsTomados
<1>7. DespertaresContados'
  <2>1. sem_ready_proceso \in Nat /\ Len(cola_ready) \in Nat
    BY DEF IInv, TypeOK, TipoSemaforos, TipoColas
  <2>. QED
    BY <2>1 DEF IInv, DespertaresContados, SinDespertarPerdido,
         SinDespertarInventado, Uno
<1>. QED
  BY <1>1, <1>2, <1>3, <1>4, <1>5, <1>6, <1>7 DEF IInv, TypeOK, ColasPorEstado

\* The choice, and the sort of HRRN, keep cola_ready.
LEMMA PasoPcpElige ==
    ASSUME IInv, PcpElige
    PROVE  IInv'
<1> USE DEF PcpElige, pcbs, colas, recursos, semaforos, hilos, consolas, hilos_de_io, enlace
<1>1. /\ TipoPcbs' /\ TipoRecursos' /\ TipoSemaforos' /\ TipoEnlace'
      /\ UnAvisoPorContexto' /\ EsperasContadas'
      /\ ColaNewPura' /\ ColaExecPura' /\ ColasDeRecursosPuras'
      /\ DurmientesBloqueados' /\ SinCrearFueraDeColas'
  BY Marco
<1>2. /\ cola_ready \in Seq(Proc) /\ cola_ready # <<>> /\ SinRepetir(cola_ready)
      /\ Todos(estado_actual, cola_ready, "READY")
  BY DEF IInv, TypeOK, TipoColas, ColasPorEstado, ColaReadyPura, TodosEn, Todos
<1>3. /\ cola_ready' \in Seq(Proc) /\ Len(cola_ready') = Len(cola_ready)
      /\ SinRepetir(cola_ready') /\ Todos(estado_actual, cola_ready', "READY")
      /\ \A i \in 1..Len(cola_ready') : \E j \in 1..Len(cola_ready) : cola_ready'[i] = cola_ready[j]
  <2>1. CASE UNCHANGED cola_ready
    BY <2>1, <1>2
  <2>2. CASE cola_ready' \in Reordenamientos(cola_ready)
    <3>1. /\ cola_ready' \in Seq(Proc) /\ Len(cola_ready') = Len(cola_ready)
          /\ \E f \in [1..Len(cola_ready) -> 1..Len(cola_ready)] :
                \A i \in 1..Len(cola_ready) : cola_ready'[i] = cola_ready[f[i]]
      BY <2>2, <1>2, ReordenamientosFacts
    <3>2. SinRepetir(cola_ready')
      BY <2>2, <1>2, ColaReordenada
    <3>3. \A i \in 1..Len(cola_ready') :
              \E j \in 1..Len(cola_ready) : cola_ready'[i] = cola_ready[j]
      BY <3>1
    <3>4. Todos(estado_actual, cola_ready', "READY")
      BY <3>3, <1>2 DEF Todos
    <3>. QED
      BY <3>1, <3>2, <3>3, <3>4
  <2>. QED
    BY <2>1, <2>2
<1>4. Head(cola_ready') \in Proc
  <2>1. cola_ready' # <<>>
    BY <1>2, <1>3
  <2>. QED
    BY <2>1, <1>3, TailFacts
<1>5. TipoColas'
  BY <1>3 DEF IInv, TypeOK, TipoColas
<1>6. TipoHilos'
  BY <1>4 DEF IInv, TypeOK, TipoHilos, ProcONull
<1>7. TestigoDeCpu'
  BY DEF IInv, TestigoDeCpu, Uno
<1>8. ContextoEnUnLugar'
  BY DEF IInv, ContextoEnUnLugar, EnVuelo, Uno
<1>9. PcbsTomados'
  BY <1>4 DEF IInv, PcbsTomados
<1>10. ColaReadyPura'
  <2>1. InsertandoFueraDeReady'
    BY <1>3 DEF IInv, ColasPorEstado, ColaReadyPura, InsertandoFueraDeReady
  <2>. QED
    BY <2>1, <1>3 DEF ColaReadyPura, SinRepetir, TodosEn, Todos
<1>11. DespertaresContados'
  BY <1>3 DEF IInv, DespertaresContados, SinDespertarPerdido,
         SinDespertarInventado, Uno
<1>. QED
  BY <1>1, <1>5, <1>6, <1>7, <1>8, <1>9, <1>10, <1>11 DEF IInv, TypeOK, ColasPorEstado

\* With the right in its hands the PCP finds cola_exec empty.
LEMMA PasoPcpDespacha ==
    ASSUME IInv, PcpDespacha
    PROVE  IInv'
<1> USE DEF PcpDespacha, PasarAColaExec, pcbs, colas, recursos, semaforos, hilos, consolas, hilos_de_io, enlace
<1> DEFINE q == Head(cola_ready)
<1>1. /\ cola_ready \in Seq(Proc) /\ cola_ready # <<>> /\ SinRepetir(cola_ready)
      /\ Todos(estado_actual, cola_ready, "READY")
      /\ estado_actual \in [Proc -> Estados] /\ cola_exec \in Seq(Proc)
  BY DEF IInv, TypeOK, TipoPcbs, TipoColas, ColasPorEstado, ColaReadyPura, TodosEn, Todos
<1>2. /\ q \in Proc /\ Tail(cola_ready) \in Seq(Proc) /\ q = cola_ready[1]
      /\ 1 \in 1..Len(cola_ready) /\ Len(Tail(cola_ready)) = Len(cola_ready) - 1
      /\ Len(cola_ready) \in Nat
  BY <1>1, TailFacts
<1>3. estado_actual[q] = "READY"
  BY <1>1, <1>2 DEF Todos
<1>4. /\ cola_ready' = Tail(cola_ready)
      /\ estado_actual' = [estado_actual EXCEPT ![q] = "EXEC"]
      /\ cola_exec' = Append(cola_exec, q)
      /\ pcp' = [pc |-> "ejecuta", pcb |-> pcp.pcb]
      /\ UNCHANGED <<cola_new, cola_block, cola_exit, cola_bloqueados, hilo_cpu, consola>>
  OBVIOUS
<1> HIDE DEF q
<1>5. /\ Len(cola_exec) = 0 /\ cpu_liberada = 0 /\ hilo_cpu.pc # "libera"
  BY <1>1 DEF IInv, TypeOK, TipoSemaforos, TestigoDeCpu, Uno
<1>6. cola_exec' = <<q>> /\ Len(cola_exec') = 1 /\ cola_exec'[1] = q
  BY <1>1, <1>4, <1>5
<1>7. ColaNewPura' /\ ColasDeRecursosPuras' /\ SinCrearFueraDeColas'
  BY <1>2, <1>3, <1>4, CambioDeEstado
<1>71. DurmientesBloqueados'
  BY <1>2, <1>3, <1>4, CambioDeEstado
<1>8. TipoRecursos' /\ TipoSemaforos' /\ TipoEnlace' /\ UnAvisoPorContexto' /\ EsperasContadas'
  BY Marco
<1>9. TipoPcbs'
  BY <1>1, <1>4 DEF IInv, TypeOK, TipoPcbs, Estados
<1>10. TipoColas'
  BY <1>2, <1>4, <1>6 DEF IInv, TypeOK, TipoColas
<1>11. TipoHilos'
  BY <1>4 DEF IInv, TypeOK, TipoHilos
<1>12. TestigoDeCpu'
  BY <1>4, <1>5, <1>6 DEF TestigoDeCpu, Uno
<1>13. ContextoEnUnLugar'
  <2>1. EnVuelo' = EnVuelo
    BY DEF EnVuelo
  <2>2. EnVuelo \in Nat
    BY DEF EnVuelo, IInv, TypeOK, TipoEnlace, Uno
  <2>. QED
    BY <2>1, <2>2, <1>4, <1>5, <1>6 DEF IInv, ContextoEnUnLugar, Uno
<1>14. PcbsTomados'
  <2>1. hilo_cpu.pc \notin {"recibe", "procesa", "ejecuta"}
    BY <1>5 DEF IInv, PcbsTomados
  <2>. QED
    BY <2>1, <1>4 DEF IInv, PcbsTomados
<1>15. ColaReadyPura'
  <2>1. SinRepetir(Tail(cola_ready))
    BY <1>1, ColaSinCabeza
  <2>2. Todos([estado_actual EXCEPT ![Head(cola_ready)] = "EXEC"], Tail(cola_ready), "READY")
    BY <1>1, SaleDeCola
  <2>3. Todos(estado_actual', Tail(cola_ready), "READY")
    BY <2>2, <1>4 DEF q
  <2>4. \A i \in 1..Len(Tail(cola_ready)) :
            i + 1 \in 1..Len(cola_ready) /\ Tail(cola_ready)[i] = cola_ready[i + 1]
    BY <1>1, TailFacts
  <2>5. \A u \in insertando : u # q /\ \A i \in 1..Len(cola_ready) : cola_ready[i] # u
    BY <1>2 DEF IInv, ColasPorEstado, ColaReadyPura, InsertandoFueraDeReady
  <2>6. InsertandoFueraDeReady'
    BY <2>4, <2>5, <1>1, <1>4 DEF IInv, TypeOK, TipoHilos, ColasPorEstado, ColaReadyPura,
       InsertandoFueraDeReady
  <2>. QED
    BY <2>1, <2>3, <2>6, <1>4 DEF ColaReadyPura, SinRepetir, TodosEn, Todos
<1>16. ColaExecPura'
  BY <1>1, <1>2, <1>4, <1>6 DEF ColaExecPura, TodosEn
<1>17. DespertaresContados'
  <2>1. sem_ready_proceso \in Nat
    BY DEF IInv, TypeOK, TipoSemaforos
  <2>. QED
    BY <2>1, <1>2, <1>4 DEF IInv, DespertaresContados, SinDespertarPerdido,
         SinDespertarInventado, Uno
<1>. QED
  BY <1>7, <1>71, <1>8, <1>9, <1>10, <1>11, <1>12, <1>13, <1>14, <1>15, <1>16, <1>17
  DEF IInv, TypeOK, ColasPorEstado

\* The context of a pcb leaves the kernel once.
LEMMA PasoPcpEjecuta ==
    ASSUME IInv, PcpEjecuta
    PROVE  IInv'
<1> USE DEF PcpEjecuta, EjecutarProceso, pcbs, colas, recursos, semaforos, hilos, consolas, hilos_de_io, enlace
<1>1. /\ TipoPcbs' /\ TipoColas' /\ TipoRecursos'
      /\ EsperasContadas'
      /\ ColaNewPura' /\ ColaReadyPura' /\ ColaExecPura' /\ ColasDeRecursosPuras'
      /\ DurmientesBloqueados' /\ SinCrearFueraDeColas'
  BY Marco
<1>2. TipoSemaforos'
  BY DEF IInv, TypeOK, TipoSemaforos
<1>3. TipoHilos'
  BY DEF IInv, TypeOK, TipoHilos, ProcONull
<1>4. /\ hacia_cpu \in Seq(Contexto)
      /\ [pid |-> pcp.pcb, program_counter |-> program_counter[pcp.pcb]] \in Contexto
  BY DEF IInv, TypeOK, TipoPcbs, TipoEnlace, PcbsTomados, Contexto
<1>5. hacia_cpu' \in Seq(Contexto) /\ Len(hacia_cpu') = Len(hacia_cpu) + 1
  BY <1>4, AppendFacts
<1>6. TipoEnlace'
  BY <1>5 DEF IInv, TypeOK, TipoEnlace
<1>7. TestigoDeCpu'
  BY DEF IInv, TestigoDeCpu, Uno
<1>8. Len(hacia_cpu) \in Nat /\ Len(desde_cpu) \in Nat /\ Len(cola_exec) \in Nat
      /\ proceso_enviado \in Nat
  BY <1>4 DEF IInv, TypeOK, TipoEnlace, TipoColas, TipoSemaforos
<1>9. EnVuelo' = EnVuelo + 1 /\ EnVuelo \in Nat
  <2>1. Uno(cpu.pid # NoProc) \in Nat
    BY DEF Uno
  <2>2. EnVuelo' = Len(hacia_cpu') + Uno(cpu.pid # NoProc) + Len(desde_cpu)
    BY DEF EnVuelo
  <2>. QED
    BY <2>1, <2>2, <1>5, <1>8 DEF EnVuelo
<1>10. ContextoEnUnLugar'
  BY <1>8, <1>9 DEF IInv, ContextoEnUnLugar, Uno
<1>11. UnAvisoPorContexto'
  BY <1>8, <1>9 DEF IInv, UnAvisoPorContexto, Uno
<1>12. PcbsTomados'
  BY DEF IInv, PcbsTomados
<1>13. DespertaresContados'
  BY DEF IInv, DespertaresContados, SinDespertarPerdido,
         SinDespertarInventado, Uno
<1>. QED
  BY <1>1, <1>2, <1>3, <1>6, <1>7, <1>10, <1>11, <1>12, <1>13 DEF IInv, TypeOK, ColasPorEstado

-----------------------------------------------------------------------------
(* The CPU *)

\* What no step of the CPU process disturbs.
LEMMA MarcoCpu ==
    ASSUME IInv, UNCHANGED <<pcbs, colas, recursos, semaforos, hilos>>,
           TipoEnlace', EnVuelo' = EnVuelo
    PROVE  IInv'
<1> USE DEF pcbs, colas, recursos, semaforos, hilos, consolas, hilos_de_io
<1>1. /\ TipoPcbs' /\ TipoColas' /\ TipoRecursos' /\ TipoSemaforos' /\ TipoHilos'
      /\ TestigoDeCpu' /\ PcbsTomados' /\ DespertaresContados' /\ EsperasContadas'
      /\ ColaNewPura' /\ ColaReadyPura' /\ ColaExecPura' /\ ColasDeRecursosPuras'
      /\ DurmientesBloqueados' /\ SinCrearFueraDeColas'
  BY Marco
<1>2. ContextoEnUnLugar' /\ UnAvisoPorContexto'
  BY DEF IInv, ContextoEnUnLugar, UnAvisoPorContexto
<1>. QED
  BY <1>1, <1>2 DEF IInv, TypeOK, ColasPorEstado

\* The CPU takes a context: it goes from the socket to the CPU.
LEMMA PasoCpuRecibe ==
    ASSUME IInv, CpuRecibe
    PROVE  IInv'
<1> USE DEF CpuRecibe
<1>1. /\ hacia_cpu \in Seq(Contexto) /\ hacia_cpu # <<>> /\ Len(desde_cpu) \in Nat
  BY DEF IInv, TypeOK, TipoEnlace
<1>2. /\ Head(hacia_cpu) \in Contexto /\ Tail(hacia_cpu) \in Seq(Contexto)
      /\ Len(Tail(hacia_cpu)) = Len(hacia_cpu) - 1 /\ Len(hacia_cpu) \in Nat
  BY <1>1, TailFacts
<1>3. Head(hacia_cpu).pid \in Proc /\ Head(hacia_cpu) \in [pid : ProcONull, program_counter : Nat]
  BY <1>2 DEF Contexto, ProcONull
<1>4. TipoEnlace'
  BY <1>2, <1>3 DEF IInv, TypeOK, TipoEnlace
<1>5. cpu'.pid # NoProc
  BY <1>3, ConstantesAssumption
<1>6. EnVuelo' = EnVuelo
  BY <1>1, <1>2, <1>5 DEF EnVuelo, Uno
<1>. QED
  BY <1>4, <1>6, MarcoCpu

\* An instruction that stays inside the CPU.
LEMMA PasoCpuSigue ==
    ASSUME IInv, CpuSigue
    PROVE  IInv'
<1> USE DEF CpuSigue
<1>1. TipoEnlace'
  BY DEF IInv, TypeOK, TipoEnlace
<1>2. EnVuelo' = EnVuelo
  BY DEF EnVuelo
<1>. QED
  BY <1>1, <1>2, MarcoCpu

\* The CPU gives a context back: it goes from the CPU to the socket.
LEMMA PasoCpuDevuelve ==
    ASSUME IInv, CpuDevuelve
    PROVE  IInv'
<1> DEFINE ins == InstruccionActual
           ctx == [pid |-> cpu.pid, program_counter |-> cpu.program_counter + 1,
                   cod_op |-> CodigoDeDevolucion(ins.codigo), nombre |-> ins.nombre]
<1>1. /\ cpu.pid # NoProc /\ cpu.program_counter < Len(programa[cpu.pid])
      /\ ins.codigo # "SET"
      /\ desde_cpu' = Append(desde_cpu, ctx)
      /\ cpu' = CpuInactiva
      /\ UNCHANGED <<pcbs, colas, recursos, semaforos, hilos, hacia_cpu>>
  BY DEF CpuDevuelve, HayInstruccion, DevolverProceso
<1>2. /\ cpu.pid \in Proc /\ cpu.program_counter \in Nat
      /\ desde_cpu \in Seq(Devuelto) /\ Len(hacia_cpu) \in Nat /\ hacia_cpu \in Seq(Contexto)
      /\ programa[cpu.pid] \in Seq(Instruccion)
  BY <1>1 DEF IInv, TypeOK, TipoEnlace, TipoPcbs, ProcONull
<1>3. ins \in Instruccion
  <2>1. cpu.program_counter + 1 \in 1..Len(programa[cpu.pid])
    BY <1>1, <1>2
  <2>. QED
    BY <2>1, <1>2 DEF InstruccionActual
<1>4. CodigoDeDevolucion(ins.codigo) \in CodigosDeOperacion /\ ins.nombre \in NombreONull
  BY <1>1, <1>3 DEF Instruccion, Codigos, CodigosDeOperacion, CodigoDeDevolucion
<1> HIDE DEF ins
<1>5. ctx \in Devuelto
  BY <1>2, <1>4 DEF Devuelto
<1> HIDE DEF ctx
<1>6. desde_cpu' \in Seq(Devuelto) /\ Len(desde_cpu') = Len(desde_cpu) + 1
      /\ Len(desde_cpu) \in Nat
  BY <1>1, <1>2, <1>5, AppendFacts
<1>7. TipoEnlace'
  BY <1>1, <1>2, <1>6 DEF TipoEnlace, CpuInactiva, ProcONull
<1>8. cpu'.pid = NoProc
  BY <1>1 DEF CpuInactiva
<1>9. EnVuelo' = EnVuelo
  BY <1>1, <1>2, <1>6, <1>8 DEF EnVuelo, Uno
<1>. QED
  BY <1>1, <1>7, <1>9, MarcoCpu

-----------------------------------------------------------------------------
(* The thread that handles the answers of the CPU *)

\* A posted proceso_enviado finds the pcb alone in cola_exec.
LEMMA PasoHiloCpuEspera ==
    ASSUME IInv, HiloCpuEspera
    PROVE  IInv'
<1> USE DEF HiloCpuEspera, pcbs, colas, recursos, semaforos, hilos, consolas, hilos_de_io, enlace
<1>0. hilo_cpu'.pc = "recibe" /\ hilo_cpu'.pcb = Head(cola_exec)
  BY DEF HiloCpuEn
<1>1. /\ TipoPcbs' /\ TipoColas' /\ TipoRecursos' /\ TipoEnlace'
      /\ DespertaresContados' /\ EsperasContadas'
      /\ ColaNewPura' /\ ColaReadyPura' /\ ColaExecPura' /\ ColasDeRecursosPuras'
      /\ DurmientesBloqueados' /\ SinCrearFueraDeColas'
  BY Marco
<1>2. TipoSemaforos'
  BY DEF IInv, TypeOK, TipoSemaforos
<1>3. cola_exec \in Seq(Proc) /\ Head(cola_exec) \in Proc /\ Len(cola_exec) \in Nat
      /\ Head(cola_exec) = cola_exec[1] /\ Len(cola_exec) > 0
  BY TailFacts DEF IInv, TypeOK, TipoColas
<1>4. TipoHilos'
  BY <1>3 DEF IInv, TypeOK, TipoHilos, HiloCpuEn, ProcONull, NombreONull
<1>5. TestigoDeCpu'
  BY <1>0 DEF IInv, TestigoDeCpu, Uno
<1>6. ContextoEnUnLugar'
  BY <1>0 DEF IInv, ContextoEnUnLugar, EnVuelo, Uno
<1>7. UnAvisoPorContexto'
  <2>1. proceso_enviado \in Nat /\ EnVuelo' = EnVuelo
    BY DEF IInv, TypeOK, TipoSemaforos, EnVuelo
  <2>. QED
    BY <2>1, <1>0 DEF IInv, UnAvisoPorContexto, Uno
<1>8. PcbsTomados'
  <2>1. Len(cola_exec) = 1
    <3> DEFINE n == Len(cola_exec)
    <3>1. n \in Nat /\ n > 0
      BY <1>3
    <3>2. n <= 1
      BY UnoEnLaCpu DEF UnSoloProcesoEnCpu
    <3> HIDE DEF n
    <3>3. n = 1
      BY <3>1, <3>2
    <3>. QED
      BY <3>3 DEF n
  <2>2. cola_exec = <<Head(cola_exec)>>
    BY <2>1, <1>3, ColaDeUno
  <2>. QED
    BY <2>2, <1>0, <1>3 DEF IInv, PcbsTomados
<1>. QED
  BY <1>1, <1>2, <1>4, <1>5, <1>6, <1>7, <1>8 DEF IInv, TypeOK, ColasPorEstado

\* The answer comes in: the context is in the kernel again.
LEMMA PasoHiloCpuRecibe ==
    ASSUME IInv, HiloCpuRecibe
    PROVE  IInv'
<1> USE DEF HiloCpuRecibe, pcbs, colas, recursos, semaforos, hilos, consolas, hilos_de_io, enlace
<1>1. /\ TipoColas' /\ TipoRecursos' /\ TipoSemaforos'
      /\ DespertaresContados' /\ EsperasContadas'
      /\ ColaNewPura' /\ ColaReadyPura' /\ ColaExecPura' /\ ColasDeRecursosPuras'
      /\ DurmientesBloqueados' /\ SinCrearFueraDeColas'
  BY Marco
<1>2. /\ desde_cpu \in Seq(Devuelto) /\ Head(desde_cpu) \in Devuelto
      /\ Tail(desde_cpu) \in Seq(Devuelto) /\ Len(Tail(desde_cpu)) = Len(desde_cpu) - 1
      /\ Len(desde_cpu) \in Nat /\ Len(hacia_cpu) \in Nat
  BY TailFacts DEF IInv, TypeOK, TipoEnlace
<1>3. /\ Head(desde_cpu).program_counter \in Nat
      /\ Head(desde_cpu).cod_op \in CodigosDeOperacion
      /\ Head(desde_cpu).nombre \in NombreONull
  BY <1>2 DEF Devuelto
<1>4. TipoPcbs'
  BY <1>3 DEF IInv, TypeOK, TipoPcbs
<1>5. TipoEnlace'
  BY <1>2 DEF IInv, TypeOK, TipoEnlace
<1>6. TipoHilos'
  BY <1>3 DEF IInv, TypeOK, TipoHilos
<1>7. TestigoDeCpu'
  BY DEF IInv, TestigoDeCpu, Uno
<1>8. EnVuelo' = EnVuelo - 1 /\ EnVuelo \in Nat
  BY <1>2 DEF EnVuelo, Uno
<1>81. EnVuelo' = EnVuelo - 1 /\ EnVuelo \in Nat /\ hilo_cpu'.pc = "procesa"
  BY <1>8
<1>9. ContextoEnUnLugar'
  BY <1>81 DEF IInv, ContextoEnUnLugar, Uno
<1>10. UnAvisoPorContexto'
  <2>1. proceso_enviado \in Nat
    BY DEF IInv, TypeOK, TipoSemaforos
  <2>. QED
    BY <2>1, <1>81 DEF IInv, UnAvisoPorContexto, Uno
<1>11. PcbsTomados'
  BY DEF IInv, PcbsTomados
<1>. QED
  BY <1>1, <1>4, <1>5, <1>6, <1>7, <1>9, <1>10, <1>11 DEF IInv, TypeOK, ColasPorEstado

\* The post of cpu_liberada gives the right to use the CPU back.
LEMMA PasoHiloCpuLibera ==
    ASSUME IInv, HiloCpuLibera
    PROVE  IInv'
<1> USE DEF HiloCpuLibera, pcbs, colas, recursos, semaforos, hilos, consolas, hilos_de_io, enlace
<1>0. hilo_cpu'.pc = "espera" /\ hilo_cpu'.pcb = NoProc
  BY DEF HiloCpuEn
<1>1. /\ TipoPcbs' /\ TipoColas' /\ TipoRecursos' /\ TipoEnlace'
      /\ DespertaresContados' /\ EsperasContadas'
      /\ ColaNewPura' /\ ColaReadyPura' /\ ColaExecPura' /\ ColasDeRecursosPuras'
      /\ DurmientesBloqueados' /\ SinCrearFueraDeColas'
  BY Marco
<1>2. TipoSemaforos'
  BY DEF IInv, TypeOK, TipoSemaforos
<1>3. TipoHilos'
  BY DEF IInv, TypeOK, TipoHilos, HiloCpuEn, ProcONull, NombreONull
<1>4. TestigoDeCpu'
  <2>1. cpu_liberada \in Nat /\ Len(cola_exec) \in Nat
    BY DEF IInv, TypeOK, TipoSemaforos, TipoColas
  <2>. QED
    BY <2>1, <1>0 DEF IInv, TestigoDeCpu, Uno
<1>5. ContextoEnUnLugar'
  BY <1>0 DEF IInv, ContextoEnUnLugar, EnVuelo, Uno
<1>6. UnAvisoPorContexto'
  BY <1>0 DEF IInv, UnAvisoPorContexto, EnVuelo, Uno
<1>7. PcbsTomados'
  BY <1>0 DEF IInv, PcbsTomados
<1>. QED
  BY <1>1, <1>2, <1>3, <1>4, <1>5, <1>6, <1>7 DEF IInv, TypeOK, ColasPorEstado

\* The process that keeps the CPU goes out again.
LEMMA PasoHiloCpuEjecuta ==
    ASSUME IInv, HiloCpuEjecuta
    PROVE  IInv'
<1> USE DEF HiloCpuEjecuta, EjecutarProceso, pcbs, colas, recursos, semaforos, hilos,
            consolas, hilos_de_io, enlace
<1>0. hilo_cpu'.pc = "espera" /\ hilo_cpu'.pcb = NoProc
  BY DEF HiloCpuEn
<1>1. /\ TipoPcbs' /\ TipoColas' /\ TipoRecursos'
      /\ DespertaresContados' /\ EsperasContadas'
      /\ ColaNewPura' /\ ColaReadyPura' /\ ColaExecPura' /\ ColasDeRecursosPuras'
      /\ DurmientesBloqueados' /\ SinCrearFueraDeColas'
  BY Marco
<1>2. TipoSemaforos'
  BY DEF IInv, TypeOK, TipoSemaforos
<1>3. TipoHilos'
  BY DEF IInv, TypeOK, TipoHilos, HiloCpuEn, ProcONull, NombreONull
<1>4. cola_exec = <<hilo_cpu.pcb>> /\ cola_exec \in Seq(Proc)
  BY DEF IInv, TypeOK, TipoColas, PcbsTomados
<1>5. hilo_cpu.pcb \in Proc
  <2>1. Len(cola_exec) = 1 /\ cola_exec[1] = hilo_cpu.pcb
    BY <1>4
  <2>. QED
    BY <2>1, <1>4, ColaDeUno
<1>6. /\ hacia_cpu \in Seq(Contexto)
      /\ [pid |-> hilo_cpu.pcb, program_counter |-> program_counter[hilo_cpu.pcb]] \in Contexto
  BY <1>5 DEF IInv, TypeOK, TipoPcbs, TipoEnlace, Contexto
<1>7. hacia_cpu' \in Seq(Contexto) /\ Len(hacia_cpu') = Len(hacia_cpu) + 1
  BY <1>6, AppendFacts
<1>8. TipoEnlace'
  BY <1>7 DEF IInv, TypeOK, TipoEnlace
<1>9. TestigoDeCpu'
  BY <1>0 DEF IInv, TestigoDeCpu, Uno
<1>10. Len(hacia_cpu) \in Nat /\ Len(desde_cpu) \in Nat /\ Len(cola_exec) \in Nat
       /\ proceso_enviado \in Nat
  BY <1>6 DEF IInv, TypeOK, TipoEnlace, TipoColas, TipoSemaforos
<1>11. EnVuelo' = EnVuelo + 1 /\ EnVuelo \in Nat
  <2>1. Uno(cpu.pid # NoProc) \in Nat
    BY DEF Uno
  <2>2. EnVuelo' = Len(hacia_cpu') + Uno(cpu.pid # NoProc) + Len(desde_cpu)
    BY DEF EnVuelo
  <2>. QED
    BY <2>1, <2>2, <1>7, <1>10 DEF EnVuelo
<1>12. ContextoEnUnLugar'
  BY <1>0, <1>10, <1>11 DEF IInv, ContextoEnUnLugar, Uno
<1>13. UnAvisoPorContexto'
  BY <1>0, <1>10, <1>11 DEF IInv, UnAvisoPorContexto, Uno
<1>14. PcbsTomados'
  BY <1>0 DEF IInv, PcbsTomados
<1>. QED
  BY <1>1, <1>2, <1>3, <1>8, <1>9, <1>12, <1>13, <1>14 DEF IInv, TypeOK, ColasPorEstado

\* While an answer is being handled, its process is the only one in cola_exec.
LEMMA EnProcesa ==
    ASSUME IInv, hilo_cpu.pc = "procesa"
    PROVE  /\ hilo_cpu.pcb \in Proc
           /\ cola_exec = <<hilo_cpu.pcb>> /\ Len(cola_exec) = 1
           /\ Head(cola_exec) = hilo_cpu.pcb /\ Tail(cola_exec) = <<>>
           /\ estado_actual[hilo_cpu.pcb] = "EXEC"
<1>1. cola_exec = <<hilo_cpu.pcb>> /\ cola_exec \in Seq(Proc)
  BY DEF IInv, TypeOK, TipoColas, PcbsTomados
<1>2. Len(cola_exec) = 1 /\ cola_exec[1] = hilo_cpu.pcb
  BY <1>1
<1>3. hilo_cpu.pcb \in Proc /\ Head(cola_exec) = hilo_cpu.pcb
  BY <1>1, <1>2, ColaDeUno
<1>4. Tail(cola_exec) = <<>>
  BY <1>1
<1>5. estado_actual[hilo_cpu.pcb] = "EXEC"
  BY <1>2 DEF IInv, ColasPorEstado, ColaExecPura, TodosEn
<1>. QED
  BY <1>1, <1>2, <1>3, <1>4, <1>5

\* The thread keeps the right to use the CPU between the move and the post.
LEMMA LaCpuQuedaPorLiberar ==
    ASSUME IInv, NEW c, Procesa(c, "libera"), cola_exec' = <<>>,
           UNCHANGED <<cola_new, insertando, indice>>, hilos_io' \subseteq Proc
    PROVE  /\ TipoHilos' /\ TipoEnlace'
           /\ TestigoDeCpu' /\ ContextoEnUnLugar' /\ UnAvisoPorContexto' /\ PcbsTomados'
<1>1. /\ hilo_cpu.pc = "procesa" /\ hilo_cpu'.pc = "libera"
      /\ hilo_cpu' = HiloCpuEn("libera", hilo_cpu.pcb)
      /\ UNCHANGED <<cpu_liberada, proceso_enviado, consola, retirado, respuesta, plp, pcp,
                     enlace>>
  BY DEF Procesa, HiloCpuEn, consolas
<1>2. hilo_cpu.pcb \in Proc /\ Len(cola_exec) = 1
  BY <1>1, EnProcesa
<1>3. TipoHilos'
  BY <1>1, <1>2 DEF IInv, TypeOK, TipoHilos, HiloCpuEn, ProcONull, NombreONull
<1>4. TipoEnlace'
  BY <1>1 DEF IInv, TypeOK, TipoEnlace, enlace
<1>5. Len(cola_exec') = 0
  OBVIOUS
<1>6. TestigoDeCpu'
  <2>1. cpu_liberada \in Nat /\ Uno(pcp.pc \in {"espera_ready", "elige", "despacha"}) \in Nat
    BY DEF IInv, TypeOK, TipoSemaforos, Uno
  <2>2. Uno(hilo_cpu.pc = "libera") = 0 /\ Uno(hilo_cpu'.pc = "libera") = 1
    BY <1>1 DEF Uno
  <2>. QED
    BY <2>1, <2>2, <1>1, <1>2, <1>5 DEF IInv, TestigoDeCpu
<1>7. EnVuelo' = EnVuelo
  BY <1>1 DEF EnVuelo, enlace
<1>8. ContextoEnUnLugar'
  <2>1. Uno(pcp.pc = "ejecuta") \in Nat /\ EnVuelo \in Nat
    BY DEF IInv, TypeOK, TipoEnlace, EnVuelo, Uno
  <2>2. /\ Uno(hilo_cpu.pc \in {"procesa", "ejecuta"}) = 1
        /\ Uno(hilo_cpu'.pc \in {"procesa", "ejecuta"}) = 0
    BY <1>1 DEF Uno
  <2>. QED
    BY <2>1, <2>2, <1>1, <1>2, <1>5, <1>7 DEF IInv, ContextoEnUnLugar
<1>9. UnAvisoPorContexto'
  BY <1>1, <1>7 DEF IInv, UnAvisoPorContexto, Uno
<1>10. PcbsTomados'
  BY <1>1 DEF IInv, PcbsTomados
<1>. QED
  BY <1>3, <1>4, <1>6, <1>8, <1>9, <1>10

\* A process that keeps the CPU stays in cola_exec.
LEMMA LaCpuQuedaTomada ==
    ASSUME IInv, NEW c, Procesa(c, "ejecuta"), UNCHANGED <<cola_exec, cola_new, hilos_io, insertando, indice>>
    PROVE  /\ TipoHilos' /\ TipoEnlace'
           /\ TestigoDeCpu' /\ ContextoEnUnLugar' /\ UnAvisoPorContexto' /\ PcbsTomados'
<1>1. /\ hilo_cpu.pc = "procesa" /\ hilo_cpu'.pc = "ejecuta" /\ hilo_cpu'.pcb = hilo_cpu.pcb
      /\ hilo_cpu' = HiloCpuEn("ejecuta", hilo_cpu.pcb)
      /\ UNCHANGED <<cpu_liberada, proceso_enviado, consola, retirado, respuesta, plp, pcp,
                     enlace>>
  BY DEF Procesa, HiloCpuEn, consolas
<1>2. TipoHilos'
  BY <1>1, EnProcesa DEF IInv, TypeOK, TipoHilos, HiloCpuEn, ProcONull, NombreONull
<1>3. TipoEnlace'
  BY <1>1 DEF IInv, TypeOK, TipoEnlace, enlace
<1>4. TestigoDeCpu'
  BY <1>1 DEF IInv, TestigoDeCpu, Uno
<1>5. EnVuelo' = EnVuelo
  BY <1>1 DEF EnVuelo, enlace
<1>6. ContextoEnUnLugar' /\ UnAvisoPorContexto'
  BY <1>1, <1>5 DEF IInv, ContextoEnUnLugar, UnAvisoPorContexto, Uno
<1>7. PcbsTomados'
  BY <1>1 DEF IInv, PcbsTomados
<1>. QED
  BY <1>2, <1>3, <1>4, <1>6, <1>7

\* YIELD moves the running process to cola_ready.
LEMMA PasoProcesarYield ==
    ASSUME IInv, ProcesarYield
    PROVE  IInv'
<1> DEFINE p == hilo_cpu.pcb
<1>1. /\ Procesa("YIELD", "libera") /\ hilo_cpu.pc = "procesa"
      /\ UNCHANGED <<programa, program_counter, motivo, destruidos, procesos_en_kernel,
                     sem_nuevo_proceso, sem_grado_multiprogramacion, cpu_liberada,
                     proceso_enviado, sem_exit_proceso, recursos, hilos_io, insertando, indice,
                     consola, pcp>>
  BY DEF ProcesarYield, Procesa, consolas, hilos_de_io
<1>2. /\ p \in Proc /\ cola_exec = <<p>> /\ Len(cola_exec) = 1
      /\ Head(cola_exec) = p /\ Tail(cola_exec) = <<>> /\ estado_actual[p] = "EXEC"
  BY <1>1, EnProcesa
<1>3. /\ estado_actual' = [estado_actual EXCEPT ![p] = "READY"]
      /\ cola_exec' = <<>>
      /\ cola_ready' = Append(cola_ready, p)
      /\ sem_ready_proceso' = sem_ready_proceso + 1
      /\ UNCHANGED <<cola_new, cola_block, cola_exit>>
  BY <1>2 DEF ProcesarYield, PasarAColaReady, QuitarDeColaActual, Sacado, Insertar
<1> HIDE DEF p
<1>4. /\ cola_ready' \in Seq(Proc) /\ estado_actual' \in [Proc -> Estados]
      /\ ColaReadyPura' /\ DespertaresContados'
  BY <1>1, <1>2, <1>3, EntraEnReady
<1>5. hilos_io' \subseteq Proc
  BY <1>1 DEF IInv, TypeOK, TipoHilos
<1>6. /\ TipoHilos' /\ TipoEnlace'
      /\ TestigoDeCpu' /\ ContextoEnUnLugar' /\ UnAvisoPorContexto' /\ PcbsTomados'
  BY <1>1, <1>3, <1>5, LaCpuQuedaPorLiberar
<1>7. /\ ColaNewPura' /\ ColasDeRecursosPuras' /\ DurmientesBloqueados'
      /\ SinCrearFueraDeColas'
  BY <1>1, <1>2, <1>3, CambioDeEstado DEF recursos
<1>8. TipoPcbs'
  BY <1>1, <1>4 DEF IInv, TypeOK, TipoPcbs
<1>9. TipoColas'
  BY <1>3, <1>4 DEF IInv, TypeOK, TipoColas
<1>10. TipoRecursos' /\ EsperasContadas'
  BY <1>1, Marco
<1>11. TipoSemaforos'
  BY <1>1, <1>3 DEF IInv, TypeOK, TipoSemaforos
<1>12. ColaExecPura'
  BY <1>3 DEF ColaExecPura, TodosEn
<1>. QED
  BY <1>4, <1>6, <1>7, <1>8, <1>9, <1>10, <1>11, <1>12 DEF IInv, TypeOK, ColasPorEstado

\* The end of a process, whatever the cause.
LEMMA PasoTerminarProceso ==
    ASSUME IInv, NEW c, NEW causa \in Motivos, Procesa(c, "libera"), TerminarProceso(causa)
    PROVE  IInv'
<1> DEFINE p == hilo_cpu.pcb
<1>1. /\ hilo_cpu.pc = "procesa"
      /\ UNCHANGED <<programa, program_counter, destruidos, procesos_en_kernel,
                     sem_nuevo_proceso, sem_grado_multiprogramacion, sem_ready_proceso,
                     cpu_liberada, proceso_enviado, recursos, hilos_io, insertando, indice,
                     consola, pcp>>
  BY DEF Procesa, TerminarProceso, consolas, hilos_de_io
<1>2. /\ p \in Proc /\ cola_exec = <<p>> /\ Len(cola_exec) = 1
      /\ Tail(cola_exec) = <<>> /\ estado_actual[p] = "EXEC"
  BY <1>1, EnProcesa
<1>3. /\ estado_actual' = [estado_actual EXCEPT ![p] = "EXIT"]
      /\ motivo' = [motivo EXCEPT ![p] = causa]
      /\ cola_exec' = <<>>
      /\ cola_exit' = Append(cola_exit, p)
      /\ sem_exit_proceso' = [sem_exit_proceso EXCEPT ![p] = @ + 1]
      /\ UNCHANGED <<cola_new, cola_ready, cola_block>>
  BY <1>2 DEF TerminarProceso, PasarAColaExit, DescartarExec
<1> HIDE DEF p
<1>4. hilos_io' \subseteq Proc
  BY <1>1 DEF IInv, TypeOK, TipoHilos
<1>5. /\ TipoHilos' /\ TipoEnlace'
      /\ TestigoDeCpu' /\ ContextoEnUnLugar' /\ UnAvisoPorContexto' /\ PcbsTomados'
  BY <1>1, <1>3, <1>4, LaCpuQuedaPorLiberar
<1>6. /\ ColaNewPura' /\ ColaReadyPura' /\ ColasDeRecursosPuras' /\ DurmientesBloqueados'
      /\ SinCrearFueraDeColas'
  BY <1>1, <1>2, <1>3, CambioDeEstado DEF recursos
<1>7. TipoPcbs'
  BY <1>1, <1>2, <1>3 DEF IInv, TypeOK, TipoPcbs, Estados
<1>8. TipoColas'
  <2>1. cola_exit' \in Seq(Proc)
    BY <1>2, <1>3, AppendFacts DEF IInv, TypeOK, TipoColas
  <2>. QED
    BY <2>1, <1>3 DEF IInv, TypeOK, TipoColas
<1>9. TipoRecursos' /\ EsperasContadas' /\ DespertaresContados'
  BY <1>1, <1>3, Marco
<1>10. TipoSemaforos'
  BY <1>1, <1>2, <1>3 DEF IInv, TypeOK, TipoSemaforos
<1>11. ColaExecPura'
  BY <1>3 DEF ColaExecPura, TodosEn
<1>. QED
  BY <1>5, <1>6, <1>7, <1>8, <1>9, <1>10, <1>11 DEF IInv, TypeOK, ColasPorEstado

\* IO moves the running process to cola_block and starts its thread.
LEMMA PasoProcesarBloqueado ==
    ASSUME IInv, ProcesarBloqueado
    PROVE  IInv'
<1> DEFINE p == hilo_cpu.pcb
<1>1. /\ Procesa("BLOQUEADO", "libera") /\ hilo_cpu.pc = "procesa"
      /\ UNCHANGED <<programa, program_counter, motivo, destruidos, procesos_en_kernel,
                     sem_nuevo_proceso, sem_grado_multiprogramacion, sem_ready_proceso,
                     cpu_liberada, proceso_enviado, sem_exit_proceso, recursos, insertando, indice,
                     consola, pcp>>
  BY DEF ProcesarBloqueado, Procesa, PasarAColaBlocked, recursos, consolas
<1>2. /\ p \in Proc /\ cola_exec = <<p>> /\ Len(cola_exec) = 1
      /\ Tail(cola_exec) = <<>> /\ estado_actual[p] = "EXEC"
  BY <1>1, EnProcesa
<1>3. /\ estado_actual' = [estado_actual EXCEPT ![p] = "BLOCK"]
      /\ cola_exec' = <<>>
      /\ cola_block' = [cola_block EXCEPT ![p] = @ + 1]
      /\ hilos_io' = hilos_io \cup {p}
      /\ UNCHANGED <<cola_new, cola_ready, cola_exit, cola_bloqueados>>
  BY <1>2 DEF ProcesarBloqueado, PasarAColaBlocked, DescartarExec
<1> HIDE DEF p
<1>4. hilos_io' \subseteq Proc
  BY <1>2, <1>3 DEF IInv, TypeOK, TipoHilos
<1>5. /\ TipoHilos' /\ TipoEnlace'
      /\ TestigoDeCpu' /\ ContextoEnUnLugar' /\ UnAvisoPorContexto' /\ PcbsTomados'
  BY <1>1, <1>3, <1>4, LaCpuQuedaPorLiberar
<1>6. /\ ColaNewPura' /\ ColaReadyPura' /\ ColasDeRecursosPuras' /\ SinCrearFueraDeColas'
  BY <1>1, <1>2, <1>3, CambioDeEstado
<1>7. TipoPcbs'
  BY <1>1, <1>2, <1>3 DEF IInv, TypeOK, TipoPcbs, Estados
<1>8. TipoColas'
  BY <1>2, <1>3 DEF IInv, TypeOK, TipoColas
<1>9. TipoRecursos' /\ EsperasContadas' /\ DespertaresContados'
  BY <1>1, <1>3, Marco
<1>10. TipoSemaforos'
  BY <1>1 DEF IInv, TypeOK, TipoSemaforos
<1>11. ColaExecPura'
  BY <1>3 DEF ColaExecPura, TodosEn
<1>12. DurmientesBloqueados'
  <2>1. estado_actual \in [Proc -> Estados] /\ hilos_io \subseteq Proc
    BY DEF IInv, TypeOK, TipoPcbs, TipoHilos
  <2>. QED
    BY <2>1, <1>2, <1>3 DEF IInv, ColasPorEstado, DurmientesBloqueados
<1>. QED
  BY <1>5, <1>6, <1>7, <1>8, <1>9, <1>10, <1>11, <1>12 DEF IInv, TypeOK, ColasPorEstado

\* WAIT without instances: one more waits, one less is counted.
LEMMA PasoProcesarWaitSinInstancias ==
    ASSUME IInv, ProcesarWaitSinInstancias
    PROVE  IInv'
<1> DEFINE p == hilo_cpu.pcb
           r == hilo_cpu.nombre
<1>1. /\ Procesa("WAIT", "libera") /\ hilo_cpu.pc = "procesa" /\ r \in Recurso
      /\ instancias[r] - 1 < 0 /\ instancias' = [instancias EXCEPT ![r] = @ - 1]
      /\ UNCHANGED <<programa, program_counter, motivo, destruidos, procesos_en_kernel,
                     sem_nuevo_proceso, sem_grado_multiprogramacion, sem_ready_proceso,
                     cpu_liberada, proceso_enviado, sem_exit_proceso, hilos_io, insertando, indice,
                     consola, pcp>>
  BY DEF ProcesarWaitSinInstancias, Procesa, consolas, hilos_de_io
<1>2. /\ p \in Proc /\ cola_exec = <<p>> /\ Len(cola_exec) = 1
      /\ Tail(cola_exec) = <<>> /\ estado_actual[p] = "EXEC"
  BY <1>1, EnProcesa
<1>3. /\ estado_actual' = [estado_actual EXCEPT ![p] = "BLOCK_RECURSO"]
      /\ cola_exec' = <<>>
      /\ cola_bloqueados' = [cola_bloqueados EXCEPT ![r] = Append(@, p)]
      /\ UNCHANGED <<cola_new, cola_ready, cola_block, cola_exit>>
  BY <1>2 DEF ProcesarWaitSinInstancias, PasarAColaBloqueadosDe, DescartarExec
<1> HIDE DEF p, r
<1>4. hilos_io' \subseteq Proc
  BY <1>1 DEF IInv, TypeOK, TipoHilos
<1>5. /\ TipoHilos' /\ TipoEnlace'
      /\ TestigoDeCpu' /\ ContextoEnUnLugar' /\ UnAvisoPorContexto' /\ PcbsTomados'
  BY <1>1, <1>3, <1>4, LaCpuQuedaPorLiberar
<1>6. /\ ColaNewPura' /\ ColaReadyPura' /\ DurmientesBloqueados' /\ SinCrearFueraDeColas'
  BY <1>1, <1>2, <1>3, CambioDeEstado
<1>7. TipoPcbs'
  BY <1>1, <1>2, <1>3 DEF IInv, TypeOK, TipoPcbs, Estados
<1>8. TipoColas'
  BY <1>3 DEF IInv, TypeOK, TipoColas
<1>9. /\ instancias \in [Recurso -> Int] /\ cola_bloqueados \in [Recurso -> Seq(Proc)]
      /\ estado_actual \in [Proc -> Estados]
  BY DEF IInv, TypeOK, TipoRecursos, TipoPcbs
<1>10. /\ Append(cola_bloqueados[r], p) \in Seq(Proc)
       /\ Len(cola_bloqueados[r]) \in Nat
       /\ Len(Append(cola_bloqueados[r], p)) = Len(cola_bloqueados[r]) + 1
       /\ \A i \in 1..Len(cola_bloqueados[r]) :
             Append(cola_bloqueados[r], p)[i] = cola_bloqueados[r][i]
       /\ Append(cola_bloqueados[r], p)[Len(cola_bloqueados[r]) + 1] = p
  BY <1>1, <1>2, <1>9, AppendFacts
<1>11. TipoRecursos'
  BY <1>1, <1>3, <1>9, <1>10 DEF TipoRecursos
<1>12. EsperasContadas'
  <2>1. \A s \in Recurso : s # r => /\ instancias'[s] = instancias[s]
                                    /\ cola_bloqueados'[s] = cola_bloqueados[s]
    BY <1>1, <1>3, <1>9
  <2>2. /\ instancias'[r] = instancias[r] - 1 /\ instancias[r] \in Int
        /\ Len(cola_bloqueados'[r]) = Len(cola_bloqueados[r]) + 1
    BY <1>1, <1>3, <1>9, <1>10
  <2>3. Len(cola_bloqueados'[r]) = IF instancias'[r] < 0 THEN -instancias'[r] ELSE 0
    BY <2>2, <1>1, <1>10 DEF IInv, EsperasContadas
  <2>. QED
    BY <2>1, <2>3 DEF IInv, EsperasContadas
<1>13. DespertaresContados'
  BY <1>1, <1>3, Marco
<1>14. TipoSemaforos'
  BY <1>1 DEF IInv, TypeOK, TipoSemaforos
<1>15. ColaExecPura'
  BY <1>3 DEF ColaExecPura, TodosEn
<1>16. ColasDeRecursosPuras'
  <2>1. \A s \in Recurso : /\ SinRepetir(cola_bloqueados[s])
                           /\ Todos(estado_actual, cola_bloqueados[s], "BLOCK_RECURSO")
    BY DEF IInv, ColasPorEstado, ColasDeRecursosPuras, TodosEn, Todos
  <2>2. \A s \in Recurso : /\ NoEsta(cola_bloqueados[s], p)
                           /\ Todos(estado_actual', cola_bloqueados[s], "BLOCK_RECURSO")
    BY <2>1, <1>2, <1>3, <1>9 DEF Todos, NoEsta
  <2>3. \A s \in Recurso : s # r => cola_bloqueados'[s] = cola_bloqueados[s]
    BY <1>3, <1>9
  <2>4. cola_bloqueados'[r] = Append(cola_bloqueados[r], p)
    BY <1>1, <1>3, <1>9
  <2>5. SinRepetir(cola_bloqueados'[r])
    BY <2>1, <2>2, <2>4, <1>1, <1>2, <1>9, ColaConUltimo
  <2>6. \A i \in 1..Len(cola_bloqueados'[r]) :
            \/ i \in 1..Len(cola_bloqueados[r]) /\ cola_bloqueados'[r][i] = cola_bloqueados[r][i]
            \/ cola_bloqueados'[r][i] = p
    BY <2>4, <1>10
  <2>7. Todos(estado_actual', cola_bloqueados'[r], "BLOCK_RECURSO")
    <3>1. estado_actual'[p] = "BLOCK_RECURSO"
      BY <1>2, <1>3, <1>9
    <3>. QED
      BY <3>1, <2>2, <2>6, <1>1 DEF Todos
  <2>8. \A s \in Recurso : /\ SinRepetir(cola_bloqueados'[s])
                           /\ Todos(estado_actual', cola_bloqueados'[s], "BLOCK_RECURSO")
    BY <2>1, <2>2, <2>3, <2>5, <2>7
  <2>0. \A s1, s2 \in Recurso :
            \A i \in 1..Len(cola_bloqueados[s1]), j \in 1..Len(cola_bloqueados[s2]) :
                cola_bloqueados[s1][i] = cola_bloqueados[s2][j] => s1 = s2
    BY DEF IInv, ColasPorEstado, ColasDeRecursosPuras
  <2>9. ASSUME NEW s \in Recurso, s # r, NEW i \in 1..Len(cola_bloqueados'[s]),
               NEW j \in 1..Len(cola_bloqueados'[r])
        PROVE  cola_bloqueados'[s][i] # cola_bloqueados'[r][j]
    <3>1. /\ cola_bloqueados'[s][i] = cola_bloqueados[s][i]
          /\ i \in 1..Len(cola_bloqueados[s])
      BY <2>3, <2>9
    <3>2. CASE j \in 1..Len(cola_bloqueados[r])
                 /\ cola_bloqueados'[r][j] = cola_bloqueados[r][j]
      BY <3>1, <3>2, <2>0, <2>9, <1>1
    <3>3. CASE cola_bloqueados'[r][j] = p
      BY <3>1, <3>3, <2>2 DEF NoEsta
    <3>. QED
      BY <3>2, <3>3, <2>6
  <2>10. ASSUME NEW s1 \in Recurso, NEW s2 \in Recurso,
                NEW i \in 1..Len(cola_bloqueados'[s1]), NEW j \in 1..Len(cola_bloqueados'[s2]),
                cola_bloqueados'[s1][i] = cola_bloqueados'[s2][j]
         PROVE  s1 = s2
    <3>1. CASE s1 # r /\ s2 # r
      BY <3>1, <2>0, <2>3, <2>10
    <3>2. CASE s1 = r /\ s2 # r
      BY <3>2, <2>9, <2>10
    <3>3. CASE s1 # r /\ s2 = r
      BY <3>3, <2>9, <2>10
    <3>. QED
      BY <3>1, <3>2, <3>3
  <2>. QED
    BY <2>8, <2>10 DEF ColasDeRecursosPuras, SinRepetir, TodosEn, Todos
<1>. QED
  BY <1>5, <1>6, <1>7, <1>8, <1>11, <1>12, <1>13, <1>14, <1>15, <1>16
  DEF IInv, TypeOK, ColasPorEstado

\* A call that the kernel answers by going on with the same process.
LEMMA SigueEnCpu ==
    ASSUME IInv, NEW c, Procesa(c, "ejecuta"), TipoRecursos', EsperasContadas',
           UNCHANGED <<estado_actual, motivo, colas, cola_bloqueados, sem_ready_proceso,
                       sem_exit_proceso, hilos_de_io>>
    PROVE  IInv'
<1>1. /\ UNCHANGED <<pcbs, colas, semaforos, consola, plp, pcp, enlace>>
      /\ UNCHANGED <<cola_new, cola_ready, cola_exec, hilos_io, insertando, indice>>
  BY DEF Procesa, pcbs, colas, semaforos, consolas, hilos_de_io
<1>2. /\ TipoHilos' /\ TipoEnlace'
      /\ TestigoDeCpu' /\ ContextoEnUnLugar' /\ UnAvisoPorContexto' /\ PcbsTomados'
  BY <1>1, LaCpuQuedaTomada
<1>3. /\ TipoPcbs' /\ TipoColas' /\ TipoSemaforos'
      /\ ColaNewPura' /\ ColaReadyPura' /\ ColaExecPura' /\ ColasDeRecursosPuras'
      /\ DurmientesBloqueados' /\ SinCrearFueraDeColas'
  BY <1>1, Marco DEF pcbs
<1>4. DespertaresContados'
  BY <1>1, Marco DEF semaforos
<1>. QED
  BY <1>2, <1>3, <1>4 DEF IInv, TypeOK, ColasPorEstado

\* A counter that moves where nobody has to wait before or after it moves.
LEMMA SinEsperas ==
    ASSUME IInv, NEW r \in Recurso, NEW v \in Int, instancias[r] >= 0, v >= 0,
           instancias' = [instancias EXCEPT ![r] = v], UNCHANGED cola_bloqueados
    PROVE  TipoRecursos' /\ EsperasContadas'
<1>1. TipoRecursos'
  BY DEF IInv, TypeOK, TipoRecursos
<1>2. /\ instancias \in [Recurso -> Int]
      /\ Len(cola_bloqueados[r]) = 0
  BY DEF IInv, TypeOK, TipoRecursos, EsperasContadas
<1>3. \A s \in Recurso : instancias'[s] = IF s = r THEN v ELSE instancias[s]
  BY <1>2
<1>4. EsperasContadas'
  BY <1>2, <1>3 DEF IInv, EsperasContadas
<1>. QED
  BY <1>1, <1>4

\* WAIT with instances: nobody was waiting and nobody waits.
LEMMA PasoProcesarWaitConInstancias ==
    ASSUME IInv, ProcesarWaitConInstancias
    PROVE  IInv'
<1> DEFINE r == hilo_cpu.nombre
<1>1. /\ Procesa("WAIT", "ejecuta") /\ r \in Recurso /\ instancias[r] - 1 >= 0
      /\ instancias' = [instancias EXCEPT ![r] = @ - 1]
      /\ UNCHANGED <<estado_actual, motivo, colas, cola_bloqueados, sem_ready_proceso,
                     sem_exit_proceso, hilos_de_io>>
  BY DEF ProcesarWaitConInstancias
<1> HIDE DEF r
<1>2. instancias[r] \in Int
  BY <1>1 DEF IInv, TypeOK, TipoRecursos
<1>3. TipoRecursos' /\ EsperasContadas'
  <2>1. /\ instancias[r] - 1 \in Int /\ instancias[r] >= 0
        /\ instancias' = [instancias EXCEPT ![r] = instancias[r] - 1]
    BY <1>1, <1>2
  <2>. QED
    BY <2>1, <1>1, SinEsperas
<1>. QED
  BY <1>1, <1>3, SigueEnCpu

\* SIGNAL with nobody waiting.
LEMMA PasoProcesarSignalSinEspera ==
    ASSUME IInv, ProcesarSignalSinEspera
    PROVE  IInv'
<1> DEFINE r == hilo_cpu.nombre
<1>1. /\ Procesa("SIGNAL", "ejecuta") /\ r \in Recurso /\ instancias[r] + 1 > 0
      /\ instancias' = [instancias EXCEPT ![r] = @ + 1]
      /\ UNCHANGED <<estado_actual, motivo, colas, cola_bloqueados, sem_ready_proceso,
                     sem_exit_proceso, hilos_de_io>>
  BY DEF ProcesarSignalSinEspera
<1> HIDE DEF r
<1>2. instancias[r] \in Int
  BY <1>1 DEF IInv, TypeOK, TipoRecursos
<1>3. TipoRecursos' /\ EsperasContadas'
  <2>1. /\ instancias[r] + 1 \in Int /\ instancias[r] >= 0 /\ instancias[r] + 1 >= 0
        /\ instancias' = [instancias EXCEPT ![r] = instancias[r] + 1]
    BY <1>1, <1>2
  <2>. QED
    BY <2>1, <1>1, SinEsperas
<1>. QED
  BY <1>1, <1>3, SigueEnCpu

\* A call to Memoria that goes on with the same process.
LEMMA PasoProcesarDeleteSegment ==
    ASSUME IInv, ProcesarDeleteSegment
    PROVE  IInv'
<1>1. /\ Procesa("DELETE_SEGMENT", "ejecuta")
      /\ UNCHANGED <<estado_actual, motivo, colas, recursos, sem_ready_proceso,
                     sem_exit_proceso, hilos_de_io>>
      /\ UNCHANGED cola_bloqueados
  BY DEF ProcesarDeleteSegment, recursos
<1>2. TipoRecursos' /\ EsperasContadas'
  BY <1>1, Marco
<1>. QED
  BY <1>1, <1>2, SigueEnCpu

\* What waking up a blocked process does, with either algorithm.
LEMMA Despierta ==
    ASSUME IInv, NEW p \in Proc, estado_actual[p] \in {"BLOCK", "BLOCK_RECURSO"},
           PasarAReadySegunAlgoritmo(p)
    PROVE  /\ estado_actual' = [estado_actual EXCEPT ![p] = "READY"]
           /\ \/ cola_ready' = Append(cola_ready, p)
              \/ cola_ready' \in InsertarEnOrden(cola_ready, p)
           /\ sem_ready_proceso' = sem_ready_proceso + 1
           /\ UNCHANGED <<cola_new, cola_exec, cola_exit>>
           /\ cola_block' \in [Proc -> Nat]
<1>1. /\ QuitarDeColaActual(p)
      /\ estado_actual' = [estado_actual EXCEPT ![p] = "READY"]
      /\ sem_ready_proceso' = sem_ready_proceso + 1
      /\ UNCHANGED cola_exit
      /\ \/ cola_ready' = Append(cola_ready, p)
         \/ cola_ready' \in InsertarEnOrden(cola_ready, p)
  BY DEF PasarAReadySegunAlgoritmo, PasarAColaReady, PasarAColaReadyEnOrden, Sacado, Insertar
<1>2. UNCHANGED <<cola_new, cola_exec>>
  BY <1>1 DEF QuitarDeColaActual
<1>3. cola_block' \in [Proc -> Nat]
  <2>1. cola_block \in [Proc -> Nat]
    BY DEF IInv, TypeOK, TipoColas
  <2>2. CASE estado_actual[p] = "BLOCK" /\ cola_block[p] > 0
    <3>1. cola_block' = [cola_block EXCEPT ![p] = @ - 1]
      BY <2>2, <1>1 DEF QuitarDeColaActual
    <3>. QED
      BY <3>1, <2>1, <2>2
  <2>3. CASE ~(estado_actual[p] = "BLOCK" /\ cola_block[p] > 0)
    BY <2>1, <2>3, <1>1 DEF QuitarDeColaActual
  <2>. QED
    BY <2>2, <2>3
<1>. QED
  BY <1>1, <1>2, <1>3

\* SIGNAL wakes the first that waits, and only that one.
LEMMA PasoProcesarSignalConEspera ==
    ASSUME IInv, ProcesarSignalConEspera
    PROVE  IInv'
<1> DEFINE r == hilo_cpu.nombre
           cola == cola_bloqueados[r]
           p == Head(cola)
<1>1. /\ Procesa("SIGNAL", "ejecuta") /\ r \in Recurso /\ cola # <<>>
      /\ instancias[r] + 1 <= 0 /\ instancias' = [instancias EXCEPT ![r] = @ + 1]
      /\ cola_bloqueados' = [cola_bloqueados EXCEPT ![r] = Tail(@)]
      /\ PasarAReadySegunAlgoritmo(p)
      /\ UNCHANGED <<programa, program_counter, motivo, destruidos, procesos_en_kernel,
                     sem_nuevo_proceso, sem_grado_multiprogramacion, cpu_liberada,
                     proceso_enviado, sem_exit_proceso, hilos_io, insertando, indice, consola,
                     pcp>>
  BY DEF ProcesarSignalConEspera, Procesa, consolas, hilos_de_io
<1>2. /\ instancias \in [Recurso -> Int] /\ cola_bloqueados \in [Recurso -> Seq(Proc)]
      /\ estado_actual \in [Proc -> Estados]
  BY DEF IInv, TypeOK, TipoRecursos, TipoPcbs
<1>3. \A s \in Recurso : /\ SinRepetir(cola_bloqueados[s])
                         /\ Todos(estado_actual, cola_bloqueados[s], "BLOCK_RECURSO")
  BY DEF IInv, ColasPorEstado, ColasDeRecursosPuras, TodosEn, Todos
<1>4. /\ cola \in Seq(Proc) /\ p \in Proc /\ p = cola[1] /\ Tail(cola) \in Seq(Proc)
      /\ Len(cola) \in Nat /\ Len(Tail(cola)) = Len(cola) - 1 /\ 1 \in 1..Len(cola)
      /\ \A i \in 1..Len(Tail(cola)) : i + 1 \in 1..Len(cola) /\ Tail(cola)[i] = cola[i + 1]
  <2>1. cola \in Seq(Proc) /\ cola # <<>>
    BY <1>1, <1>2
  <2> HIDE DEF cola
  <2>. QED
    BY <2>1, TailFacts
<1>5. estado_actual[p] = "BLOCK_RECURSO"
  BY <1>1, <1>3, <1>4 DEF Todos
<1> HIDE DEF r, p, cola
<1>6. /\ estado_actual' = [estado_actual EXCEPT ![p] = "READY"]
      /\ \/ cola_ready' = Append(cola_ready, p)
         \/ cola_ready' \in InsertarEnOrden(cola_ready, p)
      /\ sem_ready_proceso' = sem_ready_proceso + 1
      /\ UNCHANGED <<cola_new, cola_exec, cola_exit>>
      /\ cola_block' \in [Proc -> Nat]
  BY <1>1, <1>4, <1>5, Despierta
<1>7. /\ cola_ready' \in Seq(Proc) /\ estado_actual' \in [Proc -> Estados]
      /\ ColaReadyPura' /\ DespertaresContados'
  BY <1>1, <1>4, <1>5, <1>6, EntraEnReady
<1>8. ColaNewPura' /\ ColaExecPura' /\ DurmientesBloqueados' /\ SinCrearFueraDeColas'
  BY <1>1, <1>4, <1>5, <1>6, CambioDeEstado
<1>9. /\ TipoHilos' /\ TipoEnlace'
      /\ TestigoDeCpu' /\ ContextoEnUnLugar' /\ UnAvisoPorContexto' /\ PcbsTomados'
  BY <1>1, <1>6, LaCpuQuedaTomada
<1>10. TipoPcbs'
  BY <1>1, <1>7 DEF IInv, TypeOK, TipoPcbs
<1>11. TipoColas'
  BY <1>6, <1>7 DEF IInv, TypeOK, TipoColas
<1>12. TipoSemaforos'
  BY <1>1, <1>6 DEF IInv, TypeOK, TipoSemaforos
<1>13. /\ cola_bloqueados' = [cola_bloqueados EXCEPT ![r] = Tail(cola)]
       /\ cola_bloqueados'[r] = Tail(cola)
       /\ \A s \in Recurso : s # r => /\ cola_bloqueados'[s] = cola_bloqueados[s]
                                      /\ instancias'[s] = instancias[s]
       /\ instancias'[r] = instancias[r] + 1 /\ instancias[r] \in Int
  BY <1>1, <1>2 DEF cola
<1>14. TipoRecursos'
  <2>1. instancias' \in [Recurso -> Int]
    BY <1>1, <1>2, <1>13
  <2>2. cola_bloqueados' \in [Recurso -> Seq(Proc)]
    BY <1>2, <1>4, <1>13
  <2>. QED
    BY <2>1, <2>2 DEF TipoRecursos
<1>15. EsperasContadas'
  <2>1. Len(cola) = IF instancias[r] < 0 THEN -instancias[r] ELSE 0
    BY <1>1 DEF IInv, EsperasContadas, cola
  <2>2. Len(cola_bloqueados'[r]) = IF instancias'[r] < 0 THEN -instancias'[r] ELSE 0
    BY <2>1, <1>1, <1>4, <1>13
  <2>. QED
    BY <2>2, <1>13 DEF IInv, EsperasContadas
<1>16. ColasDeRecursosPuras'
  <2>1. \A s \in Recurso : s # r => NoEsta(cola_bloqueados[s], p)
    BY <1>1, <1>4 DEF NoEsta, IInv, ColasPorEstado, ColasDeRecursosPuras, cola
  <2>2. \A s \in Recurso : s # r => Todos(estado_actual', cola_bloqueados[s], "BLOCK_RECURSO")
    BY <2>1, <1>2, <1>3, <1>4, <1>6 DEF Todos, NoEsta
  <2>3. SinRepetir(Tail(cola)) /\ NoEsta(Tail(cola), p)
    BY <1>1, <1>3, <1>4, ColaSinCabeza DEF cola, p
  <2>4. Todos(estado_actual', Tail(cola), "BLOCK_RECURSO")
    <3>1. Todos(estado_actual, cola, "BLOCK_RECURSO")
      BY <1>1, <1>3 DEF cola
    <3>2. \A i \in 1..Len(Tail(cola)) :
            /\ Tail(cola)[i] \in Proc /\ Tail(cola)[i] # p
            /\ estado_actual[Tail(cola)[i]] = "BLOCK_RECURSO"
      BY <3>1, <2>3, <1>4 DEF Todos, NoEsta
    <3>. QED
      BY <3>2, <1>2, <1>6 DEF Todos
  <2>5. \A s \in Recurso : /\ SinRepetir(cola_bloqueados'[s])
                           /\ Todos(estado_actual', cola_bloqueados'[s], "BLOCK_RECURSO")
    BY <2>2, <2>3, <2>4, <1>3, <1>13
  <2>6. \A s \in Recurso : \A i \in 1..Len(cola_bloqueados'[s]) :
            \E k \in 1..Len(cola_bloqueados[s]) : cola_bloqueados'[s][i] = cola_bloqueados[s][k]
    BY <1>4, <1>13 DEF cola
  <2>7. \A s1, s2 \in Recurso :
            \A i \in 1..Len(cola_bloqueados'[s1]), j \in 1..Len(cola_bloqueados'[s2]) :
                cola_bloqueados'[s1][i] = cola_bloqueados'[s2][j] => s1 = s2
    BY <2>6 DEF IInv, ColasPorEstado, ColasDeRecursosPuras
  <2>. QED
    BY <2>5, <2>7 DEF ColasDeRecursosPuras, SinRepetir, TodosEn, Todos
<1>. QED
  BY <1>7, <1>8, <1>9, <1>10, <1>11, <1>12, <1>14, <1>15, <1>16
  DEF IInv, TypeOK, ColasPorEstado

-----------------------------------------------------------------------------
(* The threads of the I/O *)

\* The end of an I/O wakes its process, and only that one.
LEMMA PasoBloqueoIO ==
    ASSUME IInv, NEW p \in Proc, BloqueoIO(p)
    PROVE  IInv'
<1>1. /\ p \in hilos_io /\ PasarAReadySegunAlgoritmo(p) /\ hilos_io' = hilos_io \ {p}
      /\ UNCHANGED <<insertando, indice>>
      /\ UNCHANGED <<programa, program_counter, motivo, destruidos, procesos_en_kernel,
                     recursos, sem_nuevo_proceso, sem_grado_multiprogramacion, cpu_liberada,
                     proceso_enviado, sem_exit_proceso, consola, retirado, respuesta, plp, pcp,
                     hilo_cpu, enlace>>
  BY DEF BloqueoIO, PasarAReadySegunAlgoritmo, consolas
<1>2. estado_actual[p] = "BLOCK"
  BY <1>1 DEF IInv, ColasPorEstado, DurmientesBloqueados
<1>3. /\ estado_actual' = [estado_actual EXCEPT ![p] = "READY"]
      /\ \/ cola_ready' = Append(cola_ready, p)
         \/ cola_ready' \in InsertarEnOrden(cola_ready, p)
      /\ sem_ready_proceso' = sem_ready_proceso + 1
      /\ UNCHANGED <<cola_new, cola_exec, cola_exit>>
      /\ cola_block' \in [Proc -> Nat]
  BY <1>1, <1>2, Despierta
<1>4. /\ cola_ready' \in Seq(Proc) /\ estado_actual' \in [Proc -> Estados]
      /\ ColaReadyPura' /\ DespertaresContados'
  BY <1>1, <1>2, <1>3, EntraEnReady
<1>5. UNCHANGED <<instancias, cola_bloqueados, hacia_cpu, cpu, desde_cpu>>
  BY <1>1 DEF recursos, enlace
<1>6. ColaNewPura' /\ ColaExecPura' /\ ColasDeRecursosPuras' /\ SinCrearFueraDeColas'
  BY <1>1, <1>2, <1>3, <1>5, CambioDeEstado
<1>7. /\ TipoRecursos' /\ TipoEnlace' /\ TestigoDeCpu' /\ ContextoEnUnLugar'
      /\ UnAvisoPorContexto' /\ PcbsTomados' /\ EsperasContadas'
  BY <1>1, <1>3, Marco
<1>8. TipoPcbs'
  BY <1>1, <1>4 DEF IInv, TypeOK, TipoPcbs
<1>9. TipoColas'
  BY <1>3, <1>4 DEF IInv, TypeOK, TipoColas
<1>10. TipoSemaforos'
  BY <1>1, <1>3 DEF IInv, TypeOK, TipoSemaforos
<1>11. TipoHilos'
  BY <1>1 DEF IInv, TypeOK, TipoHilos
<1>12. DurmientesBloqueados'
  <2>1. estado_actual \in [Proc -> Estados] /\ hilos_io \subseteq Proc
    BY DEF IInv, TypeOK, TipoPcbs, TipoHilos
  <2>. QED
    BY <2>1, <1>1, <1>3 DEF IInv, ColasPorEstado, DurmientesBloqueados
<1>. QED
  BY <1>4, <1>6, <1>7, <1>8, <1>9, <1>10, <1>11, <1>12 DEF IInv, TypeOK, ColasPorEstado

\* Under HRRN the thread first takes its process out of cola_block: the process is
\* ready, and not yet in cola_ready.
LEMMA PasoBloqueoIOCalcula ==
    ASSUME IInv, NEW p \in Proc, BloqueoIOCalcula(p)
    PROVE  IInv'
<1>1. /\ p \in hilos_io /\ ALGORITMO = "HRRN" /\ QuitarDeColaActual(p)
      /\ estado_actual' = [estado_actual EXCEPT ![p] = "READY"]
      /\ hilos_io' = hilos_io \ {p} /\ insertando' = insertando \cup {p}
      /\ UNCHANGED <<programa, program_counter, motivo, destruidos, procesos_en_kernel,
                     cola_ready, cola_exit, instancias, cola_bloqueados, semaforos,
                     sem_ready_proceso, cpu_liberada, proceso_enviado, recursos,
                     consola, retirado, respuesta, plp, pcp, hilo_cpu, enlace>>
  BY DEF BloqueoIOCalcula, consolas, recursos, semaforos
<1>2. estado_actual[p] = "BLOCK"
  BY <1>1 DEF IInv, ColasPorEstado, DurmientesBloqueados
<1>3. /\ UNCHANGED <<cola_new, cola_exec>> /\ cola_block' \in [Proc -> Nat]
  <2>1. cola_block \in [Proc -> Nat]
    BY DEF IInv, TypeOK, TipoColas
  <2>2. CASE cola_block[p] > 0
    <3>1. cola_block' = [cola_block EXCEPT ![p] = @ - 1] /\ UNCHANGED <<cola_new, cola_exec>>
      BY <2>2, <1>1, <1>2 DEF QuitarDeColaActual
    <3>. QED
      BY <3>1, <2>1, <2>2
  <2>3. CASE ~(cola_block[p] > 0)
    BY <2>1, <2>3, <1>1, <1>2 DEF QuitarDeColaActual
  <2>. QED
    BY <2>2, <2>3
<1>4. /\ estado_actual \in [Proc -> Estados] /\ estado_actual' \in [Proc -> Estados]
      /\ cola_ready \in Seq(Proc) /\ insertando \subseteq Proc /\ hilos_io \subseteq Proc
  BY <1>1 DEF IInv, TypeOK, TipoPcbs, TipoColas, TipoHilos, Estados
<1>5. ColaNewPura' /\ ColaExecPura' /\ ColasDeRecursosPuras' /\ SinCrearFueraDeColas'
  BY <1>1, <1>2, <1>3, CambioDeEstado
<1>6. /\ TipoRecursos' /\ TipoSemaforos' /\ TipoEnlace' /\ TestigoDeCpu' /\ ContextoEnUnLugar'
      /\ UnAvisoPorContexto' /\ PcbsTomados' /\ EsperasContadas' /\ DespertaresContados'
  BY <1>1, <1>3, Marco
<1>7. TipoPcbs'
  BY <1>1, <1>4 DEF IInv, TypeOK, TipoPcbs
<1>8. TipoColas'
  BY <1>1, <1>3 DEF IInv, TypeOK, TipoColas
<1>9. TipoHilos'
  <2>1. indice' \in [Proc -> Nat \cup {-1}]
    <3>1. PICK i \in Indices(cola_ready) : indice' = [indice EXCEPT ![p] = i]
      BY DEF BloqueoIOCalcula
    <3>2. i \in Nat \cup {-1}
      BY <1>4 DEF Indices
    <3>. QED
      BY <3>1, <3>2 DEF IInv, TypeOK, TipoHilos
  <2>. QED
    BY <2>1, <1>1, <1>4 DEF IInv, TypeOK, TipoHilos
<1>10. DurmientesBloqueados'
  BY <1>1, <1>4 DEF IInv, ColasPorEstado, DurmientesBloqueados
<1>11. ColaReadyPura'
  <2>1. SinRepetir(cola_ready) /\ Todos(estado_actual, cola_ready, "READY")
    BY DEF IInv, ColasPorEstado, ColaReadyPura, TodosEn, Todos
  <2>2. NoEsta(cola_ready, p)
    BY <2>1, <1>2 DEF Todos, NoEsta
  <2>3. InsertandoFueraDeReady'
    BY <2>2, <1>1, <1>4 DEF IInv, ColasPorEstado, ColaReadyPura, InsertandoFueraDeReady, NoEsta
  <2>4. Todos(estado_actual', cola_ready, "READY")
    BY <2>1, <1>1, <1>4 DEF Todos
  <2>. QED
    BY <2>1, <2>3, <2>4, <1>1 DEF ColaReadyPura, SinRepetir, TodosEn, Todos
<1>. QED
  BY <1>5, <1>6, <1>7, <1>8, <1>9, <1>10, <1>11 DEF IInv, TypeOK, ColasPorEstado

\* list_add_in_index inserts at the index or, past the end, adds nothing.
LEMMA AgregarEnFacts ==
    ASSUME NEW s \in Seq(Proc), NEW p \in Proc, NEW k \in Nat
    PROVE  AgregarEn(s, k, p) = s \/ AgregarEn(s, k, p) \in InsertarEnOrden(s, p)
<1>1. CASE k > Len(s)
  BY <1>1 DEF AgregarEn
<1>2. CASE ~(k > Len(s))
  <2>1. k \in 0..Len(s)
    BY <1>2
  <2>. QED
    BY <2>1, <1>2 DEF AgregarEn, InsertarEnOrden
<1>. QED
  BY <1>1, <1>2

\* The second half of the insertion: in the queue or lost, its wake-up is posted.
LEMMA PasoBloqueoIOInserta ==
    ASSUME IInv, NEW p \in Proc, BloqueoIOInserta(p)
    PROVE  IInv'
<1>1. /\ p \in insertando /\ insertando' = insertando \ {p}
      /\ indice' = [indice EXCEPT ![p] = -1]
      /\ sem_ready_proceso' = sem_ready_proceso + 1
      /\ cola_ready' = IF indice[p] = -1 THEN Append(cola_ready, p)
                                         ELSE AgregarEn(cola_ready, indice[p], p)
      /\ UNCHANGED <<pcbs, estado_actual, cola_new, cola_exec, cola_block, cola_exit, recursos,
                     cola_bloqueados, sem_nuevo_proceso, sem_grado_multiprogramacion,
                     cpu_liberada, proceso_enviado, sem_exit_proceso, consola, retirado,
                     respuesta, plp, pcp, hilo_cpu, hilos_io, enlace>>
  BY DEF BloqueoIOInserta, Insertar, consolas, recursos, pcbs
<1>2. /\ cola_ready \in Seq(Proc) /\ SinRepetir(cola_ready) /\ NoEsta(cola_ready, p)
      /\ Todos(estado_actual, cola_ready, "READY") /\ estado_actual[p] = "READY"
      /\ insertando \subseteq Proc /\ indice \in [Proc -> Nat \cup {-1}]
      /\ ALGORITMO # "FIFO" /\ Len(cola_ready) \in Nat /\ sem_ready_proceso \in Nat
  BY <1>1 DEF IInv, TypeOK, TipoColas, TipoHilos, TipoSemaforos, ColasPorEstado, ColaReadyPura,
     InsertandoFueraDeReady, TodosEn, Todos, NoEsta
<1>3. \/ cola_ready' = cola_ready
      \/ cola_ready' = Append(cola_ready, p)
      \/ cola_ready' \in InsertarEnOrden(cola_ready, p)
  <2>1. CASE indice[p] = -1
    BY <2>1, <1>1
  <2>2. CASE indice[p] # -1
    <3>1. indice[p] \in Nat
      BY <2>2, <1>2
    <3>. QED
      BY <3>1, <2>2, <1>1, <1>2, AgregarEnFacts
  <2>. QED
    BY <2>1, <2>2
<1>4. /\ cola_ready' \in Seq(Proc) /\ Len(cola_ready') <= Len(cola_ready) + 1
      /\ Len(cola_ready') \in Nat
      /\ SinRepetir(cola_ready') /\ SoloAgrega(cola_ready, cola_ready', p)
  <2>1. CASE cola_ready' = cola_ready
    BY <2>1, <1>2 DEF SoloAgrega
  <2>2. CASE cola_ready' = Append(cola_ready, p)
    BY <2>2, <1>2, AppendFacts, ColaConUltimo, AgregaAlFinal
  <2>3. CASE cola_ready' \in InsertarEnOrden(cola_ready, p)
    <3>1. cola_ready' \in Seq(Proc) /\ Len(cola_ready') = Len(cola_ready) + 1
      BY <2>3, <1>2, InsertarEnOrdenFacts
    <3>2. SinRepetir(cola_ready')
      BY <2>3, <1>2, ColaEnOrden
    <3>3. SoloAgrega(cola_ready, cola_ready', p)
      BY <2>3, <1>2, AgregaEnOrden
    <3>. QED
      BY <3>1, <3>2, <3>3, <1>2
  <2>. QED
    BY <2>1, <2>2, <2>3, <1>3
<1>5. ColaReadyPura'
  <2>1. Todos(estado_actual, cola_ready', "READY")
    BY <1>2, <1>4 DEF Todos, SoloAgrega
  <2>2. InsertandoFueraDeReady'
    BY <1>1, <1>2, <1>4 DEF IInv, ColasPorEstado, ColaReadyPura, InsertandoFueraDeReady,
       SoloAgrega
  <2>. QED
    BY <2>1, <2>2, <1>1, <1>4 DEF ColaReadyPura, SinRepetir, TodosEn, Todos
<1>6. DespertaresContados'
  BY <1>1, <1>2, <1>4 DEF IInv, DespertaresContados, SinDespertarPerdido,
     SinDespertarInventado, Uno
<1>7. /\ TipoPcbs' /\ TipoRecursos' /\ TipoEnlace' /\ TestigoDeCpu' /\ ContextoEnUnLugar'
      /\ UnAvisoPorContexto' /\ PcbsTomados' /\ EsperasContadas'
      /\ ColaNewPura' /\ ColaExecPura' /\ ColasDeRecursosPuras' /\ DurmientesBloqueados'
      /\ SinCrearFueraDeColas'
  BY <1>1, Marco
<1>8. TipoColas'
  BY <1>1, <1>4 DEF IInv, TypeOK, TipoColas
<1>9. TipoSemaforos'
  BY <1>1 DEF IInv, TypeOK, TipoSemaforos
<1>10. TipoHilos'
  BY <1>1, <1>2 DEF IInv, TypeOK, TipoHilos
<1>. QED
  BY <1>5, <1>6, <1>7, <1>8, <1>9, <1>10 DEF IInv, TypeOK, ColasPorEstado

-----------------------------------------------------------------------------
(* The invariant *)

\* IInv holds in the initial state.
LEMMA InitIInv == Init => IInv
<1> SUFFICES ASSUME Init PROVE IInv
  OBVIOUS
<1> USE DEF Init
<1>1. TipoPcbs
  BY DEF TipoPcbs, Estados, Motivos
<1>2. TipoColas
  BY DEF TipoColas
<1>3. TipoRecursos
  BY ConstantesAssumption DEF TipoRecursos
<1>4. TipoSemaforos
  BY ConstantesAssumption DEF TipoSemaforos
<1>5. TipoHilos
  BY DEF TipoHilos, HiloCpuEn, ProcONull, NombreONull
<1>6. TipoEnlace
  BY DEF TipoEnlace, CpuInactiva, ProcONull
<1>7. hilo_cpu.pc = "espera" /\ cpu.pid = NoProc
  BY DEF HiloCpuEn, CpuInactiva
<1>8. Len(cola_exec) = 0 /\ Len(cola_ready) = 0 /\ Len(cola_new) = 0
      /\ Len(hacia_cpu) = 0 /\ Len(desde_cpu) = 0
  OBVIOUS
<1>9. EnVuelo = 0
  BY <1>7, <1>8 DEF EnVuelo, Uno
<1>10. TestigoDeCpu /\ ContextoEnUnLugar /\ UnAvisoPorContexto
  BY <1>7, <1>8, <1>9 DEF TestigoDeCpu, ContextoEnUnLugar, UnAvisoPorContexto, Uno
<1>11. PcbsTomados
  BY <1>7 DEF PcbsTomados
<1>12. ColaNewPura /\ ColaReadyPura /\ ColaExecPura
  BY <1>8 DEF ColaNewPura, ColaReadyPura, ColaExecPura, SinRepetir, TodosEn,
     InsertandoFueraDeReady
<1>13. ColasDeRecursosPuras
  <2>1. \A r \in Recurso : Len(cola_bloqueados[r]) = 0
    OBVIOUS
  <2>. QED
    BY <2>1 DEF ColasDeRecursosPuras, SinRepetir, TodosEn
<1>14. DurmientesBloqueados
  BY DEF DurmientesBloqueados
<1>15. SinCrearFueraDeColas
  BY <1>8 DEF SinCrearFueraDeColas
<1>16. DespertaresContados
  BY <1>8 DEF DespertaresContados, SinDespertarPerdido, SinDespertarInventado, Uno
<1>17. EsperasContadas
  <2>1. \A r \in Recurso : Len(cola_bloqueados[r]) = 0 /\ instancias[r] \in Nat
    BY ConstantesAssumption
  <2>. QED
    BY <2>1 DEF EsperasContadas
<1>. QED
  BY <1>1, <1>2, <1>3, <1>4, <1>5, <1>6, <1>10, <1>11, <1>12, <1>13, <1>14, <1>15, <1>16,
     <1>17 DEF IInv, TypeOK, ColasPorEstado

\* Every step keeps IInv.
LEMMA NextIInv == IInv /\ [Next]_vars => IInv'
<1> SUFFICES ASSUME IInv, [Next]_vars PROVE IInv'
  OBVIOUS
<1>1. ASSUME NEW p \in Proc, Consola(p)
      PROVE  IInv'
  BY <1>1, PasoConsolaCreaProceso, PasoConsolaRegistra, PasoConsolaEspera,
     PasoConsolaRetira, PasoConsolaResponde, PasoConsolaDestruye DEF Consola
<1>2. ASSUME NEW p \in Proc, HiloDeIO(p)
      PROVE  IInv'
  BY <1>2, PasoBloqueoIO, PasoBloqueoIOCalcula, PasoBloqueoIOInserta DEF HiloDeIO
<1>3. CASE PlanificadorLargoPlazo
  BY <1>3, PasoPlpEsperaNuevo, PasoPlpEsperaGrado, PasoPlpAdmite, PasoPlpPasaAReady
  DEF PlanificadorLargoPlazo
<1>4. CASE PlanificadorCortoPlazo
  BY <1>4, PasoPcpEsperaCpu, PasoPcpEsperaReady, PasoPcpElige, PasoPcpDespacha,
     PasoPcpEjecuta DEF PlanificadorCortoPlazo
<1>5. CASE ManejarRespuestaCpu
  <2>1. CASE ProcesarContexto
    <3>1. CASE ProcesarFinalizado
      BY <3>1, PasoTerminarProceso DEF ProcesarFinalizado, Motivos
    <3>2. CASE ProcesarSegFault
      BY <3>2, PasoTerminarProceso DEF ProcesarSegFault, Motivos
    <3>3. CASE ProcesarRecursoInexistente
      BY <3>3, PasoTerminarProceso DEF ProcesarRecursoInexistente, Motivos
    <3>. QED
      BY <2>1, <3>1, <3>2, <3>3, PasoProcesarYield, PasoProcesarBloqueado,
         PasoProcesarWaitSinInstancias, PasoProcesarWaitConInstancias,
         PasoProcesarSignalConEspera, PasoProcesarSignalSinEspera,
         PasoProcesarDeleteSegment DEF ProcesarContexto
  <2>. QED
    BY <1>5, <2>1, PasoHiloCpuEspera, PasoHiloCpuRecibe, PasoHiloCpuLibera,
       PasoHiloCpuEjecuta DEF ManejarRespuestaCpu
<1>6. CASE Cpu
  BY <1>6, PasoCpuRecibe, PasoCpuSigue, PasoCpuDevuelve DEF Cpu
<1>7. CASE UNCHANGED vars
  <2>1. UNCHANGED <<pcbs, colas, recursos, semaforos, hilos>> /\ UNCHANGED enlace
    BY <1>7 DEF vars
  <2>2. TipoEnlace' /\ EnVuelo' = EnVuelo
    BY <2>1, Marco DEF EnVuelo, enlace
  <2>. QED
    BY <2>1, <2>2, MarcoCpu
<1>. QED
  BY <1>1, <1>2, <1>3, <1>4, <1>5, <1>6, <1>7 DEF Next

\* The inductive invariant holds in every reachable state, for any number of
\* processes, any resources, any degree and either algorithm.
THEOREM InvarianteInductivo == Spec => []IInv
BY InitIInv, NextIInv, PTL DEF Spec

\* Every variable keeps its type.
THEOREM TiposCorrectos == Spec => []TypeOK
<1>1. IInv => TypeOK
  BY DEF IInv
<1>. QED
  BY <1>1, InvarianteInductivo, PTL

\* At most one process has the CPU, and while its context is out of the kernel it
\* is alone in cola_exec and nobody has posted cpu_liberada.
THEOREM ExclusionMutuaDeCpu == Spec => []UnSoloProcesoEnCpu
<1>1. IInv => UnSoloProcesoEnCpu
  BY UnoEnLaCpu
<1>. QED
  BY <1>1, InvarianteInductivo, PTL

\* No wake-up of the short-term scheduler is lost, under either algorithm.
THEOREM NingunDespertarPerdido == Spec => []SinDespertarPerdido
<1>1. IInv => SinDespertarPerdido
  BY DEF IInv, DespertaresContados
<1>. QED
  BY <1>1, InvarianteInductivo, PTL

\* The counter of a resource says how many processes wait for it.
THEOREM EsperasExactas == Spec => []EsperasContadas
<1>1. IInv => EsperasContadas
  BY DEF IInv
<1>. QED
  BY <1>1, InvarianteInductivo, PTL

-----------------------------------------------------------------------------
(***************************************************************************)
(* The life cycle: Planificador implements CicloDeVida, under both         *)
(* algorithms and for every set of processes.  The threads touch the state *)
(* of a process, the queues cola_new, cola_exec and cola_exit and the      *)
(* semaphores that count them in few ways: Efectos says which, once, and   *)
(* everything after it argues about those ways instead of the thirty       *)
(* actions.  The refinement rests on ConteosInv, which counts what each    *)
(* semaphore stands for.                                                   *)
(*                                                                         *)
(* FifoInv is what the scheduler guarantees under FIFO only.  HRRN sorts   *)
(* cola_ready and inserts in two steps, so the process the PCP chose need  *)
(* not be the one it pops, and a process can be left out of the queue:     *)
(* under it the properties that rest on FifoInv do not hold.               *)
(***************************************************************************)

\* What the life cycle follows.
seguidas == <<estado_actual, cola_new, cola_exec, cola_exit, consola, sem_nuevo_proceso,
              sem_grado_multiprogramacion, sem_exit_proceso, plp>>
contadores == <<sem_nuevo_proceso, sem_grado_multiprogramacion, sem_exit_proceso>>

EstadoPasa(p, e) == estado_actual' = [estado_actual EXCEPT ![p] = e]

\* The long-term scheduler admits the head of cola_new.
EfectoAdmite(p) ==
    /\ plp.pc = "pasa_a_ready" /\ plp' = [pc |-> "espera_nuevo", pcb |-> NoProc]
    /\ cola_new # <<>> /\ p = Head(cola_new) /\ cola_new' = Tail(cola_new)
    /\ estado_actual[p] = "NEW" /\ EstadoPasa(p, "READY")
    /\ UNCHANGED <<cola_exec, cola_exit, consola, contadores>>

\* The short-term scheduler gives the free CPU to a process.
EfectoDespacha(p) ==
    /\ cola_exec = <<>> /\ cola_exec' = <<p>>
    /\ estado_actual[p] = "READY" /\ EstadoPasa(p, "EXEC")
    /\ UNCHANGED <<cola_new, cola_exit, consola, plp, contadores>>

\* The process that has the CPU leaves it, but does not end.
EfectoDeja(p, e) ==
    /\ cola_exec = <<p>> /\ cola_exec' = <<>>
    /\ estado_actual[p] = "EXEC" /\ EstadoPasa(p, e)
    /\ UNCHANGED <<cola_new, cola_exit, consola, plp, contadores>>

\* The process that has the CPU ends: its console is told.
EfectoTermina(p) ==
    /\ cola_exec = <<p>> /\ cola_exec' = <<>>
    /\ estado_actual[p] = "EXEC" /\ EstadoPasa(p, "EXIT")
    /\ cola_exit' = Append(cola_exit, p)
    /\ sem_exit_proceso' = [sem_exit_proceso EXCEPT ![p] = @ + 1]
    /\ UNCHANGED <<cola_new, consola, plp, sem_nuevo_proceso, sem_grado_multiprogramacion>>

\* A blocked process becomes ready.
EfectoDespierta(p) ==
    /\ estado_actual[p] \in {"BLOCK", "BLOCK_RECURSO"} /\ EstadoPasa(p, "READY")
    /\ UNCHANGED <<cola_new, cola_exec, cola_exit, consola, plp, contadores>>

Efecto ==
    \/ \E p \in Proc : \/ Consola(p)
                       \/ EfectoAdmite(p)
                       \/ EfectoDespacha(p)
                       \/ \E e \in {"READY", "BLOCK", "BLOCK_RECURSO"} : EfectoDeja(p, e)
                       \/ EfectoTermina(p)
                       \/ EfectoDespierta(p)
    \/ PlpEsperaNuevo
    \/ PlpEsperaGrado
    \/ PlpAdmite
    \/ UNCHANGED seguidas

-----------------------------------------------------------------------------
(* Every step has one of those effects *)

\* The move that admits a process.
LEMMA EfectoDePlpPasaAReady ==
    ASSUME IInv, PlpPasaAReady
    PROVE  Efecto
<1>1. /\ plp.pc = "pasa_a_ready" /\ cola_new # <<>> /\ plp.pcb = Head(cola_new)
      /\ cola_new \in Seq(Proc)
  BY DEF PlpPasaAReady, IInv, TypeOK, TipoColas, PcbsTomados
<1>2. /\ Head(cola_new) \in Proc /\ Head(cola_new) = cola_new[1]
      /\ Len(cola_new) \in Nat /\ Len(cola_new) > 0
  BY <1>1, TailFacts
<1>3. estado_actual[plp.pcb] = "NEW"
  BY <1>1, <1>2 DEF IInv, ColasPorEstado, ColaNewPura, TodosEn
<1>4. EfectoAdmite(plp.pcb)
  BY <1>1, <1>3 DEF PlpPasaAReady, PasarAColaReady, QuitarDeColaActual, Sacado,
     EfectoAdmite, EstadoPasa, contadores, consolas
<1>. QED
  BY <1>1, <1>2, <1>4 DEF Efecto

\* The move that gives the CPU to a process finds it free.
LEMMA EfectoDePcpDespacha ==
    ASSUME IInv, PcpDespacha
    PROVE  /\ cola_ready # <<>> /\ EfectoDespacha(Head(cola_ready))
           /\ cola_ready' = Tail(cola_ready) /\ Head(cola_ready) \in Proc
           /\ Efecto
<1>1. /\ cola_ready # <<>> /\ cola_ready \in Seq(Proc) /\ cola_exec \in Seq(Proc)
      /\ cola_ready' = Tail(cola_ready)
      /\ cola_exec' = Append(cola_exec, Head(cola_ready))
      /\ EstadoPasa(Head(cola_ready), "EXEC")
      /\ UNCHANGED <<cola_new, cola_exit, consola, plp, contadores>>
  BY DEF PcpDespacha, PasarAColaExec, IInv, TypeOK, TipoColas, EstadoPasa, contadores,
     semaforos, consolas
<1>2. /\ Head(cola_ready) \in Proc /\ Head(cola_ready) = cola_ready[1]
      /\ Len(cola_ready) \in Nat /\ Len(cola_ready) > 0
  BY <1>1, TailFacts
<1>3. estado_actual[Head(cola_ready)] = "READY"
  BY <1>1, <1>2 DEF IInv, ColasPorEstado, ColaReadyPura, TodosEn
<1>4. Len(cola_exec) = 0
  <2>1. /\ cpu_liberada \in Nat /\ Len(cola_exec) \in Nat
        /\ Uno(hilo_cpu.pc = "libera") \in Nat
    BY <1>1 DEF IInv, TypeOK, TipoSemaforos, Uno
  <2>2. Uno(pcp.pc \in {"espera_ready", "elige", "despacha"}) = 1
    BY DEF PcpDespacha, Uno
  <2>. QED
    BY <2>1, <2>2 DEF IInv, TestigoDeCpu
<1>5. cola_exec = <<>>
  BY <1>1, <1>4
<1>6. cola_exec' = <<Head(cola_ready)>>
  BY <1>1, <1>5
<1>. QED
  BY <1>1, <1>2, <1>3, <1>5, <1>6 DEF EfectoDespacha, Efecto

\* What the cases of procesar_contexto do to the process that has the CPU.
LEMMA EfectoDeProcesarContexto ==
    ASSUME IInv, ProcesarContexto
    PROVE  Efecto
<1> DEFINE p == hilo_cpu.pcb
<1>1. /\ p \in Proc /\ cola_exec = <<p>> /\ Head(cola_exec) = p /\ Tail(cola_exec) = <<>>
      /\ cola_exec # <<>> /\ estado_actual[p] = "EXEC"
      /\ UNCHANGED <<consola, plp, sem_nuevo_proceso, sem_grado_multiprogramacion>>
  <2>1. /\ hilo_cpu.pc = "procesa"
        /\ UNCHANGED <<consola, plp, sem_nuevo_proceso, sem_grado_multiprogramacion>>
    BY DEF ProcesarContexto, ProcesarYield, ProcesarFinalizado, ProcesarSegFault,
       ProcesarBloqueado, ProcesarRecursoInexistente, ProcesarWaitSinInstancias,
       ProcesarWaitConInstancias, ProcesarSignalConEspera, ProcesarSignalSinEspera,
       ProcesarDeleteSegment, Procesa, consolas
  <2>2. Len(cola_exec) = 1
    BY <2>1, EnProcesa
  <2>. QED
    BY <2>1, <2>2, EnProcesa
<1>2. CASE ProcesarYield
  <2>1. EfectoDeja(p, "READY")
    BY <1>1, <1>2 DEF ProcesarYield, PasarAColaReady, QuitarDeColaActual, Sacado,
       EfectoDeja, EstadoPasa, contadores
  <2>. QED
    BY <1>1, <2>1 DEF Efecto
<1>3. ASSUME NEW causa, TerminarProceso(causa)
      PROVE  Efecto
  <2>1. EfectoTermina(p)
    BY <1>1, <1>3 DEF TerminarProceso, PasarAColaExit, DescartarExec, EfectoTermina,
       EstadoPasa
  <2>. QED
    BY <1>1, <2>1 DEF Efecto
<1>4. CASE ProcesarBloqueado
  <2>1. EfectoDeja(p, "BLOCK")
    BY <1>1, <1>4 DEF ProcesarBloqueado, PasarAColaBlocked, DescartarExec, EfectoDeja,
       EstadoPasa, contadores
  <2>. QED
    BY <1>1, <2>1 DEF Efecto
<1>5. CASE ProcesarWaitSinInstancias
  <2>1. EfectoDeja(p, "BLOCK_RECURSO")
    BY <1>1, <1>5 DEF ProcesarWaitSinInstancias, PasarAColaBloqueadosDe, DescartarExec,
       EfectoDeja, EstadoPasa, contadores
  <2>. QED
    BY <1>1, <2>1 DEF Efecto
<1>6. CASE ProcesarSignalConEspera
  <2> DEFINE r == hilo_cpu.nombre
             q == Head(cola_bloqueados[r])
  <2>1. /\ r \in Recurso /\ cola_bloqueados[r] # <<>> /\ cola_bloqueados[r] \in Seq(Proc)
        /\ PasarAReadySegunAlgoritmo(q) /\ UNCHANGED sem_exit_proceso
    BY <1>6 DEF ProcesarSignalConEspera, IInv, TypeOK, TipoRecursos
  <2>2. /\ q \in Proc /\ q = cola_bloqueados[r][1] /\ 1 \in 1..Len(cola_bloqueados[r])
    BY <2>1, TailFacts
  <2>3. estado_actual[q] = "BLOCK_RECURSO"
    BY <2>1, <2>2 DEF IInv, ColasPorEstado, ColasDeRecursosPuras, TodosEn
  <2>4. EstadoPasa(q, "READY") /\ UNCHANGED <<cola_new, cola_exec, cola_exit>>
    BY <2>1, <2>2, <2>3, Despierta DEF EstadoPasa
  <2>5. EfectoDespierta(q)
    BY <1>1, <2>1, <2>3, <2>4 DEF EfectoDespierta, contadores
  <2>. QED
    BY <2>2, <2>5 DEF Efecto
<1>7. CASE ProcesarWaitConInstancias \/ ProcesarSignalSinEspera \/ ProcesarDeleteSegment
  BY <1>1, <1>7 DEF ProcesarWaitConInstancias, ProcesarSignalSinEspera,
     ProcesarDeleteSegment, colas, Efecto, seguidas
<1>. QED
  BY <1>2, <1>3, <1>4, <1>5, <1>6, <1>7 DEF ProcesarContexto, ProcesarFinalizado,
     ProcesarSegFault, ProcesarRecursoInexistente

\* What the thread of an I/O does to its process.
LEMMA EfectoDeHiloDeIO ==
    ASSUME IInv, NEW p \in Proc, HiloDeIO(p)
    PROVE  Efecto
<1>1. CASE BloqueoIOInserta(p)
  BY <1>1 DEF BloqueoIOInserta, pcbs, consolas, Efecto, seguidas
<1>2. CASE BloqueoIO(p) \/ BloqueoIOCalcula(p)
  <2>1. estado_actual[p] = "BLOCK"
    BY <1>2 DEF BloqueoIO, BloqueoIOCalcula, IInv, ColasPorEstado, DurmientesBloqueados
  <2>2. EstadoPasa(p, "READY") /\ UNCHANGED <<cola_new, cola_exec, cola_exit>>
    BY <1>2, <2>1 DEF BloqueoIO, BloqueoIOCalcula, PasarAColaReady, QuitarDeColaActual,
       Sacado, EstadoPasa
  <2>3. UNCHANGED <<consola, plp, contadores>>
    BY <1>2 DEF BloqueoIO, BloqueoIOCalcula, consolas, semaforos, contadores
  <2>4. EfectoDespierta(p)
    BY <2>1, <2>2, <2>3 DEF EfectoDespierta
  <2>. QED
    BY <2>4 DEF Efecto
<1>. QED
  BY <1>1, <1>2 DEF HiloDeIO

\* Every step of the scheduler has one of the effects, or does not touch what this
\* module follows.
LEMMA Efectos == IInv /\ [Next]_vars => Efecto
<1> SUFFICES ASSUME IInv, [Next]_vars PROVE Efecto
  OBVIOUS
<1>1. ASSUME NEW p \in Proc, Consola(p)
      PROVE  Efecto
  BY <1>1 DEF Efecto
<1>2. CASE PlanificadorLargoPlazo
  BY <1>2, EfectoDePlpPasaAReady DEF PlanificadorLargoPlazo, Efecto
<1>3. CASE PlanificadorCortoPlazo
  <2>1. CASE PcpDespacha
    BY <2>1, EfectoDePcpDespacha
  <2>2. CASE PcpEsperaCpu \/ PcpEsperaReady \/ PcpElige \/ PcpEjecuta
    <3>1. UNCHANGED seguidas
      BY <2>2 DEF PcpEsperaCpu, PcpEsperaReady, PcpElige, PcpEjecuta, EjecutarProceso,
         pcbs, colas, semaforos, consolas, seguidas
    <3>. QED
      BY <3>1 DEF Efecto
  <2>. QED
    BY <1>3, <2>1, <2>2 DEF PlanificadorCortoPlazo
<1>4. CASE ManejarRespuestaCpu
  <2>1. CASE HiloCpuEspera \/ HiloCpuRecibe \/ HiloCpuLibera \/ HiloCpuEjecuta
    <3>1. UNCHANGED seguidas
      BY <2>1 DEF HiloCpuEspera, HiloCpuRecibe, HiloCpuLibera, HiloCpuEjecuta,
         EjecutarProceso, pcbs, colas, semaforos, consolas, seguidas
    <3>. QED
      BY <3>1 DEF Efecto
  <2>. QED
    BY <1>4, <2>1, EfectoDeProcesarContexto DEF ManejarRespuestaCpu
<1>5. CASE Cpu \/ UNCHANGED vars
  <2>1. UNCHANGED seguidas
    BY <1>5 DEF Cpu, CpuRecibe, CpuSigue, CpuDevuelve, DevolverProceso, vars, pcbs, colas,
       semaforos, hilos, consolas, seguidas
  <2>. QED
    BY <2>1 DEF Efecto
<1>. QED
  BY <1>1, <1>2, <1>3, <1>4, <1>5, EfectoDeHiloDeIO DEF Next

-----------------------------------------------------------------------------
(* What the semaphores count *)

PorRegistrar == {p \in Proc : consola[p] = "registra"}
Avisados == {p \in Proc : sem_exit_proceso[p] > 0 \/ consola[p] = "retira"}
ConPlaza == {p \in Proc : estado_actual[p] # "NEW"}
Servidos == {p \in Proc : consola[p] \in {"responde", "destruye", "fin"}}

\* Each pcb in cola_new has a post of sem_nuevo_proceso, or its console is about to
\* make it, or it is the one the PLP is serving.
NuevosContados ==
    /\ IsFiniteSet(PorRegistrar)
    /\ Len(cola_new) = sem_nuevo_proceso + Cardinality(PorRegistrar)
                           + Uno(plp.pc # "espera_nuevo")

\* A console is told once, of the end of its own process.
AvisosDeFin ==
    \A p \in Proc :
        /\ sem_exit_proceso[p] <= 1
        /\ sem_exit_proceso[p] > 0 => estado_actual[p] = "EXIT"
        /\ consola[p] \in {"retira", "responde", "destruye", "fin"} =>
              estado_actual[p] = "EXIT" /\ sem_exit_proceso[p] = 0

\* There are as many pcbs in cola_exit as consoles told that have not popped one.
FinalizadosContados ==
    /\ IsFiniteSet(Avisados)
    /\ Len(cola_exit) = Cardinality(Avisados)

\* sem_grado_multiprogramacion is the degree less the processes admitted, but for the
\* places given back and for the one the PLP has taken and not yet used.
LugaresContados ==
    /\ IsFiniteSet(ConPlaza)
    /\ IsFiniteSet(Servidos)
    /\ Cardinality(ConPlaza) + sem_grado_multiprogramacion
           + Uno(plp.pc \in {"admite", "pasa_a_ready"}) = GRADO_MAX + Cardinality(Servidos)

\* The process that runs is the one in cola_exec.
EjecutandoEnCola == \A p \in Proc : estado_actual[p] = "EXEC" => cola_exec = <<p>>

ConteosInv ==
    /\ NuevosContados
    /\ AvisosDeFin
    /\ FinalizadosContados
    /\ LugaresContados
    /\ EjecutandoEnCola

\* What the effects say of the types they need.
LEMMA TiposSeguidos ==
    ASSUME IInv
    PROVE  /\ estado_actual \in [Proc -> Estados]
           /\ cola_new \in Seq(Proc) /\ Len(cola_new) \in Nat
           /\ cola_exit \in Seq(Proc) /\ Len(cola_exit) \in Nat
           /\ sem_nuevo_proceso \in Nat /\ sem_grado_multiprogramacion \in Nat
           /\ sem_exit_proceso \in [Proc -> Nat]
           /\ consola \in [Proc -> {"inicio", "registra", "espera", "retira", "responde",
                                       "destruye", "fin"}]
           /\ GRADO_MAX \in Nat
           /\ \A p \in Proc : consola[p] = "inicio" => estado_actual[p] = "NEW"
<1>1. /\ TipoPcbs /\ TipoColas /\ TipoSemaforos /\ TipoHilos
      /\ SinCrearFueraDeColas
  BY DEF IInv, TypeOK, ColasPorEstado
<1>2. estado_actual \in [Proc -> Estados]
  BY <1>1 DEF TipoPcbs
<1>3. /\ cola_new \in Seq(Proc) /\ Len(cola_new) \in Nat
      /\ cola_exit \in Seq(Proc) /\ Len(cola_exit) \in Nat
  BY <1>1 DEF TipoColas
<1>4. /\ sem_nuevo_proceso \in Nat /\ sem_grado_multiprogramacion \in Nat
      /\ sem_exit_proceso \in [Proc -> Nat]
  BY <1>1 DEF TipoSemaforos
<1>5. consola \in [Proc -> {"inicio", "registra", "espera", "retira", "responde",
                              "destruye", "fin"}]
  BY <1>1 DEF TipoHilos
<1>6. \A p \in Proc : consola[p] = "inicio" => estado_actual[p] = "NEW"
  BY <1>1 DEF SinCrearFueraDeColas
<1>. QED
  BY <1>2, <1>3, <1>4, <1>5, <1>6, ConstantesAssumption

\* A step that leaves alone what a part counts keeps that part.
LEMMA MarcoDeConteos ==
    ASSUME IInv, ConteosInv
    PROVE  /\ UNCHANGED <<cola_new, sem_nuevo_proceso, consola, plp>> => NuevosContados'
           /\ UNCHANGED <<estado_actual, sem_exit_proceso, consola>> => AvisosDeFin'
           /\ UNCHANGED <<sem_exit_proceso, consola, cola_exit>> => FinalizadosContados'
           /\ UNCHANGED <<estado_actual, sem_grado_multiprogramacion, consola, plp>>
                => LugaresContados'
           /\ UNCHANGED <<estado_actual, cola_exec>> => EjecutandoEnCola'
<1> USE DEF ConteosInv
<1>1. UNCHANGED <<cola_new, sem_nuevo_proceso, consola, plp>> => NuevosContados'
  BY DEF NuevosContados, PorRegistrar
<1>2. UNCHANGED <<estado_actual, sem_exit_proceso, consola>> => AvisosDeFin'
  BY DEF AvisosDeFin
<1>3. UNCHANGED <<sem_exit_proceso, consola, cola_exit>> => FinalizadosContados'
  BY DEF FinalizadosContados, Avisados
<1>4. UNCHANGED <<estado_actual, sem_grado_multiprogramacion, consola, plp>>
        => LugaresContados'
  BY DEF LugaresContados, ConPlaza, Servidos
<1>5. UNCHANGED <<estado_actual, cola_exec>> => EjecutandoEnCola'
  BY DEF EjecutandoEnCola
<1>. QED
  BY <1>1, <1>2, <1>3, <1>4, <1>5

\* The console threads, as far as this module follows them.
LEMMA PasosDeConsola ==
    ASSUME IInv, NEW p \in Proc, Consola(p)
    PROVE  /\ UNCHANGED <<estado_actual, cola_exec, plp>>
           /\ \/ /\ consola[p] = "inicio" /\ consola' = [consola EXCEPT ![p] = "registra"]
                 /\ cola_new' = Append(cola_new, p)
                 /\ UNCHANGED <<cola_exit, contadores>>
              \/ /\ consola[p] = "registra" /\ consola' = [consola EXCEPT ![p] = "espera"]
                 /\ sem_nuevo_proceso' = sem_nuevo_proceso + 1
                 /\ UNCHANGED <<cola_new, cola_exit, sem_grado_multiprogramacion,
                                sem_exit_proceso>>
              \/ /\ consola[p] = "espera" /\ consola' = [consola EXCEPT ![p] = "retira"]
                 /\ sem_exit_proceso[p] > 0
                 /\ sem_exit_proceso' = [sem_exit_proceso EXCEPT ![p] = @ - 1]
                 /\ UNCHANGED <<cola_new, cola_exit, sem_nuevo_proceso,
                                sem_grado_multiprogramacion>>
              \/ /\ consola[p] = "retira" /\ consola' = [consola EXCEPT ![p] = "responde"]
                 /\ cola_exit # <<>> /\ cola_exit' = Tail(cola_exit)
                 /\ sem_grado_multiprogramacion' = sem_grado_multiprogramacion + 1
                 /\ UNCHANGED <<cola_new, sem_nuevo_proceso, sem_exit_proceso>>
              \/ /\ consola[p] \in {"responde", "destruye"}
                 /\ \E e \in {"destruye", "fin"} : consola' = [consola EXCEPT ![p] = e]
                 /\ UNCHANGED <<cola_new, cola_exit, contadores>>
<1> USE DEF pcbs, colas, semaforos, contadores
<1>1. CASE ConsolaCreaProceso(p)
  BY <1>1 DEF ConsolaCreaProceso
<1>2. CASE ConsolaRegistra(p)
  BY <1>2 DEF ConsolaRegistra
<1>3. CASE ConsolaEspera(p)
  BY <1>3 DEF ConsolaEspera
<1>4. CASE ConsolaRetira(p)
  BY <1>4 DEF ConsolaRetira
<1>5. CASE ConsolaResponde(p)
  BY <1>5 DEF ConsolaResponde
<1>6. CASE ConsolaDestruye(p)
  BY <1>6 DEF ConsolaDestruye
<1>. QED
  BY <1>1, <1>2, <1>3, <1>4, <1>5, <1>6 DEF Consola

\* Every step keeps the count of the new processes.
LEMMA NuevosSiguenContados ==
    ASSUME IInv, ConteosInv, Efecto
    PROVE  NuevosContados'
<1> DEFINE u == Uno(plp.pc # "espera_nuevo")
<1>1. /\ IsFiniteSet(PorRegistrar) /\ Cardinality(PorRegistrar) \in Nat
      /\ Len(cola_new) = sem_nuevo_proceso + Cardinality(PorRegistrar) + u
  BY FS_CardinalityType DEF ConteosInv, NuevosContados
<1>2. Len(cola_new) \in Nat /\ cola_new \in Seq(Proc) /\ sem_nuevo_proceso \in Nat /\ u \in Nat
  BY TiposSeguidos DEF Uno
<1>3. ASSUME NEW p \in Proc, Consola(p)
      PROVE  NuevosContados'
  <2>1. UNCHANGED plp /\ u' = u
    BY <1>3, PasosDeConsola
  <2>2. CASE consola[p] = "inicio"
    <3>1. /\ consola' = [consola EXCEPT ![p] = "registra"]
          /\ cola_new' = Append(cola_new, p) /\ UNCHANGED sem_nuevo_proceso
      BY <1>3, <2>2, PasosDeConsola DEF contadores
    <3>2. PorRegistrar' = PorRegistrar \cup {p} /\ p \notin PorRegistrar
      BY <2>2, <3>1, TiposSeguidos DEF PorRegistrar
    <3>3. /\ IsFiniteSet(PorRegistrar')
          /\ Cardinality(PorRegistrar') = Cardinality(PorRegistrar) + 1
      BY <1>1, <3>2, FS_AddElement
    <3>4. Len(cola_new') = Len(cola_new) + 1
      BY <1>2, <3>1
    <3>. QED
      BY <1>1, <1>2, <2>1, <3>1, <3>3, <3>4 DEF NuevosContados
  <2>3. CASE consola[p] = "registra"
    <3>1. /\ consola' = [consola EXCEPT ![p] = "espera"]
          /\ UNCHANGED cola_new /\ sem_nuevo_proceso' = sem_nuevo_proceso + 1
      BY <1>3, <2>3, PasosDeConsola
    <3>2. PorRegistrar' = PorRegistrar \ {p} /\ p \in PorRegistrar
      BY <2>3, <3>1, TiposSeguidos DEF PorRegistrar
    <3>3. /\ IsFiniteSet(PorRegistrar')
          /\ Cardinality(PorRegistrar') = Cardinality(PorRegistrar) - 1
      BY <1>1, <3>2, FS_RemoveElement
    <3>. QED
      BY <1>1, <1>2, <2>1, <3>1, <3>3 DEF NuevosContados
  <2>4. CASE consola[p] \notin {"inicio", "registra"}
    <3>1. /\ \E e \in {"retira", "responde", "destruye", "fin"} :
               consola' = [consola EXCEPT ![p] = e]
          /\ UNCHANGED <<cola_new, sem_nuevo_proceso>>
      BY <1>3, <2>4, PasosDeConsola DEF contadores
    <3>2. PorRegistrar' = PorRegistrar
      BY <2>4, <3>1, TiposSeguidos DEF PorRegistrar
    <3>. QED
      BY <1>1, <2>1, <3>1, <3>2 DEF NuevosContados
  <2>. QED
    BY <2>2, <2>3, <2>4
<1>4. ASSUME NEW p \in Proc, EfectoAdmite(p)
      PROVE  NuevosContados'
  <2>1. /\ cola_new # <<>> /\ cola_new' = Tail(cola_new) /\ u = 1 /\ u' = 0
        /\ UNCHANGED <<sem_nuevo_proceso, consola>>
    BY <1>4 DEF EfectoAdmite, contadores, Uno
  <2>2. Len(cola_new') = Len(cola_new) - 1
    BY <1>2, <2>1
  <2>3. PorRegistrar' = PorRegistrar
    BY <2>1 DEF PorRegistrar
  <2>. QED
    BY <1>1, <1>2, <2>1, <2>2, <2>3 DEF NuevosContados
<1>5. CASE PlpEsperaNuevo
  <2>1. /\ sem_nuevo_proceso' = sem_nuevo_proceso - 1 /\ u = 0 /\ u' = 1
        /\ UNCHANGED <<cola_new, consola>>
    BY <1>5 DEF PlpEsperaNuevo, Uno, colas, consolas
  <2>2. PorRegistrar' = PorRegistrar
    BY <2>1 DEF PorRegistrar
  <2>. QED
    BY <1>1, <1>2, <2>1, <2>2 DEF NuevosContados
<1>6. CASE PlpEsperaGrado \/ PlpAdmite
  <2>1. u' = u /\ UNCHANGED <<sem_nuevo_proceso, cola_new, consola>>
    BY <1>6 DEF PlpEsperaGrado, PlpAdmite, Uno, colas, consolas, semaforos
  <2>2. PorRegistrar' = PorRegistrar
    BY <2>1 DEF PorRegistrar
  <2>. QED
    BY <1>1, <2>1, <2>2 DEF NuevosContados
<1>7. ASSUME NEW p \in Proc,
             \/ EfectoDespacha(p)
             \/ \E e \in {"READY", "BLOCK", "BLOCK_RECURSO"} : EfectoDeja(p, e)
             \/ EfectoTermina(p)
             \/ EfectoDespierta(p)
      PROVE  NuevosContados'
  BY <1>7, MarcoDeConteos DEF EfectoDespacha, EfectoDeja, EfectoTermina, EfectoDespierta,
     contadores
<1>8. CASE UNCHANGED seguidas
  BY <1>8, MarcoDeConteos DEF seguidas
<1>. QED
  BY <1>3, <1>4, <1>5, <1>6, <1>7, <1>8 DEF Efecto

\* Every step keeps what is known of a console that was told.
LEMMA AvisosSiguen ==
    ASSUME IInv, ConteosInv, Efecto
    PROVE  AvisosDeFin'
<1>1. /\ AvisosDeFin
      /\ estado_actual \in [Proc -> Estados] /\ sem_exit_proceso \in [Proc -> Nat]
      /\ consola \in [Proc -> {"inicio", "registra", "espera", "retira", "responde",
                                 "destruye", "fin"}]
  BY TiposSeguidos DEF ConteosInv
<1>2. ASSUME NEW p \in Proc, Consola(p)
      PROVE  AvisosDeFin'
  <2> SUFFICES ASSUME NEW q \in Proc
               PROVE  /\ sem_exit_proceso'[q] <= 1
                      /\ sem_exit_proceso'[q] > 0 => estado_actual'[q] = "EXIT"
                      /\ consola'[q] \in {"retira", "responde", "destruye", "fin"} =>
                            estado_actual'[q] = "EXIT" /\ sem_exit_proceso'[q] = 0
    BY DEF AvisosDeFin
  <2>1. UNCHANGED estado_actual
    BY <1>2, PasosDeConsola
  <2>2. CASE q # p
    <3>1. consola'[q] = consola[q] /\ sem_exit_proceso'[q] = sem_exit_proceso[q]
      BY <1>1, <1>2, <2>2, PasosDeConsola DEF contadores
    <3>. QED
      BY <1>1, <2>1, <3>1 DEF AvisosDeFin
  <2>3. CASE q = p
    <3>1. sem_exit_proceso[p] \in Nat
      BY <1>1
    <3>2. CASE consola[p] = "espera"
      <4>1. /\ sem_exit_proceso[p] > 0 /\ consola'[p] = "retira"
            /\ sem_exit_proceso'[p] = sem_exit_proceso[p] - 1
        BY <1>1, <1>2, <3>2, PasosDeConsola
      <4>. QED
        BY <1>1, <2>1, <2>3, <3>1, <4>1 DEF AvisosDeFin
    <3>3. CASE consola[p] \in {"inicio", "registra"}
      <4>1. /\ consola'[p] \in {"registra", "espera"}
            /\ sem_exit_proceso'[p] = sem_exit_proceso[p]
        BY <1>1, <1>2, <3>3, PasosDeConsola DEF contadores
      <4>. QED
        BY <1>1, <2>1, <2>3, <4>1 DEF AvisosDeFin
    <3>4. CASE consola[p] \in {"retira", "responde", "destruye", "fin"}
      <4>1. sem_exit_proceso'[p] = sem_exit_proceso[p]
        BY <1>1, <1>2, <3>4, PasosDeConsola DEF contadores
      <4>. QED
        BY <1>1, <2>1, <2>3, <3>4, <4>1 DEF AvisosDeFin
    <3>. QED
      BY <1>1, <3>2, <3>3, <3>4
  <2>. QED
    BY <2>2, <2>3
<1>3. ASSUME NEW p \in Proc, NEW e, EstadoPasa(p, e), estado_actual[p] # "EXIT",
             UNCHANGED <<consola, sem_exit_proceso>>
      PROVE  AvisosDeFin'
  <2>1. \A q \in Proc : estado_actual[q] = "EXIT" => estado_actual'[q] = "EXIT"
    BY <1>1, <1>3 DEF EstadoPasa
  <2>. QED
    BY <1>1, <1>3, <2>1 DEF AvisosDeFin
<1>4. ASSUME NEW p \in Proc, EfectoTermina(p)
      PROVE  AvisosDeFin'
  <2>1. /\ estado_actual[p] = "EXEC" /\ EstadoPasa(p, "EXIT") /\ UNCHANGED consola
        /\ sem_exit_proceso' = [sem_exit_proceso EXCEPT ![p] = @ + 1]
    BY <1>4 DEF EfectoTermina
  <2>2. /\ estado_actual'[p] = "EXIT"
        /\ \A q \in Proc : estado_actual[q] = "EXIT" => estado_actual'[q] = "EXIT"
    BY <1>1, <2>1 DEF EstadoPasa
  <2>3. sem_exit_proceso[p] = 0 /\ sem_exit_proceso'[p] = 1
    BY <1>1, <2>1 DEF AvisosDeFin
  <2>4. consola[p] \notin {"retira", "responde", "destruye", "fin"}
    BY <1>1, <2>1 DEF AvisosDeFin
  <2>5. \A q \in Proc : q # p => sem_exit_proceso'[q] = sem_exit_proceso[q]
    BY <1>1, <2>1
  <2>. QED
    BY <1>1, <2>1, <2>2, <2>3, <2>4, <2>5 DEF AvisosDeFin
<1>5. CASE PlpEsperaNuevo \/ PlpEsperaGrado \/ PlpAdmite \/ UNCHANGED seguidas
  BY <1>5, MarcoDeConteos DEF PlpEsperaNuevo, PlpEsperaGrado, PlpAdmite, pcbs, colas,
     consolas, semaforos, seguidas
<1>6. ASSUME NEW p \in Proc,
             \/ EfectoAdmite(p)
             \/ EfectoDespacha(p)
             \/ \E e \in {"READY", "BLOCK", "BLOCK_RECURSO"} : EfectoDeja(p, e)
             \/ EfectoDespierta(p)
      PROVE  AvisosDeFin'
  BY <1>3, <1>6 DEF EfectoAdmite, EfectoDespacha, EfectoDeja, EfectoDespierta, contadores
<1>. QED
  BY <1>2, <1>4, <1>5, <1>6 DEF Efecto

\* Every step keeps the count of the processes in cola_exit.
LEMMA FinalizadosSiguenContados ==
    ASSUME IInv, ConteosInv, Efecto
    PROVE  FinalizadosContados'
<1>1. /\ IsFiniteSet(Avisados) /\ Cardinality(Avisados) \in Nat
      /\ Len(cola_exit) = Cardinality(Avisados) /\ AvisosDeFin
  BY FS_CardinalityType DEF ConteosInv, FinalizadosContados
<1>2. /\ cola_exit \in Seq(Proc) /\ Len(cola_exit) \in Nat
      /\ sem_exit_proceso \in [Proc -> Nat] /\ estado_actual \in [Proc -> Estados]
      /\ consola \in [Proc -> {"inicio", "registra", "espera", "retira", "responde",
                                 "destruye", "fin"}]
  BY TiposSeguidos
<1>3. ASSUME NEW p \in Proc, Consola(p)
      PROVE  FinalizadosContados'
  <2>1. CASE consola[p] = "retira"
    <3>1. /\ consola' = [consola EXCEPT ![p] = "responde"] /\ UNCHANGED sem_exit_proceso
          /\ cola_exit # <<>> /\ cola_exit' = Tail(cola_exit)
      BY <1>3, <2>1, PasosDeConsola
    <3>2. sem_exit_proceso[p] = 0
      BY <1>1, <2>1 DEF AvisosDeFin
    <3>3. Avisados' = Avisados \ {p} /\ p \in Avisados
      BY <1>2, <2>1, <3>1, <3>2 DEF Avisados
    <3>4. IsFiniteSet(Avisados') /\ Cardinality(Avisados') = Cardinality(Avisados) - 1
      BY <1>1, <3>3, FS_RemoveElement
    <3>5. Len(cola_exit') = Len(cola_exit) - 1
      BY <1>2, <3>1
    <3>. QED
      BY <1>1, <3>4, <3>5 DEF FinalizadosContados
  <2>2. CASE consola[p] = "espera"
    <3>1. /\ consola' = [consola EXCEPT ![p] = "retira"] /\ sem_exit_proceso[p] > 0
          /\ sem_exit_proceso' = [sem_exit_proceso EXCEPT ![p] = @ - 1]
          /\ UNCHANGED cola_exit
      BY <1>3, <2>2, PasosDeConsola
    <3>2. \A q \in Proc : q # p => /\ consola'[q] = consola[q]
                                   /\ sem_exit_proceso'[q] = sem_exit_proceso[q]
      BY <1>2, <3>1
    <3>3. consola'[p] = "retira"
      BY <1>2, <3>1
    <3>4. Avisados' = Avisados
      BY <1>2, <3>1, <3>2, <3>3 DEF Avisados
    <3>. QED
      BY <1>1, <3>1, <3>4 DEF FinalizadosContados
  <2>3. CASE consola[p] \notin {"espera", "retira"}
    <3>1. /\ \E e \in {"registra", "espera", "responde", "destruye", "fin"} :
               consola' = [consola EXCEPT ![p] = e]
          /\ UNCHANGED <<cola_exit, sem_exit_proceso>>
      BY <1>3, <2>3, PasosDeConsola DEF contadores
    <3>2. Avisados' = Avisados
      BY <1>2, <2>3, <3>1 DEF Avisados
    <3>. QED
      BY <1>1, <3>1, <3>2 DEF FinalizadosContados
  <2>. QED
    BY <2>1, <2>2, <2>3
<1>4. ASSUME NEW p \in Proc, EfectoTermina(p)
      PROVE  FinalizadosContados'
  <2>1. /\ estado_actual[p] = "EXEC" /\ UNCHANGED consola
        /\ sem_exit_proceso' = [sem_exit_proceso EXCEPT ![p] = @ + 1]
        /\ cola_exit' = Append(cola_exit, p)
    BY <1>4 DEF EfectoTermina
  <2>2. sem_exit_proceso[p] = 0 /\ consola[p] # "retira"
    <3>1. sem_exit_proceso[p] \in Nat /\ estado_actual[p] # "EXIT"
      BY <1>2, <2>1
    <3>2. ~(sem_exit_proceso[p] > 0) /\ consola[p] # "retira"
      BY <1>1, <3>1 DEF AvisosDeFin
    <3>. QED
      BY <3>1, <3>2
  <2>3. /\ sem_exit_proceso'[p] = 1
        /\ \A q \in Proc : q # p => sem_exit_proceso'[q] = sem_exit_proceso[q]
    BY <1>2, <2>1, <2>2
  <2>4. Avisados' = Avisados \cup {p} /\ p \notin Avisados
    BY <1>2, <2>1, <2>2, <2>3 DEF Avisados
  <2>5. IsFiniteSet(Avisados') /\ Cardinality(Avisados') = Cardinality(Avisados) + 1
    BY <1>1, <2>4, FS_AddElement
  <2>6. Len(cola_exit') = Len(cola_exit) + 1
    BY <1>2, <2>1
  <2>. QED
    BY <1>1, <2>5, <2>6 DEF FinalizadosContados
<1>5. CASE PlpEsperaNuevo \/ PlpEsperaGrado \/ PlpAdmite \/ UNCHANGED seguidas
  BY <1>5, MarcoDeConteos DEF PlpEsperaNuevo, PlpEsperaGrado, PlpAdmite, pcbs, colas,
     consolas, semaforos, seguidas
<1>6. ASSUME NEW p \in Proc,
             \/ EfectoAdmite(p)
             \/ EfectoDespacha(p)
             \/ \E e \in {"READY", "BLOCK", "BLOCK_RECURSO"} : EfectoDeja(p, e)
             \/ EfectoDespierta(p)
      PROVE  FinalizadosContados'
  BY <1>6, MarcoDeConteos DEF EfectoAdmite, EfectoDespacha, EfectoDeja, EfectoDespierta,
     contadores
<1>. QED
  BY <1>3, <1>4, <1>5, <1>6 DEF Efecto

\* Every step keeps the count of the places.
LEMMA LugaresSiguenContados ==
    ASSUME IInv, ConteosInv, Efecto
    PROVE  LugaresContados'
<1> DEFINE u == Uno(plp.pc \in {"admite", "pasa_a_ready"})
<1>1. /\ IsFiniteSet(ConPlaza) /\ Cardinality(ConPlaza) \in Nat
      /\ IsFiniteSet(Servidos) /\ Cardinality(Servidos) \in Nat
      /\ Cardinality(ConPlaza) + sem_grado_multiprogramacion + u
             = GRADO_MAX + Cardinality(Servidos)
  BY FS_CardinalityType DEF ConteosInv, LugaresContados
<1>2. /\ sem_grado_multiprogramacion \in Nat /\ GRADO_MAX \in Nat /\ u \in Nat
      /\ estado_actual \in [Proc -> Estados]
      /\ consola \in [Proc -> {"inicio", "registra", "espera", "retira", "responde",
                                 "destruye", "fin"}]
  BY TiposSeguidos DEF Uno
<1>3. ASSUME NEW p \in Proc, Consola(p)
      PROVE  LugaresContados'
  <2>1. u' = u /\ ConPlaza' = ConPlaza
    BY <1>3, PasosDeConsola DEF ConPlaza
  <2>2. CASE consola[p] = "retira"
    <3>1. /\ consola' = [consola EXCEPT ![p] = "responde"]
          /\ sem_grado_multiprogramacion' = sem_grado_multiprogramacion + 1
      BY <1>3, <2>2, PasosDeConsola
    <3>2. Servidos' = Servidos \cup {p} /\ p \notin Servidos
      BY <1>2, <2>2, <3>1 DEF Servidos
    <3>3. IsFiniteSet(Servidos') /\ Cardinality(Servidos') = Cardinality(Servidos) + 1
      BY <1>1, <3>2, FS_AddElement
    <3>. QED
      BY <1>1, <1>2, <2>1, <3>1, <3>3 DEF LugaresContados
  <2>3. CASE consola[p] # "retira"
    <3>1. UNCHANGED sem_grado_multiprogramacion
      BY <1>3, <2>3, PasosDeConsola DEF contadores
    <3>2. Servidos' = Servidos
      <4>1. CASE consola[p] \in {"responde", "destruye"}
        <5>1. \E e \in {"destruye", "fin"} : consola' = [consola EXCEPT ![p] = e]
          BY <1>3, <4>1, PasosDeConsola
        <5>. QED
          BY <1>2, <4>1, <5>1 DEF Servidos
      <4>2. CASE consola[p] \notin {"responde", "destruye"}
        <5>1. \E e \in {"registra", "espera", "retira"} :
                  consola[p] # "fin" /\ consola' = [consola EXCEPT ![p] = e]
          BY <1>3, <2>3, <4>2, PasosDeConsola
        <5>. QED
          BY <1>2, <4>2, <5>1 DEF Servidos
      <4>. QED
        BY <4>1, <4>2
    <3>. QED
      BY <1>1, <2>1, <3>1, <3>2 DEF LugaresContados
  <2>. QED
    BY <2>2, <2>3
<1>4. ASSUME NEW p \in Proc, EfectoAdmite(p)
      PROVE  LugaresContados'
  <2>1. /\ u = 1 /\ u' = 0 /\ estado_actual[p] = "NEW" /\ EstadoPasa(p, "READY")
        /\ UNCHANGED <<sem_grado_multiprogramacion, consola>>
    BY <1>4 DEF EfectoAdmite, contadores, Uno
  <2>2. ConPlaza' = ConPlaza \cup {p} /\ p \notin ConPlaza
    BY <1>2, <2>1 DEF ConPlaza, EstadoPasa
  <2>3. IsFiniteSet(ConPlaza') /\ Cardinality(ConPlaza') = Cardinality(ConPlaza) + 1
    BY <1>1, <2>2, FS_AddElement
  <2>4. Servidos' = Servidos
    BY <2>1 DEF Servidos
  <2>. QED
    BY <1>1, <1>2, <2>1, <2>3, <2>4 DEF LugaresContados
<1>5. ASSUME NEW p \in Proc, NEW e, e # "NEW", estado_actual[p] # "NEW", EstadoPasa(p, e),
             UNCHANGED <<sem_grado_multiprogramacion, consola, plp>>
      PROVE  LugaresContados'
  <2>1. ConPlaza' = ConPlaza
    BY <1>2, <1>5 DEF ConPlaza, EstadoPasa
  <2>2. Servidos' = Servidos
    BY <1>5 DEF Servidos
  <2>. QED
    BY <1>1, <1>5, <2>1, <2>2 DEF LugaresContados
<1>6. ASSUME NEW p \in Proc,
             \/ EfectoDespacha(p)
             \/ \E e \in {"READY", "BLOCK", "BLOCK_RECURSO"} : EfectoDeja(p, e)
             \/ EfectoTermina(p)
             \/ EfectoDespierta(p)
      PROVE  LugaresContados'
  BY <1>5, <1>6 DEF EfectoDespacha, EfectoDeja, EfectoTermina, EfectoDespierta, contadores
<1>7. CASE PlpEsperaGrado
  <2>1. /\ u = 0 /\ u' = 1 /\ UNCHANGED <<estado_actual, consola>>
        /\ sem_grado_multiprogramacion' = sem_grado_multiprogramacion - 1
    BY <1>7 DEF PlpEsperaGrado, Uno, pcbs, consolas
  <2>2. ConPlaza' = ConPlaza /\ Servidos' = Servidos
    BY <2>1 DEF ConPlaza, Servidos
  <2>. QED
    BY <1>1, <1>2, <2>1, <2>2 DEF LugaresContados
<1>8. CASE PlpEsperaNuevo \/ PlpAdmite
  <2>1. u' = u /\ UNCHANGED <<estado_actual, consola, sem_grado_multiprogramacion>>
    BY <1>8 DEF PlpEsperaNuevo, PlpAdmite, Uno, pcbs, consolas, semaforos
  <2>2. ConPlaza' = ConPlaza /\ Servidos' = Servidos
    BY <2>1 DEF ConPlaza, Servidos
  <2>. QED
    BY <1>1, <2>1, <2>2 DEF LugaresContados
<1>9. CASE UNCHANGED seguidas
  BY <1>9, MarcoDeConteos DEF seguidas
<1>. QED
  BY <1>3, <1>4, <1>6, <1>7, <1>8, <1>9 DEF Efecto

\* Every step keeps the process that runs in cola_exec.
LEMMA EjecutandoSigueEnCola ==
    ASSUME IInv, ConteosInv, Efecto
    PROVE  EjecutandoEnCola'
<1>1. EjecutandoEnCola /\ estado_actual \in [Proc -> Estados]
  BY TiposSeguidos DEF ConteosInv
<1>2. ASSUME NEW p \in Proc, EfectoDespacha(p)
      PROVE  EjecutandoEnCola'
  <2>1. /\ cola_exec = <<>> /\ cola_exec' = <<p>> /\ EstadoPasa(p, "EXEC")
    BY <1>2 DEF EfectoDespacha
  <2>2. \A q \in Proc : cola_exec # <<q>>
    BY <2>1
  <2>. QED
    BY <1>1, <2>1, <2>2 DEF EjecutandoEnCola, EstadoPasa
<1>3. ASSUME NEW p \in Proc, NEW e, e # "EXEC", cola_exec = <<p>>, EstadoPasa(p, e)
      PROVE  EjecutandoEnCola'
  <2>1. \A q \in Proc : cola_exec = <<q>> => q = p
    BY <1>3
  <2>2. \A q \in Proc : estado_actual'[q] # "EXEC"
    BY <1>1, <1>3, <2>1 DEF EjecutandoEnCola, EstadoPasa
  <2>. QED
    BY <2>2 DEF EjecutandoEnCola
<1>4. ASSUME NEW p \in Proc, EstadoPasa(p, "READY"), UNCHANGED cola_exec
      PROVE  EjecutandoEnCola'
  BY <1>1, <1>4 DEF EjecutandoEnCola, EstadoPasa
<1>5. ASSUME NEW p \in Proc,
             \/ EfectoAdmite(p)
             \/ \E e \in {"READY", "BLOCK", "BLOCK_RECURSO"} : EfectoDeja(p, e)
             \/ EfectoTermina(p)
             \/ EfectoDespierta(p)
      PROVE  EjecutandoEnCola'
  BY <1>3, <1>4, <1>5 DEF EfectoAdmite, EfectoDeja, EfectoTermina, EfectoDespierta
<1>6. ASSUME NEW p \in Proc, Consola(p)
      PROVE  EjecutandoEnCola'
  BY <1>6, PasosDeConsola, MarcoDeConteos
<1>7. CASE PlpEsperaNuevo \/ PlpEsperaGrado \/ PlpAdmite \/ UNCHANGED seguidas
  BY <1>7, MarcoDeConteos DEF PlpEsperaNuevo, PlpEsperaGrado, PlpAdmite, pcbs, colas,
     seguidas
<1>. QED
  BY <1>2, <1>5, <1>6, <1>7 DEF Efecto

\* The counts hold in the initial state.
LEMMA InitConteos == Init => ConteosInv
<1> SUFFICES ASSUME Init PROVE ConteosInv
  OBVIOUS
<1>1. /\ \A p \in Proc : /\ consola[p] = "inicio" /\ sem_exit_proceso[p] = 0
                         /\ estado_actual[p] = "NEW"
      /\ cola_new = <<>> /\ cola_exit = <<>> /\ plp.pc = "espera_nuevo"
      /\ sem_nuevo_proceso = 0 /\ sem_grado_multiprogramacion = GRADO_MAX
  BY DEF Init
<1>2. PorRegistrar = {} /\ Avisados = {} /\ ConPlaza = {} /\ Servidos = {}
  BY <1>1 DEF PorRegistrar, Avisados, ConPlaza, Servidos
<1>3. NuevosContados /\ FinalizadosContados /\ LugaresContados
  BY <1>1, <1>2, FS_EmptySet, ConstantesAssumption DEF NuevosContados, FinalizadosContados,
     LugaresContados, Uno
<1>4. AvisosDeFin /\ EjecutandoEnCola
  BY <1>1 DEF AvisosDeFin, EjecutandoEnCola
<1>. QED
  BY <1>3, <1>4 DEF ConteosInv

\* Every step keeps the counts.
LEMMA NextConteos == IInv /\ ConteosInv /\ [Next]_vars => ConteosInv'
BY Efectos, NuevosSiguenContados, AvisosSiguen, FinalizadosSiguenContados,
   LugaresSiguenContados, EjecutandoSigueEnCola DEF ConteosInv

\* What each semaphore of the two schedulers and of the consoles counts: the pcbs in
\* cola_new, those in cola_exit, and the places of the degree of multiprogramming.
THEOREM SemaforosExactos == Spec => []ConteosInv
BY InvarianteInductivo, InitConteos, NextConteos, PTL DEF Spec

-----------------------------------------------------------------------------
(* The refinement: every effect is a step of the life cycle, or stutters     *)

\* The life cycle's view of the scheduler, as Ciclo maps it.
estadoDelCiclo == [p \in Proc |-> IF consola[p] = "inicio" THEN "SIN_CREAR"
                                                          ELSE estado_actual[p]]
lugaresDelCiclo == Cardinality(Servidos)

\* A created process is seen in its own state, and one that was not in SIN_CREAR.
LEMMA VistaDelCiclo ==
    ASSUME IInv
    PROVE  /\ estadoDelCiclo \in [Proc -> Estados \cup {"SIN_CREAR"}]
           /\ \A p \in Proc : estado_actual[p] # "NEW" =>
                 estadoDelCiclo[p] = estado_actual[p]
           /\ \A p \in Proc : estadoDelCiclo[p] \notin {"SIN_CREAR", "NEW"} <=>
                 estado_actual[p] # "NEW"
           /\ \A p \in Proc, e \in {"READY", "EXEC", "EXIT"} :
                 estadoDelCiclo[p] = e <=> estado_actual[p] = e
<1>1. /\ estado_actual \in [Proc -> Estados]
      /\ \A p \in Proc : consola[p] = "inicio" => estado_actual[p] = "NEW"
  BY TiposSeguidos
<1>. QED
  BY <1>1 DEF estadoDelCiclo, Estados

\* When a created process changes state and the consoles do not move, the life cycle
\* sees that change and no other.
LEMMA CambioEnElCiclo ==
    ASSUME IInv, NEW p \in Proc, NEW e, consola[p] # "inicio", EstadoPasa(p, e),
           UNCHANGED consola
    PROVE  /\ estadoDelCiclo' = [estadoDelCiclo EXCEPT ![p] = e]
           /\ lugaresDelCiclo' = lugaresDelCiclo
           /\ estadoDelCiclo[p] = estado_actual[p]
<1>1. estado_actual \in [Proc -> Estados]
  BY TiposSeguidos
<1>2. Servidos' = Servidos
  BY DEF Servidos
<1>. QED
  BY <1>1, <1>2 DEF estadoDelCiclo, lugaresDelCiclo, EstadoPasa

\* Cardinality is the same on both sides of the instance.
LEMMA CardinalidadDelCiclo == \A S : Ciclo!Cardinality(S) = Cardinality(S)
BY DEF Ciclo!Cardinality, Cardinality, Ciclo!IsFiniteSet, IsFiniteSet

\* The definitions of the life cycle, seen through the mapping.
LEMMA DefinicionesDelCiclo ==
    /\ Ciclo!InitCiclo <=> /\ estadoDelCiclo = [p \in Proc |-> "SIN_CREAR"]
                           /\ lugaresDelCiclo = 0
    /\ Ciclo!ciclo = <<estadoDelCiclo, lugaresDelCiclo>>
    /\ Ciclo!Admitidos = {p \in Proc : estadoDelCiclo[p] \notin {"SIN_CREAR", "NEW"}}
    /\ \A e : Ciclo!EnEstado(e) = {p \in Proc : estadoDelCiclo[p] = e}
    /\ \A p, d, h : Ciclo!Cambiar(p, d, h) <=>
          /\ estadoDelCiclo[p] \in d
          /\ estadoDelCiclo' = [estadoDelCiclo EXCEPT ![p] = h]
          /\ lugaresDelCiclo' = lugaresDelCiclo
BY DEF Ciclo!InitCiclo, Ciclo!ciclo, Ciclo!Admitidos, Ciclo!EnEstado, Ciclo!Cambiar,
   estadoDelCiclo, lugaresDelCiclo, Servidos

\* The steps of a console: its process is created, or a place is given back.
LEMMA CicloDeConsola ==
    ASSUME IInv, ConteosInv, NEW p \in Proc, Consola(p)
    PROVE  Ciclo!NextCiclo \/ UNCHANGED Ciclo!ciclo
<1>1. /\ estado_actual \in [Proc -> Estados] /\ UNCHANGED estado_actual
      /\ consola \in [Proc -> {"inicio", "registra", "espera", "retira", "responde",
                                 "destruye", "fin"}]
  BY TiposSeguidos, PasosDeConsola
<1>2. CASE consola[p] = "inicio"
  <2>1. consola' = [consola EXCEPT ![p] = "registra"] /\ estado_actual[p] = "NEW"
    BY <1>2, PasosDeConsola, TiposSeguidos
  <2>2. estadoDelCiclo[p] = "SIN_CREAR"
    BY <1>2 DEF estadoDelCiclo
  <2>3. estadoDelCiclo' = [estadoDelCiclo EXCEPT ![p] = "NEW"]
    BY <1>1, <2>1 DEF estadoDelCiclo
  <2>4. Servidos' = Servidos
    BY <1>1, <1>2, <2>1 DEF Servidos
  <2>5. Ciclo!Crear(p)
    BY <2>2, <2>3, <2>4, DefinicionesDelCiclo DEF Ciclo!Crear, lugaresDelCiclo
  <2>. QED
    BY <2>5 DEF Ciclo!NextCiclo
<1>3. ASSUME consola[p] # "inicio"
      PROVE  estadoDelCiclo' = estadoDelCiclo
  <2>1. consola'[p] # "inicio" /\ \A q \in Proc : q # p => consola'[q] = consola[q]
    BY <1>1, <1>3, PasosDeConsola
  <2>. QED
    BY <1>1, <1>3, <2>1 DEF estadoDelCiclo
<1>4. CASE consola[p] = "retira"
  <2>1. consola' = [consola EXCEPT ![p] = "responde"]
    BY <1>4, PasosDeConsola
  <2>2. Servidos' = Servidos \cup {p} /\ p \notin Servidos
    BY <1>1, <1>4, <2>1 DEF Servidos
  <2>3. /\ IsFiniteSet(Servidos) /\ IsFiniteSet(ConPlaza) /\ AvisosDeFin
    BY DEF ConteosInv, LugaresContados
  <2>4. lugaresDelCiclo \in Nat /\ lugaresDelCiclo' = lugaresDelCiclo + 1
    BY <2>2, <2>3, FS_AddElement, FS_CardinalityType DEF lugaresDelCiclo
  <2> DEFINE T == {q \in Proc : estadoDelCiclo[q] = "EXIT"}
  <2>5. T = {q \in Proc : estado_actual[q] = "EXIT"}
    BY VistaDelCiclo
  <2>6. T \in SUBSET ConPlaza /\ Servidos \cup {p} \in SUBSET T
    BY <1>4, <2>3, <2>5 DEF ConPlaza, Servidos, AvisosDeFin
  <2> HIDE DEF T
  <2>7. IsFiniteSet(T) /\ Cardinality(T) \in Nat
    BY <2>3, <2>6, FS_Subset, FS_CardinalityType
  <2>8. Cardinality(Servidos \cup {p}) <= Cardinality(T)
    BY <2>6, <2>7, FS_Subset
  <2>9. Cardinality(Servidos \cup {p}) = lugaresDelCiclo + 1
    BY <2>2, <2>4 DEF lugaresDelCiclo
  <2>10. lugaresDelCiclo < Cardinality(T)
    BY <2>4, <2>7, <2>8, <2>9
  <2>11. Ciclo!EnEstado("EXIT") = T
    BY DefinicionesDelCiclo DEF T
  <2>12. Ciclo!DevolverLugar
    <3>1. lugaresDelCiclo < Cardinality(Ciclo!EnEstado("EXIT"))
      BY <2>10, <2>11, CardinalidadDelCiclo
    <3>. QED
      BY <3>1, <2>4, <1>3, <1>4, CardinalidadDelCiclo DEF Ciclo!DevolverLugar, estadoDelCiclo, lugaresDelCiclo,
         Servidos
  <2>. QED
    BY <2>12 DEF Ciclo!NextCiclo
<1>5. CASE consola[p] \notin {"inicio", "retira"}
  <2>1. \/ consola[p] = "registra" /\ consola' = [consola EXCEPT ![p] = "espera"]
        \/ consola[p] = "espera" /\ consola' = [consola EXCEPT ![p] = "retira"]
        \/ /\ consola[p] \in {"responde", "destruye"}
           /\ \E e \in {"destruye", "fin"} : consola' = [consola EXCEPT ![p] = e]
    BY <1>5, PasosDeConsola
  <2>2. Servidos' = Servidos
    BY <1>1, <2>1 DEF Servidos
  <2>. QED
    BY <1>3, <1>5, <2>2 DEF Ciclo!ciclo, estadoDelCiclo, Servidos
<1>. QED
  BY <1>2, <1>4, <1>5

\* The admission finds a place: the PLP took it from the semaphore.
LEMMA CicloDeAdmision ==
    ASSUME IInv, ConteosInv, NEW p \in Proc, EfectoAdmite(p)
    PROVE  Ciclo!NextCiclo
<1>1. /\ p = Head(cola_new) /\ cola_new # <<>> /\ cola_new \in Seq(Proc)
      /\ estado_actual[p] = "NEW" /\ EstadoPasa(p, "READY") /\ UNCHANGED consola
      /\ plp.pc = "pasa_a_ready"
  BY TiposSeguidos DEF EfectoAdmite
<1>2. consola[p] # "inicio"
  <2>1. p = cola_new[1] /\ 1 \in 1..Len(cola_new)
    BY <1>1, TailFacts
  <2>. QED
    BY <2>1 DEF IInv, ColasPorEstado, SinCrearFueraDeColas
<1>3. /\ estadoDelCiclo' = [estadoDelCiclo EXCEPT ![p] = "READY"]
      /\ lugaresDelCiclo' = lugaresDelCiclo /\ estadoDelCiclo[p] = "NEW"
  BY <1>1, <1>2, CambioEnElCiclo
<1>4. Cardinality(ConPlaza) - lugaresDelCiclo < GRADO_MAX
  <2>1. /\ Cardinality(ConPlaza) + sem_grado_multiprogramacion + 1
              = GRADO_MAX + Cardinality(Servidos)
        /\ Cardinality(ConPlaza) \in Nat /\ Cardinality(Servidos) \in Nat
    BY <1>1, FS_CardinalityType DEF ConteosInv, LugaresContados, Uno
  <2>. QED
    BY <2>1, TiposSeguidos DEF lugaresDelCiclo
<1>5. Ciclo!Admitidos = ConPlaza
  BY DefinicionesDelCiclo, VistaDelCiclo DEF ConPlaza
<1>6. Cardinality(Ciclo!Admitidos) - lugaresDelCiclo < GRADO_MAX
  BY <1>4, <1>5
<1>7. Ciclo!Admitir(p)
  BY <1>3, <1>6, DefinicionesDelCiclo, CardinalidadDelCiclo DEF Ciclo!Admitir, lugaresDelCiclo, Servidos
<1>. QED
  BY <1>7 DEF Ciclo!NextCiclo

\* The process that gets the CPU finds nobody in EXEC.
LEMMA CicloDeDespacho ==
    ASSUME IInv, ConteosInv, NEW p \in Proc, EfectoDespacha(p)
    PROVE  Ciclo!NextCiclo
<1>1. /\ cola_exec = <<>> /\ estado_actual[p] = "READY" /\ EstadoPasa(p, "EXEC")
      /\ UNCHANGED consola
  BY DEF EfectoDespacha
<1>2. \A q \in Proc : estado_actual[q] # "EXEC"
  BY <1>1 DEF ConteosInv, EjecutandoEnCola
<1>3. Ciclo!EnEstado("EXEC") = {}
  BY <1>2, DefinicionesDelCiclo, VistaDelCiclo
<1>4. consola[p] # "inicio"
  BY <1>1, TiposSeguidos
<1>5. Ciclo!Cambiar(p, {"READY"}, "EXEC")
  BY <1>1, <1>4, CambioEnElCiclo, DefinicionesDelCiclo
<1>6. Ciclo!Despachar(p)
  BY <1>3, <1>5 DEF Ciclo!Despachar
<1>. QED
  BY <1>6 DEF Ciclo!NextCiclo

\* The process that leaves the CPU, and the one that wakes up.
LEMMA CicloDeSalida ==
    ASSUME IInv, ConteosInv, NEW p \in Proc,
           \/ \E e \in {"READY", "BLOCK", "BLOCK_RECURSO"} : EfectoDeja(p, e)
           \/ EfectoTermina(p)
           \/ EfectoDespierta(p)
    PROVE  Ciclo!NextCiclo
<1>1. ASSUME NEW e \in {"READY", "BLOCK", "BLOCK_RECURSO", "EXIT"},
             estado_actual[p] = "EXEC", EstadoPasa(p, e), UNCHANGED consola
      PROVE  Ciclo!NextCiclo
  <2>1. consola[p] # "inicio"
    BY <1>1, TiposSeguidos
  <2>2. Ciclo!Cambiar(p, {"EXEC"}, e)
    BY <1>1, <2>1, CambioEnElCiclo, DefinicionesDelCiclo
  <2>. QED
    BY <2>2 DEF Ciclo!Dejar, Ciclo!NextCiclo
<1>2. CASE EfectoDespierta(p)
  <2>1. /\ estado_actual[p] \in {"BLOCK", "BLOCK_RECURSO"} /\ EstadoPasa(p, "READY")
        /\ UNCHANGED consola
    BY <1>2 DEF EfectoDespierta
  <2>2. consola[p] # "inicio"
    BY <2>1, TiposSeguidos
  <2>3. Ciclo!Cambiar(p, {"BLOCK", "BLOCK_RECURSO"}, "READY")
    BY <2>1, <2>2, CambioEnElCiclo, DefinicionesDelCiclo
  <2>. QED
    BY <2>3 DEF Ciclo!Despertar, Ciclo!NextCiclo
<1>. QED
  BY <1>1, <1>2 DEF EfectoDeja, EfectoTermina

\* A step that moves neither the states nor the consoles stutters in the life cycle.
LEMMA CicloQuieto ==
    ASSUME UNCHANGED <<estado_actual, consola>>
    PROVE  UNCHANGED Ciclo!ciclo
<1>1. estadoDelCiclo' = estadoDelCiclo /\ lugaresDelCiclo' = lugaresDelCiclo
  BY DEF estadoDelCiclo, lugaresDelCiclo, Servidos
<1>. QED
  BY <1>1 DEF Ciclo!ciclo, estadoDelCiclo, lugaresDelCiclo, Servidos

\* The initial state maps to the initial state of the life cycle.
LEMMA InitCicloDeVida == Init => Ciclo!InitCiclo
<1> SUFFICES ASSUME Init PROVE Ciclo!InitCiclo
  OBVIOUS
<1>1. \A p \in Proc : consola[p] = "inicio"
  BY DEF Init
<1>2. Servidos = {}
  BY <1>1 DEF Servidos
<1>3. estadoDelCiclo = [p \in Proc |-> "SIN_CREAR"] /\ lugaresDelCiclo = 0
  BY <1>1, <1>2, FS_EmptySet DEF estadoDelCiclo, lugaresDelCiclo
<1>. QED
  BY <1>3, DefinicionesDelCiclo

\* Every step maps to a step of the life cycle, or to a stutter.
LEMMA NextCicloDeVida ==
    IInv /\ ConteosInv /\ [Next]_vars => [Ciclo!NextCiclo]_(Ciclo!ciclo)
<1> SUFFICES ASSUME IInv, ConteosInv, [Next]_vars
             PROVE  Ciclo!NextCiclo \/ UNCHANGED Ciclo!ciclo
  OBVIOUS
<1>1. Efecto
  BY Efectos
<1>2. CASE PlpEsperaNuevo \/ PlpEsperaGrado \/ PlpAdmite \/ UNCHANGED seguidas
  BY <1>2, CicloQuieto DEF PlpEsperaNuevo, PlpEsperaGrado, PlpAdmite, pcbs, consolas,
     seguidas
<1>. QED
  BY <1>1, <1>2, CicloDeConsola, CicloDeAdmision, CicloDeDespacho, CicloDeSalida DEF Efecto

\* The scheduler implements the life cycle: whatever the threads interleave, a process
\* only moves along the five-state diagram, one at a time in EXEC, and never are more
\* admitted than the degree allows plus the places given back.
THEOREM ImplementaElCicloDeVida == Spec => CicloDeVidaRespetado
BY InvarianteInductivo, SemaforosExactos, InitCicloDeVida, NextCicloDeVida, PTL
   DEF Spec, CicloDeVidaRespetado, Ciclo!SpecCiclo

-----------------------------------------------------------------------------
(* Under FIFO: the inductive invariant *)

\* The pcb the PCP peeked is the one it pops, and the one it popped is the one whose
\* context it sends.
DespachaLaCabeza ==
    /\ pcp.pc = "despacha" => cola_ready # <<>> /\ pcp.pcb = Head(cola_ready)
    /\ pcp.pc = "ejecuta" => cola_exec = <<pcp.pcb>>

\* Every ready process is somewhere in cola_ready.
EnReady == \A p \in Proc : estado_actual[p] = "READY" =>
               \E i \in 1..Len(cola_ready) : cola_ready[i] = p

\* A context in the CPU, or on its way back, is never behind its pcb.
ContextosAlDia ==
    /\ ContextoDelEjecutado
    /\ cpu.pid # NoProc => cpu.program_counter >= program_counter[cpu.pid]
    /\ \A i \in 1..Len(desde_cpu) :
          desde_cpu[i].program_counter >= program_counter[desde_cpu[i].pid]

FifoInv == DespachaLaCabeza /\ EnReady /\ ContextosAlDia

-----------------------------------------------------------------------------
(* Where the context is *)

\* With no context out of the kernel, the link with the CPU is empty.
LEMMA EnlaceVacio ==
    ASSUME IInv, EnVuelo = 0
    PROVE  hacia_cpu = <<>> /\ cpu.pid = NoProc /\ desde_cpu = <<>>
<1>1. hacia_cpu \in Seq(Contexto) /\ desde_cpu \in Seq(Devuelto)
  BY DEF IInv, TypeOK, TipoEnlace
<1>2. /\ Len(hacia_cpu) \in Nat /\ Len(desde_cpu) \in Nat /\ Uno(cpu.pid # NoProc) \in Nat
      /\ Len(hacia_cpu) + Uno(cpu.pid # NoProc) + Len(desde_cpu) = 0
  BY <1>1 DEF EnVuelo, Uno
<1>3. Len(hacia_cpu) = 0 /\ Len(desde_cpu) = 0 /\ Uno(cpu.pid # NoProc) = 0
  BY <1>2
<1>. QED
  BY <1>1, <1>3 DEF Uno

\* Nothing is out of the kernel while nobody has the CPU, nor while a thread of the
\* kernel is busy with the process that has it; and nobody else is busy with it then.
LEMMA SinContextos ==
    ASSUME IInv
    PROVE  /\ cola_exec = <<>> => EnVuelo = 0
           /\ pcp.pc = "ejecuta" => EnVuelo = 0 /\ hilo_cpu.pc \notin {"procesa", "ejecuta"}
           /\ hilo_cpu.pc \in {"procesa", "ejecuta"} => EnVuelo = 0 /\ pcp.pc # "ejecuta"
           /\ hilo_cpu.pc = "recibe" => pcp.pc # "ejecuta"
           /\ EnVuelo > 0 => cola_exec # <<>>
<1> DEFINE c == Uno(pcp.pc = "ejecuta")
           d == Uno(hilo_cpu.pc \in {"procesa", "ejecuta"})
<1>1. /\ c \in Nat /\ d \in Nat /\ Len(hacia_cpu) \in Nat /\ Len(desde_cpu) \in Nat
      /\ Uno(cpu.pid # NoProc) \in Nat /\ Uno(hilo_cpu.pc = "recibe") \in Nat
      /\ proceso_enviado \in Nat /\ cola_exec \in Seq(Proc)
  BY DEF Uno, IInv, TypeOK, TipoEnlace, TipoSemaforos, TipoColas
<1>2. EnVuelo \in Nat
  BY <1>1 DEF EnVuelo
<1>3. c + EnVuelo + d = Len(cola_exec) /\ Len(cola_exec) <= 1
  BY UnoEnLaCpu DEF IInv, ContextoEnUnLugar, UnSoloProcesoEnCpu
<1>4. hilo_cpu.pc = "recibe" => EnVuelo >= 1
  BY <1>1, <1>2 DEF IInv, UnAvisoPorContexto, Uno
<1> HIDE DEF c, d
<1>5. /\ Len(cola_exec) = 0 => EnVuelo = 0
      /\ c = 1 => EnVuelo = 0 /\ d = 0
      /\ d = 1 => EnVuelo = 0 /\ c = 0
      /\ EnVuelo >= 1 => c = 0
  BY <1>1, <1>2, <1>3
<1>6. EnVuelo > 0 => Len(cola_exec) > 0
  BY <1>1, <1>2, <1>3
<1>. QED
  BY <1>1, <1>2, <1>4, <1>5, <1>6 DEF c, d, Uno

-----------------------------------------------------------------------------
(* The ready queue *)

\* What a step does to the states and to cola_ready.
EfectoEnReady ==
    \/ UNCHANGED <<estado_actual, cola_ready>>
    \/ \E p \in Proc : EstadoPasa(p, "READY") /\ cola_ready' = Append(cola_ready, p)
    \/ /\ PcpDespacha
       /\ cola_ready # <<>> /\ cola_ready' = Tail(cola_ready)
       /\ EstadoPasa(Head(cola_ready), "EXEC")
    \/ \E p \in Proc, e \in Estados \ {"READY"} : EstadoPasa(p, e) /\ UNCHANGED cola_ready

\* The cases of procesar_contexto, on cola_ready.
LEMMA EnReadyDeProcesarContexto ==
    ASSUME IInv, ALGORITMO = "FIFO", ProcesarContexto
    PROVE  EfectoEnReady
<1> DEFINE p == hilo_cpu.pcb
<1>1. hilo_cpu.pc = "procesa"
  BY DEF ProcesarContexto, ProcesarYield, ProcesarFinalizado, ProcesarSegFault,
     ProcesarBloqueado, ProcesarRecursoInexistente, ProcesarWaitSinInstancias,
     ProcesarWaitConInstancias, ProcesarSignalConEspera, ProcesarSignalSinEspera,
     ProcesarDeleteSegment, Procesa
<1>2. p \in Proc /\ Head(cola_exec) = p /\ estado_actual[p] = "EXEC"
  BY <1>1, EnProcesa
<1>3. CASE ProcesarYield
  <2>1. EstadoPasa(p, "READY") /\ cola_ready' = Append(cola_ready, p)
    BY <1>2, <1>3 DEF ProcesarYield, PasarAColaReady, Sacado, Insertar, EstadoPasa
  <2>. QED
    BY <1>2, <2>1 DEF EfectoEnReady
<1>4. ASSUME NEW causa, TerminarProceso(causa)
      PROVE  EfectoEnReady
  BY <1>2, <1>4 DEF TerminarProceso, PasarAColaExit, EfectoEnReady, EstadoPasa, Estados
<1>5. CASE ProcesarBloqueado
  BY <1>2, <1>5 DEF ProcesarBloqueado, PasarAColaBlocked, EfectoEnReady, EstadoPasa, Estados
<1>6. CASE ProcesarWaitSinInstancias
  BY <1>2, <1>6 DEF ProcesarWaitSinInstancias, PasarAColaBloqueadosDe, EfectoEnReady,
     EstadoPasa, Estados
<1>7. CASE ProcesarSignalConEspera
  <2> DEFINE r == hilo_cpu.nombre
             q == Head(cola_bloqueados[r])
  <2>1. /\ r \in Recurso /\ cola_bloqueados[r] # <<>> /\ cola_bloqueados[r] \in Seq(Proc)
        /\ PasarAColaReady(q)
    BY <1>7 DEF ProcesarSignalConEspera, PasarAReadySegunAlgoritmo, IInv, TypeOK,
       TipoRecursos
  <2>2. /\ q \in Proc /\ q = cola_bloqueados[r][1] /\ 1 \in 1..Len(cola_bloqueados[r])
    BY <2>1, TailFacts
  <2>3. estado_actual[q] = "BLOCK_RECURSO"
    BY <2>1, <2>2 DEF IInv, ColasPorEstado, ColasDeRecursosPuras, TodosEn
  <2>4. EstadoPasa(q, "READY") /\ cola_ready' = Append(cola_ready, q)
    BY <2>1, <2>3 DEF PasarAColaReady, Sacado, Insertar, EstadoPasa
  <2>. QED
    BY <2>2, <2>4 DEF EfectoEnReady
<1>8. CASE ProcesarWaitConInstancias \/ ProcesarSignalSinEspera \/ ProcesarDeleteSegment
  BY <1>8 DEF ProcesarWaitConInstancias, ProcesarSignalSinEspera, ProcesarDeleteSegment,
     colas, EfectoEnReady
<1>. QED
  BY <1>3, <1>4, <1>5, <1>6, <1>7, <1>8 DEF ProcesarContexto, ProcesarFinalizado,
     ProcesarSegFault, ProcesarRecursoInexistente

\* Under FIFO every step pushes a process that becomes ready, pops the one that is
\* dispatched, or leaves cola_ready alone.
LEMMA EfectosEnReady ==
    ASSUME IInv, ALGORITMO = "FIFO", [Next]_vars
    PROVE  EfectoEnReady
<1>1. ASSUME NEW p \in Proc, Consola(p)
      PROVE  EfectoEnReady
  BY <1>1 DEF Consola, ConsolaCreaProceso, ConsolaRegistra, ConsolaEspera, ConsolaRetira,
     ConsolaResponde, ConsolaDestruye, pcbs, colas, EfectoEnReady
<1>2. ASSUME NEW p \in Proc, HiloDeIO(p)
      PROVE  EfectoEnReady
  <2>1. BloqueoIO(p) /\ estado_actual[p] = "BLOCK"
    <3>1. p \notin insertando
      BY DEF IInv, ColasPorEstado, ColaReadyPura, InsertandoFueraDeReady
    <3>2. BloqueoIO(p)
      BY <1>2, <3>1 DEF HiloDeIO, BloqueoIOCalcula, BloqueoIOInserta
    <3>. QED
      BY <3>2 DEF BloqueoIO, IInv, ColasPorEstado, DurmientesBloqueados
  <2>2. EstadoPasa(p, "READY") /\ cola_ready' = Append(cola_ready, p)
    BY <2>1 DEF BloqueoIO, PasarAColaReady, Sacado, Insertar, EstadoPasa
  <2>. QED
    BY <2>2 DEF EfectoEnReady
<1>3. CASE PlpPasaAReady
  <2>1. /\ cola_new # <<>> /\ plp.pcb = Head(cola_new) /\ cola_new \in Seq(Proc)
    BY <1>3 DEF PlpPasaAReady, IInv, TypeOK, TipoColas, PcbsTomados
  <2>2. Head(cola_new) \in Proc /\ Head(cola_new) = cola_new[1] /\ 1 \in 1..Len(cola_new)
    BY <2>1, TailFacts
  <2>3. estado_actual[plp.pcb] = "NEW"
    BY <2>1, <2>2 DEF IInv, ColasPorEstado, ColaNewPura, TodosEn
  <2>4. EstadoPasa(plp.pcb, "READY") /\ cola_ready' = Append(cola_ready, plp.pcb)
    BY <1>3, <2>1, <2>3 DEF PlpPasaAReady, PasarAColaReady, Sacado, Insertar, EstadoPasa
  <2>. QED
    BY <2>1, <2>2, <2>4 DEF EfectoEnReady
<1>4. CASE PlanificadorLargoPlazo
  BY <1>3, <1>4 DEF PlanificadorLargoPlazo, PlpEsperaNuevo, PlpEsperaGrado, PlpAdmite, pcbs,
     colas, EfectoEnReady
<1>5. CASE PcpDespacha
  BY <1>5 DEF PcpDespacha, PasarAColaExec, EstadoPasa, EfectoEnReady
<1>6. CASE PlanificadorCortoPlazo
  BY <1>5, <1>6 DEF PlanificadorCortoPlazo, PcpEsperaCpu, PcpEsperaReady, PcpElige,
     PcpEjecuta, pcbs, colas, EfectoEnReady
<1>7. CASE ManejarRespuestaCpu
  BY <1>7, EnReadyDeProcesarContexto DEF ManejarRespuestaCpu, HiloCpuEspera, HiloCpuRecibe,
     HiloCpuLibera, HiloCpuEjecuta, pcbs, colas, EfectoEnReady
<1>8. CASE Cpu \/ UNCHANGED vars
  BY <1>8 DEF Cpu, CpuRecibe, CpuSigue, CpuDevuelve, DevolverProceso, vars, pcbs, colas,
     EfectoEnReady
<1>. QED
  BY <1>1, <1>2, <1>4, <1>6, <1>7, <1>8 DEF Next

\* No step leaves a ready process out of cola_ready.
LEMMA SigueEnReady ==
    ASSUME IInv, EnReady, EfectoEnReady
    PROVE  EnReady'
<1>1. estado_actual \in [Proc -> Estados] /\ cola_ready \in Seq(Proc)
  BY DEF IInv, TypeOK, TipoPcbs, TipoColas
<1>2. CASE UNCHANGED <<estado_actual, cola_ready>>
  BY <1>2 DEF EnReady
<1>3. ASSUME NEW p \in Proc, EstadoPasa(p, "READY"), cola_ready' = Append(cola_ready, p)
      PROVE  EnReady'
  <2>1. /\ Len(cola_ready) \in Nat /\ Len(cola_ready') = Len(cola_ready) + 1
        /\ \A i \in 1..Len(cola_ready) : cola_ready'[i] = cola_ready[i]
        /\ cola_ready'[Len(cola_ready) + 1] = p
    BY <1>1, <1>3, AppendFacts
  <2> SUFFICES ASSUME NEW q \in Proc, estado_actual'[q] = "READY"
               PROVE  \E i \in 1..Len(cola_ready') : cola_ready'[i] = q
    BY DEF EnReady
  <2>2. CASE q = p
    BY <2>1, <2>2
  <2>3. CASE q # p
    <3>1. estado_actual[q] = "READY"
      BY <1>1, <1>3, <2>3 DEF EstadoPasa
    <3>2. PICK i \in 1..Len(cola_ready) : cola_ready[i] = q
      BY <3>1 DEF EnReady
    <3>3. i \in 1..Len(cola_ready') /\ cola_ready'[i] = q
      BY <2>1, <3>2
    <3>. QED
      BY <3>3
  <2>. QED
    BY <2>2, <2>3
<1>4. ASSUME cola_ready # <<>>, cola_ready' = Tail(cola_ready),
             EstadoPasa(Head(cola_ready), "EXEC")
      PROVE  EnReady'
  <2>1. /\ Len(cola_ready) \in Nat /\ Len(cola_ready) > 0
        /\ Head(cola_ready) \in Proc /\ Head(cola_ready) = cola_ready[1]
        /\ Len(cola_ready') = Len(cola_ready) - 1
        /\ \A i \in 1..Len(cola_ready') : cola_ready'[i] = cola_ready[i + 1]
    BY <1>1, <1>4, TailFacts
  <2> SUFFICES ASSUME NEW q \in Proc, estado_actual'[q] = "READY"
               PROVE  \E i \in 1..Len(cola_ready') : cola_ready'[i] = q
    BY DEF EnReady
  <2>2. q # Head(cola_ready) /\ estado_actual[q] = "READY"
    BY <1>1, <1>4, <2>1 DEF EstadoPasa
  <2>3. PICK i \in 1..Len(cola_ready) : cola_ready[i] = q
    BY <2>2 DEF EnReady
  <2>4. i # 1
    BY <2>1, <2>2, <2>3
  <2>5. i - 1 \in 1..Len(cola_ready') /\ cola_ready'[i - 1] = q
    BY <2>1, <2>3, <2>4
  <2>. QED
    BY <2>5
<1>5. ASSUME NEW p \in Proc, NEW e \in Estados \ {"READY"}, EstadoPasa(p, e),
             UNCHANGED cola_ready
      PROVE  EnReady'
  BY <1>1, <1>5 DEF EnReady, EstadoPasa
<1>. QED
  BY <1>2, <1>3, <1>4, <1>5 DEF EfectoEnReady

-----------------------------------------------------------------------------
(* The process the PCP serves *)

\* Only the PCP moves itself, only it and the cases of procesar_contexto move
\* cola_exec.
LEMMA QuienMuevePcp ==
    ASSUME IInv, [Next]_vars
    PROVE  /\ PlanificadorCortoPlazo \/ UNCHANGED pcp
           /\ \/ PcpDespacha
              \/ ProcesarContexto /\ hilo_cpu.pc = "procesa"
              \/ UNCHANGED cola_exec
<1>1. ASSUME NEW p \in Proc, Consola(p)
      PROVE  UNCHANGED <<pcp, cola_exec>>
  BY <1>1 DEF Consola, ConsolaCreaProceso, ConsolaRegistra, ConsolaEspera, ConsolaRetira,
     ConsolaResponde, ConsolaDestruye, colas
<1>2. ASSUME NEW p \in Proc, HiloDeIO(p)
      PROVE  UNCHANGED <<pcp, cola_exec>>
  <2>1. p \in hilos_io => estado_actual[p] = "BLOCK"
    BY DEF IInv, ColasPorEstado, DurmientesBloqueados
  <2>. QED
    BY <1>2, <2>1 DEF HiloDeIO, BloqueoIO, BloqueoIOCalcula, BloqueoIOInserta,
       PasarAColaReady, QuitarDeColaActual
<1>3. CASE PlanificadorLargoPlazo
  <2>1. CASE PlpPasaAReady
    <3>1. /\ cola_new # <<>> /\ plp.pcb = Head(cola_new) /\ cola_new \in Seq(Proc)
      BY <2>1 DEF PlpPasaAReady, IInv, TypeOK, TipoColas, PcbsTomados
    <3>2. Head(cola_new) = cola_new[1] /\ 1 \in 1..Len(cola_new)
      BY <3>1, TailFacts
    <3>3. estado_actual[plp.pcb] = "NEW"
      BY <3>1, <3>2 DEF IInv, ColasPorEstado, ColaNewPura, TodosEn
    <3>4. UNCHANGED <<pcp, cola_exec>>
      BY <2>1, <3>3 DEF PlpPasaAReady, PasarAColaReady, QuitarDeColaActual
    <3>. QED
      BY <3>4
  <2>. QED
    BY <1>3, <2>1 DEF PlanificadorLargoPlazo, PlpEsperaNuevo, PlpEsperaGrado, PlpAdmite, colas
<1>4. CASE PlanificadorCortoPlazo
  BY <1>4 DEF PlanificadorCortoPlazo, PcpEsperaCpu, PcpEsperaReady, PcpElige, PcpEjecuta,
     colas
<1>5. CASE ManejarRespuestaCpu
  <2>1. CASE ProcesarContexto
    BY <2>1 DEF ProcesarContexto, ProcesarYield, ProcesarFinalizado, ProcesarSegFault,
       ProcesarBloqueado, ProcesarRecursoInexistente, ProcesarWaitSinInstancias,
       ProcesarWaitConInstancias, ProcesarSignalConEspera, ProcesarSignalSinEspera,
       ProcesarDeleteSegment, Procesa
  <2>. QED
    BY <1>5, <2>1 DEF ManejarRespuestaCpu, HiloCpuEspera, HiloCpuRecibe, HiloCpuLibera,
       HiloCpuEjecuta, colas
<1>6. CASE Cpu \/ UNCHANGED vars
  BY <1>6 DEF Cpu, CpuRecibe, CpuSigue, CpuDevuelve, DevolverProceso, vars, colas, hilos
<1>. QED
  BY <1>1, <1>2, <1>3, <1>4, <1>5, <1>6 DEF Next

\* Between the peek and the pop the head of cola_ready does not change, and between
\* the pop and the send nobody touches cola_exec.
LEMMA SigueDespachandoLaCabeza ==
    ASSUME IInv, ALGORITMO = "FIFO", DespachaLaCabeza, [Next]_vars
    PROVE  DespachaLaCabeza'
<1>1. cola_ready \in Seq(Proc) /\ cola_exec \in Seq(Proc)
  BY DEF IInv, TypeOK, TipoColas
<1>2. CASE PcpElige
  <2>1. cola_ready # <<>> /\ cola_ready' = cola_ready /\ pcp'.pc = "despacha"
        /\ pcp'.pcb = Head(cola_ready')
    BY <1>2 DEF PcpElige
  <2>. QED
    BY <2>1 DEF DespachaLaCabeza
<1>3. CASE PcpDespacha
  <2>1. pcp.pc = "despacha" /\ pcp'.pc = "ejecuta" /\ pcp'.pcb = pcp.pcb
    BY <1>3 DEF PcpDespacha
  <2>2. cola_exec' = <<Head(cola_ready)>>
    BY <1>3, EfectoDePcpDespacha DEF EfectoDespacha
  <2>3. pcp.pcb = Head(cola_ready)
    BY <2>1 DEF DespachaLaCabeza
  <2>. QED
    BY <2>1, <2>2, <2>3 DEF DespachaLaCabeza
<1>4. CASE PcpEsperaCpu \/ PcpEsperaReady \/ PcpEjecuta
  BY <1>4 DEF PcpEsperaCpu, PcpEsperaReady, PcpEjecuta, DespachaLaCabeza
<1>5. CASE UNCHANGED pcp /\ ~PcpDespacha
  <2>1. ASSUME pcp.pc = "despacha"
        PROVE  cola_ready' # <<>> /\ pcp.pcb = Head(cola_ready')
    <3>1. cola_ready # <<>> /\ pcp.pcb = Head(cola_ready)
      BY <2>1 DEF DespachaLaCabeza
    <3>2. cola_ready' = cola_ready \/ \E p \in Proc : cola_ready' = Append(cola_ready, p)
      BY <1>5, EfectosEnReady DEF EfectoEnReady
    <3>3. ASSUME NEW p \in Proc, cola_ready' = Append(cola_ready, p)
          PROVE  cola_ready' # <<>> /\ Head(cola_ready') = Head(cola_ready)
      BY <1>1, <3>1, <3>3
    <3>. QED
      BY <3>1, <3>2, <3>3
  <2>2. ASSUME pcp.pc = "ejecuta"
        PROVE  cola_exec' = <<pcp.pcb>>
    <3>1. hilo_cpu.pc # "procesa"
      BY <2>2, SinContextos
    <3>2. UNCHANGED cola_exec
      BY <1>5, <3>1, QuienMuevePcp
    <3>. QED
      BY <2>2, <3>2 DEF DespachaLaCabeza
  <2>. QED
    BY <1>5, <2>1, <2>2 DEF DespachaLaCabeza
<1>. QED
  BY <1>2, <1>3, <1>4, <1>5, QuienMuevePcp DEF PlanificadorCortoPlazo

-----------------------------------------------------------------------------
(* The contexts out of the kernel *)

deContextos == <<cola_exec, program_counter, enlace>>

\* The cases of procesar_contexto touch neither the counters of the pcbs nor the link.
LEMMA EnProcesarContexto ==
    ASSUME ProcesarContexto
    PROVE  hilo_cpu.pc = "procesa" /\ UNCHANGED <<program_counter, enlace>>
BY DEF ProcesarContexto, ProcesarYield, ProcesarFinalizado, ProcesarSegFault,
   ProcesarBloqueado, ProcesarRecursoInexistente, ProcesarWaitSinInstancias,
   ProcesarWaitConInstancias, ProcesarSignalConEspera, ProcesarSignalSinEspera,
   ProcesarDeleteSegment, Procesa

\* The steps that move a context, or what it is compared with.
LEMMA QuienMueveContextos ==
    ASSUME IInv, [Next]_vars
    PROVE  \/ PcpDespacha \/ PcpEjecuta \/ HiloCpuEjecuta \/ HiloCpuRecibe
           \/ ProcesarContexto
           \/ Cpu
           \/ UNCHANGED deContextos
<1> USE DEF deContextos
<1>1. ASSUME NEW p \in Proc, Consola(p) \/ HiloDeIO(p)
      PROVE  UNCHANGED <<program_counter, enlace>>
  BY <1>1 DEF Consola, ConsolaCreaProceso, ConsolaRegistra, ConsolaEspera, ConsolaRetira,
     ConsolaResponde, ConsolaDestruye, HiloDeIO, BloqueoIO, BloqueoIOCalcula,
     BloqueoIOInserta, pcbs
<1>2. CASE PlanificadorLargoPlazo
  <2>1. UNCHANGED <<program_counter, enlace>>
    BY <1>2 DEF PlanificadorLargoPlazo, PlpEsperaNuevo, PlpEsperaGrado, PlpAdmite,
       PlpPasaAReady, pcbs
  <2>. QED
    BY <2>1, QuienMuevePcp
<1>3. CASE PlanificadorCortoPlazo
  BY <1>3 DEF PlanificadorCortoPlazo, PcpEsperaCpu, PcpEsperaReady, PcpElige, pcbs, colas
<1>4. CASE ManejarRespuestaCpu
  BY <1>4 DEF ManejarRespuestaCpu, HiloCpuEspera, HiloCpuLibera, pcbs, colas
<1>5. CASE UNCHANGED vars
  BY <1>5 DEF vars, pcbs, colas
<1>. QED
  BY <1>1, <1>2, <1>3, <1>4, <1>5, QuienMuevePcp DEF Next

\* There is one context out of the kernel at most: it is in one place of the link, and
\* the others are empty.
LEMMA UnSoloContexto ==
    ASSUME IInv
    PROVE  /\ hacia_cpu # <<>> => /\ Len(hacia_cpu) = 1 /\ Tail(hacia_cpu) = <<>>
                                  /\ cpu.pid = NoProc /\ desde_cpu = <<>>
           /\ cpu.pid # NoProc => hacia_cpu = <<>> /\ desde_cpu = <<>>
           /\ desde_cpu # <<>> => /\ Len(desde_cpu) = 1 /\ Tail(desde_cpu) = <<>>
                                  /\ cpu.pid = NoProc /\ hacia_cpu = <<>>
<1>1. hacia_cpu \in Seq(Contexto) /\ desde_cpu \in Seq(Devuelto)
  BY DEF IInv, TypeOK, TipoEnlace
<1> DEFINE h == Len(hacia_cpu)
           c == Uno(cpu.pid # NoProc)
           d == Len(desde_cpu)
<1>2. h \in Nat /\ c \in Nat /\ d \in Nat /\ h + c + d <= 1
  BY <1>1, UnoEnLaCpu DEF UnSoloProcesoEnCpu, EnVuelo, Uno
<1>3. /\ hacia_cpu # <<>> => h > 0
      /\ desde_cpu # <<>> => d > 0
      /\ cpu.pid # NoProc => c = 1
  BY <1>1 DEF Uno
<1> HIDE DEF h, c, d
<1>4. /\ h > 0 => h = 1 /\ c = 0 /\ d = 0
      /\ c = 1 => h = 0 /\ d = 0
      /\ d > 0 => d = 1 /\ h = 0 /\ c = 0
  BY <1>2
<1>5. /\ h = 0 => hacia_cpu = <<>>
      /\ d = 0 => desde_cpu = <<>>
      /\ c = 0 => cpu.pid = NoProc
  BY <1>1 DEF h, d, c, Uno
<1>6. /\ h = 1 => Tail(hacia_cpu) = <<>>
      /\ d = 1 => Tail(desde_cpu) = <<>>
  <2>1. ASSUME NEW S, NEW s \in Seq(S), Len(s) = 1
        PROVE  Tail(s) = <<>>
    <3>1. s # <<>>
      BY <2>1
    <3>2. Tail(s) \in Seq(S) /\ Len(Tail(s)) = 0
      BY <2>1, <3>1, TailFacts
    <3>3. \A t \in Seq(S) : Len(t) = 0 => t = <<>>
      OBVIOUS
    <3>. QED
      BY <3>2, <3>3
  <2>. QED
    BY <1>1, <2>1 DEF h, d
<1>. QED
  BY <1>3, <1>4, <1>5, <1>6 DEF h, d

\* An empty link says nothing.
LEMMA EnlaceVacioAlDia ==
    ASSUME hacia_cpu' = <<>>, cpu'.pid = NoProc, desde_cpu' = <<>>
    PROVE  ContextosAlDia'
BY DEF ContextosAlDia, ContextoDelEjecutado

\* The context that leaves for the CPU is the one of the process in cola_exec.
LEMMA ContextoEnviadoAlDia ==
    ASSUME IInv, EnVuelo = 0, NEW p \in Proc, cola_exec = <<p>>,
           EjecutarProceso(p), UNCHANGED <<program_counter, cola_exec, cpu, desde_cpu>>
    PROVE  ContextosAlDia'
<1>1. hacia_cpu = <<>> /\ cpu.pid = NoProc /\ desde_cpu = <<>>
  BY EnlaceVacio
<1>2. hacia_cpu' = <<[pid |-> p, program_counter |-> program_counter[p]]>>
  BY <1>1 DEF EjecutarProceso
<1>3. \A i \in 1..Len(hacia_cpu') : /\ hacia_cpu'[i].pid = p
                                    /\ hacia_cpu'[i].program_counter = program_counter[p]
  BY <1>2
<1>. QED
  BY <1>1, <1>3 DEF ContextosAlDia, ContextoDelEjecutado

\* The CPU only takes a context forward.
LEMMA ContextoEnCpuAlDia ==
    ASSUME IInv, ContextosAlDia, Cpu
    PROVE  ContextosAlDia'
<1>1. /\ hacia_cpu \in Seq(Contexto) /\ desde_cpu \in Seq(Devuelto)
      /\ cpu.pid # NoProc => cpu.pid \in Proc
      /\ cpu.program_counter \in Nat /\ program_counter \in [Proc -> Nat]
  BY DEF IInv, TypeOK, TipoEnlace, TipoPcbs, ProcONull
<1>2. UNCHANGED <<cola_exec, program_counter>>
  BY DEF Cpu, CpuRecibe, CpuSigue, CpuDevuelve, DevolverProceso, pcbs, colas
<1>3. CASE CpuRecibe
  <2>1. /\ hacia_cpu # <<>> /\ hacia_cpu' = Tail(hacia_cpu) /\ cpu' = Head(hacia_cpu)
        /\ UNCHANGED desde_cpu
    BY <1>3 DEF CpuRecibe
  <2>2. hacia_cpu' = <<>> /\ desde_cpu' = <<>>
    BY <2>1, UnSoloContexto
  <2>3. Head(hacia_cpu) = hacia_cpu[1] /\ 1 \in 1..Len(hacia_cpu) /\ Head(hacia_cpu) \in Contexto
    BY <1>1, <2>1, TailFacts
  <2>4. /\ cola_exec = <<cpu'.pid>> /\ cpu'.program_counter = program_counter[cpu'.pid]
        /\ cpu'.pid \in Proc
    BY <2>1, <2>3 DEF ContextosAlDia, ContextoDelEjecutado, Contexto
  <2>5. cpu'.program_counter >= program_counter[cpu'.pid]
    BY <1>1, <2>4
  <2>. QED
    BY <1>2, <2>2, <2>4, <2>5 DEF ContextosAlDia, ContextoDelEjecutado
<1>4. CASE CpuSigue \/ CpuDevuelve
  <2>1. /\ cpu.pid \in Proc /\ hacia_cpu' = <<>> /\ desde_cpu = <<>>
    <3>1. cpu.pid # NoProc /\ UNCHANGED hacia_cpu
      BY <1>4 DEF CpuSigue, CpuDevuelve, HayInstruccion, DevolverProceso
    <3>. QED
      BY <1>1, <3>1, UnSoloContexto
  <2>2. /\ cola_exec = <<cpu.pid>>
        /\ cpu.program_counter + 1 >= program_counter[cpu.pid]
    <3>1. cola_exec = <<cpu.pid>> /\ cpu.program_counter >= program_counter[cpu.pid]
      BY <1>4 DEF ContextosAlDia, ContextoDelEjecutado, CpuSigue, CpuDevuelve, HayInstruccion
    <3>2. cpu.program_counter \in Nat /\ program_counter[cpu.pid] \in Nat
      BY <1>1, <2>1
    <3>. QED
      BY <3>1, <3>2
  <2>3. CASE CpuSigue
    <3>1. /\ cpu'.pid = cpu.pid /\ cpu'.program_counter = cpu.program_counter + 1
          /\ desde_cpu' = <<>>
      BY <2>1, <2>3 DEF CpuSigue
    <3>. QED
      BY <1>2, <2>1, <2>2, <3>1 DEF ContextosAlDia, ContextoDelEjecutado
  <2>4. CASE CpuDevuelve
    <3> DEFINE d == [pid |-> cpu.pid, program_counter |-> cpu.program_counter + 1,
                     cod_op |-> CodigoDeDevolucion(InstruccionActual.codigo),
                     nombre |-> InstruccionActual.nombre]
    <3>0. desde_cpu' = Append(desde_cpu, d)
      BY <2>4 DEF CpuDevuelve, DevolverProceso
    <3>1. desde_cpu' = <<d>>
      BY <2>1, <3>0
    <3>2. \A i \in 1..Len(desde_cpu') :
            /\ desde_cpu'[i].pid = cpu.pid
            /\ desde_cpu'[i].program_counter = cpu.program_counter + 1
      BY <3>1
    <3>3. cpu'.pid = NoProc
      BY <2>4 DEF CpuDevuelve, DevolverProceso, CpuInactiva
    <3>. QED
      BY <1>2, <2>1, <2>2, <3>2, <3>3 DEF ContextosAlDia, ContextoDelEjecutado
  <2>. QED
    BY <1>4, <2>3, <2>4
<1>. QED
  BY <1>3, <1>4 DEF Cpu

\* Every step keeps the contexts up to date.
LEMMA SiguenContextosAlDia ==
    ASSUME IInv, FifoInv, [Next]_vars
    PROVE  ContextosAlDia'
<1>1. CASE PcpDespacha \/ ProcesarContexto
  <2>1. EnVuelo = 0 /\ UNCHANGED enlace
    BY <1>1, EfectoDePcpDespacha, EnProcesarContexto, SinContextos DEF PcpDespacha,
       EfectoDespacha
  <2>2. hacia_cpu' = <<>> /\ cpu'.pid = NoProc /\ desde_cpu' = <<>>
    BY <2>1, EnlaceVacio DEF enlace
  <2>. QED
    BY <2>2, EnlaceVacioAlDia
<1>2. CASE PcpEjecuta
  <2>1. pcp.pc = "ejecuta" /\ EnVuelo = 0
    BY <1>2, SinContextos DEF PcpEjecuta
  <2>2. pcp.pcb \in Proc /\ cola_exec = <<pcp.pcb>>
    BY <2>1 DEF IInv, PcbsTomados, FifoInv, DespachaLaCabeza
  <2>. QED
    BY <1>2, <2>1, <2>2, ContextoEnviadoAlDia DEF PcpEjecuta, pcbs, colas
<1>3. CASE HiloCpuEjecuta
  <2>1. hilo_cpu.pc = "ejecuta" /\ EnVuelo = 0
    BY <1>3, SinContextos DEF HiloCpuEjecuta
  <2>2. cola_exec = <<hilo_cpu.pcb>> /\ cola_exec \in Seq(Proc)
    BY <2>1 DEF IInv, PcbsTomados, TypeOK, TipoColas
  <2>3. hilo_cpu.pcb \in Proc
    BY <2>2, ColaDeUno
  <2>. QED
    BY <1>3, <2>1, <2>2, <2>3, ContextoEnviadoAlDia DEF HiloCpuEjecuta, pcbs, colas
<1>4. CASE HiloCpuRecibe
  <2>1. desde_cpu # <<>> /\ desde_cpu' = Tail(desde_cpu) /\ UNCHANGED <<hacia_cpu, cpu>>
    BY <1>4 DEF HiloCpuRecibe
  <2>. QED
    BY <2>1, UnSoloContexto, EnlaceVacioAlDia
<1>5. CASE Cpu
  BY <1>5, ContextoEnCpuAlDia DEF FifoInv
<1>6. CASE UNCHANGED deContextos
  BY <1>6 DEF deContextos, enlace, FifoInv, ContextosAlDia, ContextoDelEjecutado
<1>. QED
  BY <1>1, <1>2, <1>3, <1>4, <1>5, <1>6, QuienMueveContextos

-----------------------------------------------------------------------------
(* The theorems *)

\* The invariant holds in the initial state.
LEMMA InitFifo == Init => FifoInv
<1> SUFFICES ASSUME Init PROVE FifoInv
  OBVIOUS
<1>1. DespachaLaCabeza
  BY DEF Init, DespachaLaCabeza
<1>2. EnReady
  BY DEF Init, EnReady
<1>3. ContextosAlDia
  BY DEF Init, CpuInactiva, ContextosAlDia, ContextoDelEjecutado
<1>. QED
  BY <1>1, <1>2, <1>3 DEF FifoInv

\* Every step keeps it.
LEMMA NextFifo ==
    ASSUME ALGORITMO = "FIFO"
    PROVE  IInv /\ FifoInv /\ [Next]_vars => FifoInv'
BY EfectosEnReady, SigueEnReady, SigueDespachandoLaCabeza, SiguenContextosAlDia DEF FifoInv

\* Under FIFO the queue, the pcb of the PCP and the contexts agree after every step.
THEOREM InvarianteFifo ==
    ASSUME ALGORITMO = "FIFO"
    PROVE  Spec => []FifoInv
BY InvarianteInductivo, InitFifo, NextFifo, PTL DEF Spec

\* Under FIFO the context that is out of the kernel is the one of the process in
\* cola_exec, the one the answer will be applied to, and as advanced as its pcb.
THEOREM ContextoPropio ==
    ASSUME ALGORITMO = "FIFO"
    PROVE  Spec => []ContextoDelEjecutado
<1>1. FifoInv => ContextoDelEjecutado
  BY DEF FifoInv, ContextosAlDia
<1>. QED
  BY <1>1, InvarianteFifo, PTL

\* A process in a queue without repetition is in it once.
LEMMA UnaVez ==
    ASSUME NEW s \in Seq(Proc), SinRepetir(s), NEW i \in 1..Len(s)
    PROVE  Veces(s, s[i]) = 1
<1>1. {j \in DOMAIN s : s[j] = s[i]} = {i}
  BY DEF SinRepetir
<1>. QED
  BY <1>1, FS_Singleton DEF Veces

\* Under FIFO no process is lost: the one that became ready is in cola_ready, once,
\* until it is dispatched.
THEOREM NingunProcesoSePierde ==
    ASSUME ALGORITMO = "FIFO"
    PROVE  Spec => []NadieSePierde
<1>1. IInv /\ FifoInv => NadieSePierde
  <2> SUFFICES ASSUME IInv, FifoInv, NEW p \in Proc, estado_actual[p] = "READY"
               PROVE  Veces(cola_ready, p) = 1
    BY DEF NadieSePierde
  <2>1. PICK i \in 1..Len(cola_ready) : cola_ready[i] = p
    BY DEF FifoInv, EnReady
  <2>2. cola_ready \in Seq(Proc) /\ SinRepetir(cola_ready)
    BY DEF IInv, TypeOK, TipoColas, ColasPorEstado, ColaReadyPura
  <2>. QED
    BY <2>1, <2>2, UnaVez
<1>. QED
  BY <1>1, InvarianteInductivo, InvarianteFifo, PTL

\* Under FIFO no thread takes the head of an empty queue: the semaphores of the PLP,
\* the PCP, the CPU thread and the consoles each stand for a pcb that is there.
THEOREM NadieSacaDeNada ==
    ASSUME ALGORITMO = "FIFO"
    PROVE  Spec => []NadieSacaDeColaVacia
<1>1. ASSUME IInv, ConteosInv
      PROVE  NadieSacaDeColaVacia
  <2>1. /\ sem_nuevo_proceso \in Nat /\ sem_ready_proceso \in Nat /\ proceso_enviado \in Nat
        /\ cola_new \in Seq(Proc) /\ cola_ready \in Seq(Proc) /\ cola_exec \in Seq(Proc)
    BY <1>1 DEF IInv, TypeOK, TipoSemaforos, TipoColas
  <2>2. plp.pc \in {"admite", "pasa_a_ready"} => cola_new # <<>>
    <3>1. /\ Cardinality(PorRegistrar) \in Nat
          /\ Len(cola_new) = sem_nuevo_proceso + Cardinality(PorRegistrar)
                                 + Uno(plp.pc # "espera_nuevo")
      BY <1>1, FS_CardinalityType DEF ConteosInv, NuevosContados
    <3>2. plp.pc \in {"admite", "pasa_a_ready"} => Len(cola_new) > 0
      BY <2>1, <3>1 DEF Uno
    <3>. QED
      BY <3>2
  <2>3. pcp.pc \in {"elige", "despacha"} => cola_ready # <<>>
    <3>1. pcp.pc \in {"elige", "despacha"} => Len(cola_ready) > 0
      BY <1>1, <2>1 DEF IInv, DespertaresContados, SinDespertarInventado, Uno
    <3>. QED
      BY <3>1
  <2>4. hilo_cpu.pc = "espera" /\ proceso_enviado > 0 => cola_exec # <<>>
    <3>1. hilo_cpu.pc = "espera" /\ proceso_enviado > 0 => EnVuelo > 0
      BY <1>1, <2>1 DEF IInv, UnAvisoPorContexto, Uno
    <3>. QED
      BY <1>1, <3>1, SinContextos
  <2>5. Cardinality({p \in Proc : consola[p] = "retira"}) <= Len(cola_exit)
    <3>1. /\ IsFiniteSet(Avisados) /\ Len(cola_exit) = Cardinality(Avisados)
          /\ {p \in Proc : consola[p] = "retira"} \in SUBSET Avisados
      BY <1>1 DEF ConteosInv, FinalizadosContados, Avisados
    <3>. QED
      BY <3>1, FS_Subset
  <2>. QED
    BY <2>2, <2>3, <2>4, <2>5 DEF NadieSacaDeColaVacia
<1>. QED
  BY <1>1, InvarianteInductivo, SemaforosExactos, PTL

\* The step that stores the counter of an answer stores one that is not behind.
LEMMA PasoAvanza ==
    ASSUME IInv, FifoInv, [Next]_vars
    PROVE  \A p \in Proc : program_counter'[p] >= program_counter[p]
<1>1. program_counter \in [Proc -> Nat]
  BY DEF IInv, TypeOK, TipoPcbs
<1>2. CASE UNCHANGED program_counter
  BY <1>1, <1>2
<1>3. CASE HiloCpuRecibe
  <2> DEFINE d == Head(desde_cpu)
  <2>1. /\ hilo_cpu.pc = "recibe" /\ desde_cpu # <<>>
        /\ program_counter' = [program_counter EXCEPT ![hilo_cpu.pcb] = d.program_counter]
    BY <1>3 DEF HiloCpuRecibe
  <2>2. desde_cpu \in Seq(Devuelto)
    BY DEF IInv, TypeOK, TipoEnlace
  <2>3. d = desde_cpu[1] /\ 1 \in 1..Len(desde_cpu) /\ d \in Devuelto
    BY <2>1, <2>2, TailFacts
  <2>4. cola_exec = <<d.pid>> /\ d.program_counter >= program_counter[d.pid]
    BY <2>3 DEF FifoInv, ContextosAlDia, ContextoDelEjecutado
  <2>5. cola_exec = <<hilo_cpu.pcb>>
    BY <2>1 DEF IInv, PcbsTomados
  <2>6. d.pid = hilo_cpu.pcb
    BY <2>4, <2>5
  <2>. QED
    BY <1>1, <2>1, <2>4, <2>6
<1>4. UNCHANGED program_counter \/ HiloCpuRecibe
  BY QuienMueveContextos, EnProcesarContexto DEF PcpDespacha, PcpEjecuta, HiloCpuEjecuta,
     Cpu, CpuRecibe, CpuSigue, CpuDevuelve, DevolverProceso, deContextos, pcbs
<1>. QED
  BY <1>2, <1>3, <1>4

\* Under FIFO a process never goes back in its program.
THEOREM NingunProgramaRetrocede ==
    ASSUME ALGORITMO = "FIFO"
    PROVE  Spec => ProgramaAvanza
<1>1. IInv /\ FifoInv /\ [Next]_vars
        => [\A p \in Proc : program_counter'[p] >= program_counter[p]]_vars
  BY PasoAvanza
<1>. QED
  BY <1>1, InvarianteInductivo, InvarianteFifo, PTL DEF Spec, ProgramaAvanza

=============================================================================

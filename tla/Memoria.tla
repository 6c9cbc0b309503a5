------------------------------ MODULE Memoria -------------------------------
(***************************************************************************)
(* The Memoria process: one flat space of bytes, the list of holes, the    *)
(* list of live segments and one segment table per process, with the       *)
(* requests the kernel sends and the writes of the CPU and the FileSystem. *)
(*                                                                         *)
(* Granularity.  One action is one request, answered.  The kernel holds    *)
(* its socket from a request to its answer, the CPU runs no process while  *)
(* the kernel handles one, and the kernel starts no compaction while a     *)
(* file operation is pending.                                              *)
(*                                                                         *)
(* The kernel's side of the protocol is only what decides the next         *)
(* request: MEMORY_NEEDS_TO_COMPACT is followed by MEMORY_COMPACT, and     *)
(* that by the same MEMORY_CREATE_SEGMENT; if Memoria asks to compact once *)
(* more the kernel waits for a mutex it holds itself, and no request       *)
(* follows.                                                                *)
(*                                                                         *)
(* Programs give their segments ids and sizes above zero, and delete only  *)
(* ids they have: an unknown id makes the process follow a null pointer.   *)
(***************************************************************************)
EXTENDS Integers, Sequences, SequencesExt

CONSTANTS
    Pid,                \* the pids of the processes, above zero
    NoPid,              \* no process
    Descriptor,         \* the names of segments; one bounds the live ones
    Compartido,         \* the descriptor of segment 0
    SegmentoId,         \* the ids programs give to their segments
    Tamanios,           \* the sizes programs ask for
    TAM_MEMORIA,        \* TAM_MEMORIA of the configuration
    TAM_SEGMENTO_0,     \* TAM_SEGMENTO_0
    Algoritmos,         \* the values of ALGORITMO_ASIGNACION
    Byte                \* the values of a byte; memset writes 0 at the start

ASSUME MemoriaAssumption ==
    /\ NoPid \notin Pid
    /\ Compartido \in Descriptor
    /\ SegmentoId \subseteq Nat \ {0}
    /\ Tamanios \subseteq Nat \ {0}
    /\ TAM_MEMORIA \in Nat
    /\ TAM_SEGMENTO_0 \in 1..TAM_MEMORIA
    /\ Algoritmos \subseteq {"FIRST", "BEST", "WORST"}
    /\ 0 \in Byte

VARIABLES
    algoritmo_asignacion,   \* of memoria_config
    huecos_libres,          \* the list of holes
    segmentos_activos,      \* the list of live segments, by descriptor
    segmento,               \* what each live segment is
    tablas_segmentos,       \* the segments of each process, by descriptor
    espacio_usuario,        \* the bytes
    respuesta,              \* the last answer to the kernel
    pedido                  \* the creation that waits for a compaction

listas == <<huecos_libres, segmentos_activos, segmento, tablas_segmentos>>
protocolo == <<respuesta, pedido>>
memoria == <<algoritmo_asignacion, listas, espacio_usuario, protocolo>>

Direccion == 0..(TAM_MEMORIA - 1)
Hueco == [inicio : Direccion, fin : Direccion]
Segmento == [segmento_id : SegmentoId \cup {0}, inicio : Direccion,
             tam_segmento : 1..TAM_MEMORIA]
SinPedido == [pid |-> NoPid, segmento_id |-> 0, tamanio |-> 0, reenviado |-> FALSE]
Pedido == [pid : Pid, segmento_id : SegmentoId, tamanio : Tamanios, reenviado : BOOLEAN]

\* The answers that decide the next request; RESUELTA stands for the others, after
\* which any request may come.
Respuestas == {"RESUELTA", "MEMORY_NEEDS_TO_COMPACT", "MEMORY_COMPACT"}

TipoMemoria ==
    /\ algoritmo_asignacion \in Algoritmos
    /\ huecos_libres \in Seq(Hueco)
    /\ segmentos_activos \in Seq(Descriptor)
    /\ DOMAIN segmento \subseteq Descriptor
    /\ \A d \in DOMAIN segmento : segmento[d] \in Segmento
    /\ DOMAIN tablas_segmentos \subseteq Pid
    /\ \A p \in DOMAIN tablas_segmentos : tablas_segmentos[p] \in Seq(Descriptor)
    /\ espacio_usuario \in [Direccion -> Byte]
    /\ respuesta \in Respuestas
    /\ pedido \in Pedido \cup {SinPedido}

-----------------------------------------------------------------------------
(* The holes                                                               *)

TamanioHueco(h) == h.fin - h.inicio + 1

\* list_add_sorted: before the first hole that does not start earlier.
CrearHueco(huecos, inicio, fin) ==
    LET k == SelectInSeq(huecos, LAMBDA h : h.inicio >= inicio)
    IN  InsertAt(huecos, IF k = 0 THEN Len(huecos) + 1 ELSE k, [inicio |-> inicio, fin |-> fin])

\* Mutant: a hole that was filled stays in the list.
MutActualizarHueco(huecos, i, piso, fin) ==
    ReplaceAt(huecos, i, [inicio |-> piso, fin |-> fin])

\* A hole is moved in place; an empty one leaves the list.
ActualizarHueco(huecos, i, piso, fin) ==
    IF piso > fin THEN RemoveAt(huecos, i)
                  ELSE ReplaceAt(huecos, i, [inicio |-> piso, fin |-> fin])

HuecoPorInicio(huecos, posicion) == SelectInSeq(huecos, LAMBDA h : h.inicio = posicion)
HuecoPorLimite(huecos, posicion) == SelectInSeq(huecos, LAMBDA h : h.fin + 1 = posicion)

\* Mutant: the freed space is never joined with the hole on its left.
MutConsolidarHuecos(huecos, inicio, tam) ==
    LET der == HuecoPorInicio(huecos, inicio + tam)
    IN  CASE der # 0 -> ActualizarHueco(huecos, der, inicio, huecos[der].fin)
          [] der = 0 -> CrearHueco(huecos, inicio, inicio + tam - 1)

\* consolidar_huecos_contiguos: freed space joins the holes at its sides.
ConsolidarHuecos(huecos, inicio, tam) ==
    LET der == HuecoPorInicio(huecos, inicio + tam)
        izq == HuecoPorLimite(huecos, inicio)
    IN  CASE izq # 0 /\ der # 0 ->
                RemoveAt(ActualizarHueco(huecos, izq, huecos[izq].inicio, huecos[der].fin), der)
          [] izq # 0 /\ der = 0 ->
                ActualizarHueco(huecos, izq, huecos[izq].inicio, huecos[izq].fin + tam)
          [] izq = 0 /\ der # 0 ->
                ActualizarHueco(huecos, der, inicio, huecos[der].fin)
          [] izq = 0 /\ der = 0 ->
                CrearHueco(huecos, inicio, inicio + tam - 1)

Candidatos(tam) == {i \in DOMAIN huecos_libres : TamanioHueco(huecos_libres[i]) >= tam}

\* Mutant: BEST and WORST are swapped.
MutEsMejor(i, j) ==
    LET ti == TamanioHueco(huecos_libres[i])
        tj == TamanioHueco(huecos_libres[j])
    IN  CASE algoritmo_asignacion = "WORST" -> ti < tj \/ (ti = tj /\ i >= j)
          [] algoritmo_asignacion = "FIRST" -> i <= j
          [] OTHER                          -> ti > tj \/ (ti = tj /\ i >= j)

\* FIRST takes the first candidate; BEST and WORST fold the candidates, and the
\* later of two equal holes wins.
EsMejor(i, j) ==
    LET ti == TamanioHueco(huecos_libres[i])
        tj == TamanioHueco(huecos_libres[j])
    IN  CASE algoritmo_asignacion = "BEST"  -> ti < tj \/ (ti = tj /\ i >= j)
          [] algoritmo_asignacion = "FIRST" -> i <= j
          [] OTHER                          -> ti > tj \/ (ti = tj /\ i >= j)

BuscarHueco(tam) ==
    CHOOSE i \in Candidatos(tam) : \A j \in Candidatos(tam) : EsMejor(i, j)

MemoriaDisponible == FoldLeft(LAMBDA total, h : total + TamanioHueco(h), 0, huecos_libres)

-----------------------------------------------------------------------------
(* The requests of the kernel: procesar_kernel                             *)

SinCompactacion == respuesta = "RESUELTA"

Resolver ==
    /\ respuesta' = "RESUELTA"
    /\ pedido' = SinPedido
    /\ UNCHANGED algoritmo_asignacion

\* A new table starts with segment 0, the first of the live ones.
MemoryCreateTable(p) ==
    /\ SinCompactacion
    /\ p \notin DOMAIN tablas_segmentos
    /\ tablas_segmentos' = [q \in DOMAIN tablas_segmentos \cup {p} |->
                               IF q = p THEN <<Head(segmentos_activos)>> ELSE tablas_segmentos[q]]
    /\ Resolver
    /\ UNCHANGED <<huecos_libres, segmentos_activos, segmento, espacio_usuario>>

\* liberar_huecos_ocupados frees the space of every segment of the table but segment 0.
HuecosLiberados(tabla) ==
    FoldLeft(LAMBDA huecos, d :
                 IF segmento[d].segmento_id = 0 THEN huecos
                 ELSE ConsolidarHuecos(huecos, segmento[d].inicio, segmento[d].tam_segmento),
             huecos_libres, tabla)

\* Mutant: the segments of the table stay in the list of live ones.
MutOlvidarSegmentos(ds) ==
    /\ UNCHANGED segmentos_activos
    /\ segmento' = [d \in DOMAIN segmento \ ToSet(ds) |-> segmento[d]]

\* list_remove_element and free, one segment at a time.
OlvidarSegmentos(ds) ==
    /\ segmentos_activos' = FoldLeft(RemoveFirst, segmentos_activos, ds)
    /\ segmento' = [d \in DOMAIN segmento \ ToSet(ds) |-> segmento[d]]

\* The first of the table is left out when its segments are destroyed.
MemoryDeleteTable(p) ==
    /\ SinCompactacion
    /\ p \in DOMAIN tablas_segmentos
    /\ huecos_libres' = HuecosLiberados(tablas_segmentos[p])
    /\ OlvidarSegmentos(Tail(tablas_segmentos[p]))
    /\ tablas_segmentos' = [q \in DOMAIN tablas_segmentos \ {p} |-> tablas_segmentos[q]]
    /\ Resolver
    /\ UNCHANGED espacio_usuario

\* crear_segmento: id++ is a descriptor nobody has, and the segment starts where the
\* hole did.
CrearSegmento(p, id, tam, d) ==
    LET i == BuscarHueco(tam)
        base == huecos_libres[i].inicio
    IN  /\ d \notin DOMAIN segmento
        /\ segmento' = [e \in DOMAIN segmento \cup {d} |->
                           IF e = d THEN [segmento_id |-> id, inicio |-> base, tam_segmento |-> tam]
                                    ELSE segmento[e]]
        /\ huecos_libres' = ActualizarHueco(huecos_libres, i, base + tam, huecos_libres[i].fin)
        /\ segmentos_activos' = Append(segmentos_activos, d)
        /\ tablas_segmentos' = [tablas_segmentos EXCEPT ![p] = Append(@, d)]

\* The kernel asks for a segment, or sends again the creation it was told to put off.
PuedePedir(p, id, tam, reenviado) ==
    /\ p \in DOMAIN tablas_segmentos
    /\ \/ SinCompactacion /\ ~reenviado
       \/ /\ respuesta = "MEMORY_COMPACT" /\ reenviado
          /\ pedido = [pid |-> p, segmento_id |-> id, tamanio |-> tam, reenviado |-> FALSE]

MemoryCreateSegment(p, id, tam, reenviado) ==
    /\ PuedePedir(p, id, tam, reenviado)
    /\ Candidatos(tam) # {}
    /\ \E d \in Descriptor : CrearSegmento(p, id, tam, d)
    /\ Resolver
    /\ UNCHANGED espacio_usuario

MemoryNeedsToCompact(p, id, tam, reenviado) ==
    /\ PuedePedir(p, id, tam, reenviado)
    /\ Candidatos(tam) = {}
    /\ MemoriaDisponible >= tam
    /\ respuesta' = "MEMORY_NEEDS_TO_COMPACT"
    /\ pedido' = [pid |-> p, segmento_id |-> id, tamanio |-> tam, reenviado |-> reenviado]
    /\ UNCHANGED <<algoritmo_asignacion, listas, espacio_usuario>>

MemoryOutOfMemory(p, id, tam, reenviado) ==
    /\ PuedePedir(p, id, tam, reenviado)
    /\ Candidatos(tam) = {}
    /\ MemoriaDisponible < tam
    /\ Resolver
    /\ UNCHANGED <<listas, espacio_usuario>>

\* delete_segmento finds the segment of that id in the table of the process.
MemoryDeleteSegment(p, id) ==
    /\ SinCompactacion
    /\ p \in DOMAIN tablas_segmentos
    /\ LET tabla == tablas_segmentos[p]
           k == SelectInSeq(tabla, LAMBDA d : segmento[d].segmento_id = id)
       IN  /\ k # 0
           /\ huecos_libres' = ConsolidarHuecos(huecos_libres, segmento[tabla[k]].inicio,
                                                segmento[tabla[k]].tam_segmento)
           /\ OlvidarSegmentos(<<tabla[k]>>)
           /\ tablas_segmentos' = [tablas_segmentos EXCEPT ![p] = RemoveAt(tabla, k)]
    /\ Resolver
    /\ UNCHANGED espacio_usuario

-----------------------------------------------------------------------------
(* Compaction: compactar_memoria                                           *)

\* Mutant: the bytes stay where they were.
MutMoverBytes(bytes, hacia, desde, tam) == bytes

\* memmove.
MoverBytes(bytes, hacia, desde, tam) ==
    [a \in DOMAIN bytes |-> IF a \in hacia..(hacia + tam - 1) THEN bytes[a - hacia + desde]
                                                             ELSE bytes[a]]

\* Mutant: the freed space is computed from the base of before.
MutDeslizar(esp, d) ==
    LET seg  == esp.segmento[d]
        k    == HuecoPorLimite(esp.huecos, seg.inicio)
        tam  == TamanioHueco(esp.huecos[k])
        base == seg.inicio - tam
    IN  IF k = 0 THEN esp
        ELSE [huecos   |-> ConsolidarHuecos(RemoveAt(esp.huecos, k),
                                            seg.inicio + seg.tam_segmento, tam),
              segmento |-> [esp.segmento EXCEPT ![d].inicio = base],
              bytes    |-> MoverBytes(esp.bytes, base, seg.inicio, seg.tam_segmento)]

\* The segment slides over the hole that ends where it starts, if there is one.
Deslizar(esp, d) ==
    LET seg  == esp.segmento[d]
        k    == HuecoPorLimite(esp.huecos, seg.inicio)
        tam  == TamanioHueco(esp.huecos[k])
        base == seg.inicio - tam
    IN  IF k = 0 THEN esp
        ELSE [huecos   |-> ConsolidarHuecos(RemoveAt(esp.huecos, k),
                                            base + seg.tam_segmento, tam),
              segmento |-> [esp.segmento EXCEPT ![d].inicio = base],
              bytes    |-> MoverBytes(esp.bytes, base, seg.inicio, seg.tam_segmento)]

\* One pass over the live segments, in the order they were created.
MemoryCompact ==
    LET final == FoldLeft(Deslizar, [huecos |-> huecos_libres, segmento |-> segmento,
                                     bytes |-> espacio_usuario], segmentos_activos)
    IN  /\ respuesta = "MEMORY_NEEDS_TO_COMPACT"
        /\ ~pedido.reenviado
        /\ huecos_libres' = final.huecos
        /\ segmento' = final.segmento
        /\ espacio_usuario' = final.bytes
        /\ respuesta' = "MEMORY_COMPACT"
        /\ UNCHANGED <<algoritmo_asignacion, segmentos_activos, tablas_segmentos, pedido>>

-----------------------------------------------------------------------------
(* The accesses of the CPU and the FileSystem: procesar_cpu_fs             *)

\* The MMU has translated the address: it is inside a segment of the process.
MemoryWriteAddress(p, d, k, b) ==
    /\ SinCompactacion
    /\ p \in DOMAIN tablas_segmentos
    /\ Contains(tablas_segmentos[p], d)
    /\ k < segmento[d].tam_segmento
    /\ espacio_usuario' = [espacio_usuario EXCEPT ![segmento[d].inicio + k] = b]
    /\ UNCHANGED <<algoritmo_asignacion, listas, protocolo>>

-----------------------------------------------------------------------------
(* The specification                                                       *)

\* iniciar_estructuras makes one hole of the whole memory, and main creates segment 0
\* at its start.
Init ==
    /\ algoritmo_asignacion \in Algoritmos
    /\ huecos_libres = ActualizarHueco(<<[inicio |-> 0, fin |-> TAM_MEMORIA - 1]>>, 1,
                                       TAM_SEGMENTO_0, TAM_MEMORIA - 1)
    /\ segmentos_activos = <<Compartido>>
    /\ segmento = [d \in {Compartido} |-> [segmento_id |-> 0, inicio |-> 0,
                                  tam_segmento |-> TAM_SEGMENTO_0]]
    /\ tablas_segmentos = [p \in {} |-> <<>>]
    /\ espacio_usuario = [a \in Direccion |-> 0]
    /\ respuesta = "RESUELTA"
    /\ pedido = SinPedido

Next ==
    \/ \E p \in Pid :
          \/ MemoryCreateTable(p)
          \/ MemoryDeleteTable(p)
          \/ \E id \in SegmentoId : MemoryDeleteSegment(p, id)
          \/ \E id \in SegmentoId, tam \in Tamanios, reenviado \in BOOLEAN :
                \/ MemoryCreateSegment(p, id, tam, reenviado)
                \/ MemoryNeedsToCompact(p, id, tam, reenviado)
                \/ MemoryOutOfMemory(p, id, tam, reenviado)
          \/ \E d \in DOMAIN segmento, k \in Direccion, b \in Byte : MemoryWriteAddress(p, d, k, b)
    \/ MemoryCompact

Spec == Init /\ [][Next]_memoria

-----------------------------------------------------------------------------
(* Properties                                                              *)

Ocupa(d) == segmento[d].inicio..(segmento[d].inicio + segmento[d].tam_segmento - 1)
Libra(h) == h.inicio..h.fin

\* Every byte belongs to exactly one live segment or to exactly one hole, after any
\* sequence of creations, deletions and compactions.
EspacioParticionado ==
    \A a \in Direccion :
        Cardinality({d \in DOMAIN segmento : a \in Ocupa(d)})
            + Cardinality({i \in DOMAIN huecos_libres : a \in Libra(huecos_libres[i])}) = 1

\* The list of holes is in order of address and no two holes touch: a hole is all the
\* free space there is around it, so FIRST takes the lowest and no request is told to
\* compact when neighbours would do (memoria_utils.c:324).
HuecosConsolidados ==
    \A i, j \in DOMAIN huecos_libres :
        i < j => huecos_libres[i].fin + 1 < huecos_libres[j].inicio

\* The places of a segment: the tables that have it, and the positions where they do.
Lugares(d) ==
    UNION {{<<p, i>> : i \in {k \in DOMAIN tablas_segmentos[p] : tablas_segmentos[p][k] = d}} :
              p \in DOMAIN tablas_segmentos}

\* The list of live segments and the tables agree: segment 0 is the first of all of
\* them, every other live segment is in one table, once, and no table keeps one that
\* was freed (memoria_utils.c:95, 253).
TablasCoinciden ==
    /\ Head(segmentos_activos) = Compartido
    /\ ToSet(segmentos_activos) = DOMAIN segmento
    /\ Len(segmentos_activos) = Cardinality(DOMAIN segmento)
    /\ \A p \in DOMAIN tablas_segmentos : Head(tablas_segmentos[p]) = Compartido
    /\ \A d \in Descriptor \ {Compartido} :
          Cardinality(Lugares(d)) = IF d \in DOMAIN segmento THEN 1 ELSE 0

\* The runs of bytes that no segment occupies, whatever the list of holes says.
Libres == {a \in Direccion : \A d \in DOMAIN segmento : a \notin Ocupa(d)}
Tramos == {t \in Hueco : /\ t.inicio <= t.fin
                         /\ Libra(t) \subseteq Libres
                         /\ t.inicio - 1 \notin Libres
                         /\ t.fin + 1 \notin Libres}

\* A new segment starts at the start of a free run where it fits, and that run is the
\* lowest, the smallest or the largest of those, as the configuration says.
AjusteSegunAlgoritmo ==
    [][\A d \in DOMAIN segmento' \ DOMAIN segmento :
          LET tam == segmento'[d].tam_segmento
              aptos == {t \in Tramos : TamanioHueco(t) >= tam}
          IN  \E t \in aptos :
                 /\ t.inicio = segmento'[d].inicio
                 /\ \A u \in aptos :
                       CASE algoritmo_asignacion = "FIRST" -> t.inicio <= u.inicio
                         [] algoritmo_asignacion = "BEST"  -> TamanioHueco(t) <= TamanioHueco(u)
                         [] OTHER                          -> TamanioHueco(t) >= TamanioHueco(u)
      ]_memoria

Duenos(d) == {p \in DOMAIN tablas_segmentos : Contains(tablas_segmentos[p], d)}
Almacen == INSTANCE AlmacenDeSegmentos WITH
    almacen <- [d \in DOMAIN segmento |->
                   [id |-> segmento[d].segmento_id, duenos |-> Duenos(d),
                    contenido |-> [k \in 0..(segmento[d].tam_segmento - 1) |->
                                      espacio_usuario[segmento[d].inicio + k]]]],
    procesos <- DOMAIN tablas_segmentos

\* Memoria keeps the bytes of each segment: nothing but a write of one of its owners
\* changes them, and compaction cannot be seen (memoria_utils.c:475).
AlmacenRespetado == Almacen!SpecAlmacen

\* "No hay espacio contiguo, pero habra espacio despues de una compactacion": the
\* creation that was put off is not put off again (memoria.c:131-133).
TrasCompactarHayLugar == ~(respuesta = "MEMORY_NEEDS_TO_COMPACT" /\ pedido.reenviado)

=============================================================================

----------------------------- MODULE FileSystem -----------------------------
(***************************************************************************)
(* The FileSystem: the bitmap, the blocks, the FCBs and the requests of    *)
(* the kernel (filesystem.c).                                              *)
(*                                                                         *)
(* One thread serves one request at a time.  The bitmap is a shared        *)
(* mapping and blocks are written with a file closed at once, so both      *)
(* survive the process; an FCB is in memory, and its file is written at    *)
(* the end of F_TRUNCATE.  The process can be stopped between the steps of *)
(* F_TRUNCATE (it sleeps in each access to a block) and starts again from  *)
(* what is on the disk.                                                    *)
(*                                                                         *)
(* The unit of size is the word that a pointer takes, so a block holds     *)
(* BLOCK_SIZE words, of data or of pointers.  A file larger than one       *)
(* block of pointers can describe is left out: its pointers do not fit in  *)
(* the buffer of obtener_datos_bloque_indirecto.                           *)
(*                                                                         *)
(* Variable danio names the first event after which the disk is not what   *)
(* the code believes.  After one of Corruptos the process is not followed. *)
(***************************************************************************)
EXTENDS Integers, Sequences, FiniteSets, SequencesExt, FiniteSetsExt

CONSTANTS
    Archivo,        \* the names of the files
    BLOCK_COUNT,    \* of superbloque.dat
    BLOCK_SIZE,     \* in words
    Tamanios,       \* the sizes F_TRUNCATE asks for, in words
    Accesos,        \* the <<pointer, size>> of F_READ and F_WRITE
    Dato            \* the words of data; a new block is all 0, and 0 is not written

ASSUME FileSystemAssumption ==
    /\ BLOCK_COUNT \in Nat \ {0}
    /\ BLOCK_SIZE \in Nat \ {0}
    /\ \A t \in Tamanios : t \in Nat /\ t \div BLOCK_SIZE <= 1 + BLOCK_SIZE
    /\ \A a \in Accesos : a[1] \in Nat /\ a[2] \in Nat \ {0}
    /\ 0 \in Dato /\ Dato \subseteq Nat

VARIABLES
    ocupados,       \* the blocks whose bit is set in the bitmap
    bloques,        \* the words of each block
    lista_fcb,      \* the FCBs in memory, by file
    fcb_en_disco,   \* the files of PATH_FCB
    pedido,         \* the F_TRUNCATE being served
    traslado,       \* the last words moved between a file and Memoria
    danio           \* what happened to the disk

disco == <<ocupados, bloques, fcb_en_disco>>
vars == <<disco, lista_fcb, pedido, traslado, danio>>

Bloque == 0..(BLOCK_COUNT - 1)
SinBloque == -1             \* what obtener_bloque_libre returns when there is none
NoPuntero == 0              \* PUNTERO_INDIRECTO of a file without block of pointers
Relleno == BLOCK_COUNT      \* the filler of a block of pointers: no block
Palabra == Dato \cup Bloque \cup {SinBloque, Relleno}
Fcb == [tamanio : Nat, directo : Bloque \cup {SinBloque}, indirecto : Bloque \cup {SinBloque}]
SinPedido == [fase |-> "libre"]
Pedido == [fase : {"aumentar", "disminuir", "actualizar"}, archivo : Archivo, reduce : BOOLEAN,
           faltan : Nat, punteros : Seq(Bloque \cup {SinBloque}), sincronizar : BOOLEAN]
SinTraslado == [op |-> "ninguno"]
Traslado == [op : {"F_READ", "F_WRITE"}, archivo : Archivo, puntero : Nat, datos : Seq(Palabra)]
Corruptos == {"disco_lleno", "indirecto_en_0", "caida_al_reducir", "acceso_a_vacio"}

TipoFileSystem ==
    /\ ocupados \subseteq Bloque
    /\ \A b \in Bloque : Len(bloques[b]) = BLOCK_SIZE /\ ToSet(bloques[b]) \subseteq Palabra
    /\ DOMAIN lista_fcb \subseteq Archivo
    /\ \A f \in DOMAIN lista_fcb : lista_fcb[f] \in Fcb /\ lista_fcb[f].tamanio % BLOCK_SIZE = 0
    /\ DOMAIN fcb_en_disco = DOMAIN lista_fcb
    /\ \A f \in DOMAIN fcb_en_disco : fcb_en_disco[f] \in Fcb
    /\ pedido \in Pedido \cup {SinPedido}
    /\ traslado \in Traslado \cup {SinTraslado}
    /\ danio \in Corruptos \cup {"ninguno", "fuga"}

-----------------------------------------------------------------------------
(* Blocks, the bitmap and pointers                                         *)

\* Mutant: the search starts at the block after the lowest used.
MutObtenerBloqueLibre(usados) ==
    IF Bloque \subseteq usados THEN SinBloque ELSE Max(Bloque \cap ({0} \cup {b + 1 : b \in usados}))

ObtenerBloqueLibre(usados) ==
    IF Bloque \subseteq usados THEN SinBloque ELSE Min(Bloque \ usados)

\* reservar_bloque: the bit of a block outside the disk changes nothing.
ReservarBloque(usados, b) == usados \cup ({b} \cap Bloque)

BloqueDe(w) == [i \in 1..BLOCK_SIZE |-> w]

\* escribir_en_bloque: outside the disk it writes past the end of the file of blocks.
EscribirEnBloque(bs, b, contenido) == IF b \in Bloque THEN [bs EXCEPT ![b] = contenido] ELSE bs

\* leer_punteros_bloque_indirecto: as many as the size of the file says.
PunterosIndirectos(fcb) ==
    IF fcb.tamanio <= BLOCK_SIZE \/ fcb.indirecto \notin Bloque THEN <<>>
    ELSE SubSeq(bloques[fcb.indirecto], 1, (fcb.tamanio - BLOCK_SIZE) \div BLOCK_SIZE)

\* Mutant: every pointer is written one place late.
MutDatosBloqueIndirecto(punteros) ==
    [i \in 1..BLOCK_SIZE |-> IF i - 1 \in DOMAIN punteros THEN punteros[i - 1] ELSE Relleno]

\* obtener_datos_bloque_indirecto: the pointers, then filler.
DatosBloqueIndirecto(punteros) ==
    [i \in 1..BLOCK_SIZE |-> IF i \in DOMAIN punteros THEN punteros[i] ELSE Relleno]

Asignados(fcb) == fcb.tamanio \div BLOCK_SIZE

\* The server is idle, and the disk is what the code believes.
Atiende == pedido = SinPedido /\ danio \notin Corruptos

-----------------------------------------------------------------------------
(* F_OPEN and F_CREATE                                                     *)

AbrirArchivo(f) == IF f \in DOMAIN lista_fcb THEN "F_OPEN_OK" ELSE "F_NOT_EXISTS"

\* The kernel creates the files that F_OPEN says do not exist.
CrearArchivo(f) ==
    LET vacio == [tamanio |-> 0, directo |-> 0, indirecto |-> NoPuntero]
        Con(fcbs) == [g \in DOMAIN fcbs \cup {f} |-> IF g = f THEN vacio ELSE fcbs[g]]
    IN  /\ Atiende
        /\ AbrirArchivo(f) = "F_NOT_EXISTS"
        /\ lista_fcb' = Con(lista_fcb)
        /\ fcb_en_disco' = Con(fcb_en_disco)
        /\ traslado' = SinTraslado
        /\ UNCHANGED <<ocupados, bloques, pedido, danio>>

-----------------------------------------------------------------------------
(* F_TRUNCATE                                                              *)

\* truncar_archivo: both divisions round down; the same size answers at once.
TruncarArchivo(f, nuevoTamanio) ==
    LET fcb == lista_fcb[f]
        reduce == nuevoTamanio < fcb.tamanio
        dif == IF reduce THEN fcb.tamanio - nuevoTamanio ELSE nuevoTamanio - fcb.tamanio
    IN  /\ Atiende
        /\ f \in DOMAIN lista_fcb
        /\ dif # 0
        /\ pedido' = [fase |-> IF reduce THEN "disminuir" ELSE "aumentar", archivo |-> f,
                      reduce |-> reduce, faltan |-> dif \div BLOCK_SIZE,
                      punteros |-> PunterosIndirectos(fcb), sincronizar |-> FALSE]
        /\ traslado' = SinTraslado
        /\ UNCHANGED <<disco, lista_fcb, danio>>

EnFase(fase, quedan) ==
    /\ pedido # SinPedido
    /\ pedido.fase = fase
    /\ (pedido.faltan > 0) = quedan

\* One turn of aumentar_tamanio_archivo on a file without blocks.
AumentarDirecto ==
    LET f == pedido.archivo
        b == ObtenerBloqueLibre(ocupados)
    IN  /\ EnFase("aumentar", TRUE)
        /\ Asignados(lista_fcb[f]) = 0
        /\ ocupados' = ReservarBloque(ocupados, b)
        /\ bloques' = EscribirEnBloque(bloques, b, BloqueDe(0))
        /\ lista_fcb' = [lista_fcb EXCEPT ![f].directo = b, ![f].tamanio = @ + BLOCK_SIZE]
        /\ pedido' = [pedido EXCEPT !.faltan = @ - 1]
        /\ danio' = IF b = SinBloque THEN "disco_lleno" ELSE danio
        /\ UNCHANGED <<fcb_en_disco, traslado>>

\* The other turns: the block of pointers is created when PUNTERO_INDIRECTO is 0, then a
\* block of data.
AumentarIndirecto ==
    LET f == pedido.archivo
        fcb == lista_fcb[f]
        crea == fcb.indirecto = NoPuntero
        i == IF crea THEN ObtenerBloqueLibre(ocupados) ELSE fcb.indirecto
        usados == ReservarBloque(ocupados, i)
        b == ObtenerBloqueLibre(usados)
        limpio == IF crea THEN EscribirEnBloque(bloques, i, BloqueDe(0)) ELSE bloques
    IN  /\ EnFase("aumentar", TRUE)
        /\ Asignados(fcb) > 0
        /\ ocupados' = ReservarBloque(usados, b)
        /\ bloques' = EscribirEnBloque(limpio, b, BloqueDe(0))
        /\ lista_fcb' = [lista_fcb EXCEPT ![f].indirecto = i, ![f].tamanio = @ + BLOCK_SIZE]
        /\ pedido' = [pedido EXCEPT !.faltan = @ - 1, !.sincronizar = TRUE,
                          !.punteros = Append(IF crea THEN <<>> ELSE @, b)]
        /\ danio' = CASE SinBloque \in {i, b} -> "disco_lleno"
                      [] crea /\ i = 0        -> "indirecto_en_0"
                      [] OTHER                -> danio
        /\ UNCHANGED <<fcb_en_disco, traslado>>

\* Mutant: the pointers stay in memory.
MutSincronizarPunteros ==
    /\ EnFase("aumentar", FALSE)
    /\ pedido' = [pedido EXCEPT !.fase = "actualizar"]
    /\ UNCHANGED <<disco, lista_fcb, traslado, danio>>

\* The pointers reach the disk before the FCB that counts them.
SincronizarPunteros ==
    /\ EnFase("aumentar", FALSE)
    /\ bloques' = IF pedido.sincronizar
                  THEN EscribirEnBloque(bloques, lista_fcb[pedido.archivo].indirecto,
                                        DatosBloqueIndirecto(pedido.punteros))
                  ELSE bloques
    /\ pedido' = [pedido EXCEPT !.fase = "actualizar"]
    /\ UNCHANGED <<ocupados, fcb_en_disco, lista_fcb, traslado, danio>>

\* Mutant: the block of pointers is forgotten without being freed.
MutBloquesQueSuelta(fcb, punteros) ==
    IF Asignados(fcb) = 1 THEN {fcb.directo} ELSE {Last(punteros)}

BloquesQueSuelta(fcb, punteros) ==
    CASE Asignados(fcb) = 1 -> {fcb.directo}
      [] Asignados(fcb) = 2 -> {Last(punteros), fcb.indirecto}
      [] OTHER              -> {Last(punteros)}

\* One turn of disminuir_tamanio_archivo: the last block of the file is freed, and the
\* block of pointers with the last block it points to.
DisminuirUnBloque ==
    LET f == pedido.archivo
        fcb == lista_fcb[f]
        asignados == Asignados(fcb)
    IN  /\ EnFase("disminuir", TRUE)
        /\ ocupados' = ocupados \ BloquesQueSuelta(fcb, pedido.punteros)
        /\ lista_fcb' = [lista_fcb EXCEPT ![f].indirecto = IF asignados = 2 THEN NoPuntero ELSE @,
                                          ![f].tamanio = @ - BLOCK_SIZE]
        /\ pedido' = [pedido EXCEPT !.faltan = @ - 1,
                          !.punteros = IF asignados = 1 THEN @ ELSE Front(@)]
        /\ UNCHANGED <<bloques, fcb_en_disco, traslado, danio>>

\* actualizar_fcb, and the answer.
ActualizarFcb ==
    /\ EnFase("actualizar", FALSE) \/ EnFase("disminuir", FALSE)
    /\ fcb_en_disco' = [fcb_en_disco EXCEPT ![pedido.archivo] = lista_fcb[pedido.archivo]]
    /\ pedido' = SinPedido
    /\ UNCHANGED <<ocupados, bloques, lista_fcb, traslado, danio>>

-----------------------------------------------------------------------------
(* F_READ and F_WRITE                                                      *)

\* obtener_all_bloques: a single block of data after the direct one is not read, and its
\* part of the buffer keeps whatever malloc left there.
TodosLosBloques(fcb, basura) ==
    LET ps == PunterosIndirectos(fcb)
    IN  bloques[fcb.directo] \o
            IF Len(ps) > 1 THEN FlattenSeq([i \in DOMAIN ps |-> bloques[ps[i]]]) ELSE basura

\* leer_datos_archivo looks at the pointer, escribir_archivo at the size.
BufferDeLectura(fcb, basura) ==
    IF fcb.indirecto # NoPuntero THEN TodosLosBloques(fcb, basura) ELSE bloques[fcb.directo]
BufferDeEscritura(fcb, basura) ==
    IF fcb.tamanio > BLOCK_SIZE THEN TodosLosBloques(fcb, basura) ELSE bloques[fcb.directo]

\* An access to an empty file uses block PUNTERO_DIRECTO, which is not its own.
TrasAcceso(fcb) == IF fcb.tamanio = 0 THEN "acceso_a_vacio" ELSE danio

LeerArchivo(f, puntero, tam, basura) ==
    LET buffer == BufferDeLectura(lista_fcb[f], basura)
    IN  /\ Atiende
        /\ f \in DOMAIN lista_fcb
        /\ puntero + tam <= Len(buffer)
        /\ traslado' = [op |-> "F_READ", archivo |-> f, puntero |-> puntero,
                        datos |-> SubSeq(buffer, puntero + 1, puntero + tam)]
        /\ danio' = TrasAcceso(lista_fcb[f])
        /\ UNCHANGED <<disco, lista_fcb, pedido>>

CeilDivision(a, b) == (a \div b) + (IF a % b > 0 THEN 1 ELSE 0)

\* obtener_n_punteros: the direct block, and all the others when there is more than one
\* block to write.
ObtenerNPunteros(cantidad, fcb) ==
    <<fcb.directo>> \o IF cantidad > 1 THEN PunterosIndirectos(fcb) ELSE <<>>

\* Mutant: the words go to the start of the file.
MutPonerEnBuffer(buffer, puntero, tam, dato) ==
    [i \in DOMAIN buffer |-> IF i \in 1..tam THEN dato ELSE buffer[i]]

PonerEnBuffer(buffer, puntero, tam, dato) ==
    [i \in DOMAIN buffer |-> IF i \in (puntero + 1)..(puntero + tam) THEN dato ELSE buffer[i]]

\* The buffer goes back to the blocks, one after another.
EscribirBuffer(bs, destinos, buffer) ==
    LET Parte(k) == SubSeq(buffer, (k - 1) * BLOCK_SIZE + 1, k * BLOCK_SIZE)
    IN  FoldLeftDomain(LAMBDA b, k : EscribirEnBloque(b, destinos[k], Parte(k)), bs, destinos)

\* The words are put in the buffer at the pointer, but how many blocks are written back
\* depends only on how many words there are.
EscribirArchivo(f, puntero, tam, dato, basura) ==
    LET fcb == lista_fcb[f]
        buffer == BufferDeEscritura(fcb, basura)
        nuevo == PonerEnBuffer(buffer, puntero, tam, dato)
        destinos == ObtenerNPunteros(CeilDivision(tam, BLOCK_SIZE), fcb)
    IN  /\ Atiende
        /\ f \in DOMAIN lista_fcb
        /\ puntero + tam <= Len(buffer)
        /\ bloques' = EscribirBuffer(bloques, destinos, nuevo)
        /\ traslado' = [op |-> "F_WRITE", archivo |-> f, puntero |-> puntero,
                        datos |-> [i \in 1..tam |-> dato]]
        /\ danio' = TrasAcceso(fcb)
        /\ UNCHANGED <<ocupados, fcb_en_disco, lista_fcb, pedido>>

-----------------------------------------------------------------------------
(* The process stops in the middle of F_TRUNCATE and starts again: once    *)

\* iniciar_fs: the bitmap and the blocks as they were left, the FCBs of the files.
Caida ==
    /\ pedido # SinPedido
    /\ danio = "ninguno"
    /\ lista_fcb' = fcb_en_disco
    /\ pedido' = SinPedido
    /\ danio' = IF pedido.reduce THEN "caida_al_reducir" ELSE "fuga"
    /\ UNCHANGED <<disco, traslado>>

-----------------------------------------------------------------------------
(* The specification                                                       *)

Init ==
    /\ ocupados = {}
    /\ bloques = [b \in Bloque |-> BloqueDe(0)]
    /\ lista_fcb = [f \in {} |-> SinPedido]
    /\ fcb_en_disco = lista_fcb
    /\ pedido = SinPedido
    /\ traslado = SinTraslado
    /\ danio = "ninguno"

Next ==
    \/ \E f \in Archivo :
          \/ CrearArchivo(f)
          \/ f \in DOMAIN lista_fcb /\ \E t \in Tamanios : TruncarArchivo(f, t)
          \/ /\ f \in DOMAIN lista_fcb
             /\ \E a \in Accesos, g \in Dato :
                   \/ LeerArchivo(f, a[1], a[2], BloqueDe(g))
                   \/ \E dato \in Dato \ {0} : EscribirArchivo(f, a[1], a[2], dato, BloqueDe(g))
    \/ AumentarDirecto
    \/ AumentarIndirecto
    \/ SincronizarPunteros
    \/ DisminuirUnBloque
    \/ ActualizarFcb
    \/ Caida

Spec == Init /\ [][Next]_vars

-----------------------------------------------------------------------------
(* Properties                                                              *)

\* The pointers of a file: those being changed, or those on the disk.
EnCurso(f) == pedido # SinPedido /\ pedido.archivo = f /\ pedido.fase # "actualizar"
Punteros(f) == IF EnCurso(f) THEN pedido.punteros ELSE PunterosIndirectos(lista_fcb[f])

\* The blocks of an FCB, each with its place: 0 the direct one, -1 the one of pointers.
BloquesDe(fcb, ps) ==
    (IF fcb.tamanio > 0 THEN {<<0, fcb.directo>>} ELSE {})
        \cup (IF fcb.indirecto # NoPuntero THEN {<<-1, fcb.indirecto>>} ELSE {})
        \cup {<<i, ps[i]>> : i \in DOMAIN ps}
Usos(fcbs, Ps(_)) == UNION {{<<f, u[1], u[2]>> : u \in BloquesDe(fcbs[f], Ps(f))} : f \in DOMAIN fcbs}
BloquesUsados(usos) == {u[3] : u \in usos}
SinCompartir(usos) == Cardinality(BloquesUsados(usos)) = Cardinality(usos)
UsosEnMemoria == Usos(lista_fcb, Punteros)
UsosEnDisco == Usos(fcb_en_disco, LAMBDA f : PunterosIndirectos(fcb_en_disco[f]))

\* At every step of every request, no block is in two places, every block of a file is
\* reserved in the bitmap, the pointers are as many as the size says and, unless the
\* process was stopped while a file grew, no block is reserved for nobody
\* (filesystem.c:638, 721).
BitmapExacto ==
    danio \notin Corruptos =>
        /\ SinCompartir(UsosEnMemoria)
        /\ BloquesUsados(UsosEnMemoria) \subseteq ocupados
        /\ danio = "ninguno" => ocupados = BloquesUsados(UsosEnMemoria)
        /\ \A f \in DOMAIN lista_fcb :
              Asignados(lista_fcb[f]) = Len(Punteros(f)) + IF lista_fcb[f].tamanio > 0 THEN 1 ELSE 0

\* The process may stop at any step in which no file is shrinking: what it reads back
\* from the disk gives each file blocks of its own, all reserved in the bitmap
\* (filesystem.c:682 before 373).
ReinicioSeguro ==
    danio \notin Corruptos /\ ~(pedido # SinPedido /\ pedido.reduce) =>
        /\ SinCompartir(UsosEnDisco)
        /\ BloquesUsados(UsosEnDisco) \subseteq ocupados

Contenido(f) ==
    IF lista_fcb[f].tamanio = 0 THEN <<>>
    ELSE bloques[lista_fcb[f].directo] \o
            FlattenSeq([i \in DOMAIN Punteros(f) |-> bloques[Punteros(f)[i]]])

\* Whatever is done to a file, step by step, the words of the others do not change: no
\* step writes a block that another file has (filesystem.c:407, 655, 671).
Pedida(f) == pedido # SinPedido /\ pedido.archivo = f
Escrita(f) == traslado # SinTraslado /\ traslado.archivo = f
AislamientoDeArchivos ==
    [][\A f \in DOMAIN lista_fcb :
          danio' \notin Corruptos /\ ~Pedida(f) /\ ~Escrita(f)' => Contenido(f)' = Contenido(f)]_vars

\* F_TRUNCATE never touches the words a file keeps: a growing file gets zeros after its
\* own, a shrinking one keeps the first, and a file that was growing when the process
\* stopped has again what its FCB on the disk says (filesystem.c:638, 721).
TruncarConserva ==
    [][\A f \in DOMAIN lista_fcb :
          LET antes == Contenido(f)
              despues == Contenido(f)'
          IN  danio' \notin Corruptos /\ Pedida(f) =>
                 \/ /\ pedido.reduce \/ lista_fcb' = fcb_en_disco
                    /\ IsPrefix(despues, antes)
                 \/ /\ ~pedido.reduce
                    /\ IsPrefix(antes, despues)
                    /\ \A i \in (Len(antes) + 1)..Len(despues) : despues[i] = 0]_vars

\* The words of an access that obtener_all_bloques and obtener_n_punteros are right for:
\* those of the first block, always; those past it, when they are read, unless the file
\* has two blocks (filesystem.c:770), and when they are written, if there are more of
\* them than a block holds (608, 800).
Servida(t, i) ==
    \/ t.puntero + i <= BLOCK_SIZE
    \/ IF t.op = "F_READ" THEN Asignados(lista_fcb[t.archivo]) # 2
                          ELSE Len(t.datos) > BLOCK_SIZE

\* Of every access, whatever its pointer and its size, each word the code serves is in
\* the file at its place: it is the one F_READ has sent to Memoria, or the one F_WRITE
\* got from there.  What the access does with its other words is left open.
TrasladoFiel ==
    traslado # SinTraslado /\ danio \notin Corruptos /\ pedido = SinPedido =>
        \A i \in DOMAIN traslado.datos :
            Servida(traslado, i) =>
                traslado.datos[i] = Contenido(traslado.archivo)[traslado.puntero + i]

\* "A partir del bloque 2, se revisa si existe el puntero indirecto. Si no, se crea."
\* A file that has data in its block of pointers does not get another one
\* (filesystem.c:662).
IndirectoUnaVez ==
    [][\A f \in DOMAIN lista_fcb :
          /\ Asignados(lista_fcb[f]) > 1
          /\ Asignados(lista_fcb'[f]) > Asignados(lista_fcb[f])
          => lista_fcb'[f].indirecto = lista_fcb[f].indirecto]_vars

=============================================================================

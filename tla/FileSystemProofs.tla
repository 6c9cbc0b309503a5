-------------------------- MODULE FileSystemProofs --------------------------
(***************************************************************************)
(* What the FileSystem promises of its bitmap and of the blocks of its     *)
(* files, for any number of files and blocks and any size of a block.      *)
(*                                                                         *)
(* InvFileSystem is the inductive invariant.  Mapa says which block is in  *)
(* each place of each file: the direct one, the one of pointers and those  *)
(* it points to.  While nothing has corrupted the disk, Sano: the FCBs     *)
(* agree with their pointers, no block is in two places, the bitmap marks  *)
(* the blocks of Mapa and no other, and what a request has still to do is  *)
(* what its file lacks.  Each action is argued by what it does to Mapa:    *)
(* AlMenguar takes a place away, AlCrecer adds one, and the others leave   *)
(* it as it is.                                                            *)
(***************************************************************************)
EXTENDS FileSystem, Pliegues, FiniteSetTheorems, FunctionTheorems, SequenceTheorems

-----------------------------------------------------------------------------
\* The blocks of a disk.
ArchivoDeBloques == [Bloque -> [1..BLOCK_SIZE -> Palabra]]

\* The pointers of an FCB on a disk with blocks bs.
PunterosEn(bs, fcb) ==
    IF fcb.tamanio <= BLOCK_SIZE \/ fcb.indirecto \notin Bloque THEN <<>>
    ELSE SubSeq(bs[fcb.indirecto], 1, (fcb.tamanio - BLOCK_SIZE) \div BLOCK_SIZE)

\* An FCB whose size is a number of blocks.
FcbEntero(fcb) ==
    /\ fcb \in Fcb
    /\ Asignados(fcb) \in Nat
    /\ fcb.tamanio = Asignados(fcb) * BLOCK_SIZE

\* The places of the blocks of a file of that size: 0 the direct one, -1 the one of
\* pointers, i the i-th pointer.
Lugares(fcb) ==
    IF Asignados(fcb) <= 1 THEN 0..(Asignados(fcb) - 1) ELSE -1..(Asignados(fcb) - 1)

BloqueEn(fcb, ps, k) == IF k = 0 THEN fcb.directo ELSE IF k = -1 THEN fcb.indirecto ELSE ps[k]

\* An FCB and its pointers agree, and there is a block of pointers exactly when needed.
BienFormado(fcb, ps) ==
    /\ FcbEntero(fcb)
    /\ fcb.directo \in Bloque
    /\ Asignados(fcb) <= 1 + BLOCK_SIZE
    /\ ps \in Seq(Bloque)
    /\ Asignados(fcb) <= 1 => fcb.indirecto = NoPuntero /\ Len(ps) = 0
    /\ Asignados(fcb) > 1 => /\ fcb.indirecto \in Bloque /\ fcb.indirecto # NoPuntero
                             /\ Len(ps) = Asignados(fcb) - 1

\* The block in each place of each file.
Mapa ==
    [f \in DOMAIN lista_fcb |->
        [k \in Lugares(lista_fcb[f]) |-> BloqueEn(lista_fcb[f], Punteros(f), k)]]

\* No block is in two places of M.
Repartidos(M) ==
    \A f, g \in DOMAIN M : \A j \in DOMAIN M[f], k \in DOMAIN M[g] :
        M[f][j] = M[g][k] => f = g /\ j = k
Reservados(M, usados) == \A f \in DOMAIN M : \A k \in DOMAIN M[f] : M[f][k] \in usados
SinFugas(M, usados) == \A b \in usados : \E f \in DOMAIN M : \E k \in DOMAIN M[f] : b = M[f][k]

\* What every state keeps, even when the disk is not what the code believes.
Tipos ==
    /\ ocupados \in SUBSET Bloque
    /\ bloques \in ArchivoDeBloques
    /\ DOMAIN lista_fcb \subseteq Archivo
    /\ DOMAIN fcb_en_disco = DOMAIN lista_fcb
    /\ \A f \in DOMAIN lista_fcb : FcbEntero(lista_fcb[f]) /\ FcbEntero(fcb_en_disco[f])
    /\ pedido \in Pedido \cup {SinPedido}
    /\ pedido # SinPedido => /\ pedido.archivo \in DOMAIN lista_fcb
                             /\ pedido.reduce = (pedido.fase = "disminuir")
                             /\ pedido.reduce => danio \notin Corruptos
                             /\ traslado = SinTraslado
    /\ traslado \in Traslado \cup {SinTraslado}
    /\ traslado # SinTraslado => traslado.archivo \in DOMAIN lista_fcb
    /\ danio \in Corruptos \cup {"ninguno", "fuga"}

\* What the request being served keeps.
PedidoBien ==
    LET f == pedido.archivo
        fcb == lista_fcb[f]
        antes == fcb_en_disco[f]
        ps == PunterosIndirectos(antes)
    IN  /\ pedido.fase = "aumentar" => Asignados(fcb) + pedido.faltan <= 1 + BLOCK_SIZE
        /\ pedido.fase = "disminuir" => pedido.faltan <= Asignados(fcb)
        /\ pedido.reduce \/ (pedido.fase = "aumentar" /\ ~pedido.sincronizar) =>
              pedido.punteros = PunterosIndirectos(fcb)
        /\ pedido.fase = "aumentar" /\ pedido.sincronizar => Asignados(fcb) > 1
        /\ ~pedido.reduce => /\ BienFormado(antes, ps)
                             /\ \A k \in Lugares(antes) :
                                   k \in Lugares(fcb) /\ Mapa[f][k] = BloqueEn(antes, ps, k)

\* What holds while the disk is what the code believes.
Sano ==
    /\ \A f \in DOMAIN lista_fcb : BienFormado(lista_fcb[f], Punteros(f))
    /\ Repartidos(Mapa)
    /\ Reservados(Mapa, ocupados)
    /\ danio = "ninguno" => SinFugas(Mapa, ocupados)
    /\ \A f \in DOMAIN lista_fcb : ~Pedida(f) => fcb_en_disco[f] = lista_fcb[f]
    /\ pedido # SinPedido => PedidoBien

InvFileSystem == Tipos /\ (danio \notin Corruptos => Sano)

-----------------------------------------------------------------------------
(* Division by the size of a block *)

\* How many times b fits in a product, in what follows it and in what precedes it.
LEMMA Division ==
    ASSUME NEW b \in Nat \ {0}, NEW n \in Nat
    PROVE  /\ n * b \in Nat
           /\ (n * b) \div b = n
           /\ (n * b) % b = 0
           /\ (n + 1) * b = n * b + b
           /\ n # 0 => (n - 1) * b = n * b - b
  OBVIOUS

\* Multiples are in the order of how many times.
LEMMA DivisionOrden ==
    ASSUME NEW b \in Nat \ {0}, NEW n \in Nat, NEW m \in Nat
    PROVE  /\ n * b <= m * b <=> n <= m
           /\ n * b < m * b <=> n < m
           /\ n < m => n * b + b <= m * b
  OBVIOUS

\* Quotient and remainder.
LEMMA DivisionEntera ==
    ASSUME NEW b \in Nat \ {0}, NEW t \in Nat
    PROVE  /\ t \div b \in Nat
           /\ t % b \in 0..(b - 1)
           /\ t = (t \div b) * b + (t % b)
<1>1. t \div b \in Int /\ t % b \in 0..(b - 1)
  OBVIOUS
<1>2. t = (t \div b) * b + (t % b)
  OBVIOUS
<1>3. t \div b \in Nat
  OBVIOUS
<1>. QED
  BY <1>1, <1>2, <1>3

\* And they are the only ones.
LEMMA DivisionUnica ==
    ASSUME NEW b \in Nat \ {0}, NEW q \in Nat, NEW r \in 0..(b - 1)
    PROVE  (q * b + r) \div b = q /\ (q * b + r) % b = r
  OBVIOUS

-----------------------------------------------------------------------------
(* FCBs, pointers and blocks *)

\* The comparisons the code makes with sizes, in numbers of blocks.
LEMMA TamanioDe ==
    ASSUME NEW fcb, FcbEntero(fcb)
    PROVE  /\ Asignados(fcb) \in Nat /\ fcb.tamanio \in Nat
           /\ fcb.tamanio % BLOCK_SIZE = 0
           /\ fcb.tamanio = 0 <=> Asignados(fcb) = 0
           /\ fcb.tamanio > 0 <=> Asignados(fcb) > 0
           /\ fcb.tamanio <= BLOCK_SIZE <=> Asignados(fcb) <= 1
           /\ Asignados(fcb) >= 1 => (fcb.tamanio - BLOCK_SIZE) \div BLOCK_SIZE = Asignados(fcb) - 1
<1> DEFINE b == BLOCK_SIZE
           n == Asignados(fcb)
           t == fcb.tamanio
<1>1. b \in Nat \ {0} /\ n \in Nat /\ t = n * b
  BY FileSystemAssumption DEF FcbEntero
<1> HIDE DEF b, n, t
<1>2. t \in Nat /\ t % b = 0
  BY <1>1, Division
<1>3. /\ n * b <= 0 * b <=> n <= 0
      /\ n * b <= 1 * b <=> n <= 1
  BY <1>1, DivisionOrden
<1>4. 0 * b = 0 /\ 1 * b = b
  BY <1>1
<1>5. (t = 0 <=> n = 0) /\ (t > 0 <=> n > 0) /\ (t <= b <=> n <= 1)
  BY <1>1, <1>2, <1>3, <1>4
<1>6. n >= 1 => (t - b) \div b = n - 1
  <2>1. n >= 1 => n - 1 \in Nat /\ (n - 1) * b = t - b
    BY <1>1, Division
  <2>2. n - 1 \in Nat => ((n - 1) * b) \div b = n - 1
    BY <1>1, Division
  <2>. QED
    BY <2>1, <2>2
<1>. QED
  BY <1>1, <1>2, <1>5, <1>6 DEF b, n, t

\* One block more.
LEMMA UnBloqueMas ==
    ASSUME NEW fcb, FcbEntero(fcb), NEW otro, otro \in Fcb, otro.tamanio = fcb.tamanio + BLOCK_SIZE
    PROVE  FcbEntero(otro) /\ Asignados(otro) = Asignados(fcb) + 1
<1> DEFINE n == Asignados(fcb)
<1>1. BLOCK_SIZE \in Nat \ {0} /\ n \in Nat /\ fcb.tamanio = n * BLOCK_SIZE
  BY FileSystemAssumption DEF FcbEntero
<1> HIDE DEF n
<1>2. otro.tamanio = (n + 1) * BLOCK_SIZE /\ n + 1 \in Nat
  BY <1>1, Division
<1>3. otro.tamanio \div BLOCK_SIZE = n + 1
  BY <1>1, <1>2, Division
<1>. QED
  BY <1>2, <1>3 DEF FcbEntero, Asignados, n

\* One block less.
LEMMA UnBloqueMenos ==
    ASSUME NEW fcb, FcbEntero(fcb), Asignados(fcb) > 0,
           NEW otro, otro \in Fcb, otro.tamanio = fcb.tamanio - BLOCK_SIZE
    PROVE  FcbEntero(otro) /\ Asignados(otro) = Asignados(fcb) - 1
<1> DEFINE n == Asignados(fcb)
<1>1. BLOCK_SIZE \in Nat \ {0} /\ n \in Nat /\ n # 0 /\ fcb.tamanio = n * BLOCK_SIZE
  BY FileSystemAssumption DEF FcbEntero
<1> HIDE DEF n
<1>2. otro.tamanio = (n - 1) * BLOCK_SIZE /\ n - 1 \in Nat
  BY <1>1, Division
<1>3. otro.tamanio \div BLOCK_SIZE = n - 1
  BY <1>1, <1>2, Division
<1>. QED
  BY <1>2, <1>3 DEF FcbEntero, Asignados, n

\* The pointers an FCB has on a disk with blocks bs.
LEMMA PunterosDe ==
    ASSUME NEW bs, bs \in ArchivoDeBloques, NEW fcb, FcbEntero(fcb)
    PROVE  /\ Asignados(fcb) <= 1 => PunterosEn(bs, fcb) = <<>>
           /\ Asignados(fcb) > 1 /\ Asignados(fcb) <= 1 + BLOCK_SIZE /\ fcb.indirecto \in Bloque =>
                 /\ PunterosEn(bs, fcb) \in Seq(Palabra)
                 /\ Len(PunterosEn(bs, fcb)) = Asignados(fcb) - 1
                 /\ \A i \in 1..(Asignados(fcb) - 1) :
                       PunterosEn(bs, fcb)[i] = bs[fcb.indirecto][i]
<1>1. CASE Asignados(fcb) <= 1
  BY <1>1, TamanioDe DEF PunterosEn
<1>2. CASE Asignados(fcb) > 1 /\ Asignados(fcb) <= 1 + BLOCK_SIZE /\ fcb.indirecto \in Bloque
  <2> DEFINE s == bs[fcb.indirecto]
             n == Asignados(fcb) - 1
  <2>1. s \in [1..BLOCK_SIZE -> Palabra] /\ BLOCK_SIZE \in Nat /\ n \in Nat /\ n <= BLOCK_SIZE
    BY <1>2, TamanioDe, FileSystemAssumption DEF ArchivoDeBloques
  <2>2. PunterosEn(bs, fcb) = SubSeq(s, 1, n)
    BY <1>2, TamanioDe DEF PunterosEn
  <2> HIDE DEF s, n
  <2>3. SubSeq(s, 1, n) = [i \in 1..n |-> s[i]]
    BY <2>1
  <2>4. \A i \in 1..n : s[i] \in Palabra
    BY <2>1
  <2> DEFINE q == [i \in 1..n |-> s[i]]
  <2>5. q \in Seq(Palabra) /\ Len(q) = n /\ \A i \in 1..n : q[i] = s[i]
    BY <2>1, <2>4
  <2> HIDE DEF q
  <2>6. PunterosEn(bs, fcb) = q
    BY <2>2, <2>3 DEF q
  <2>7. PunterosEn(bs, fcb) \in Seq(Palabra) /\ Len(PunterosEn(bs, fcb)) = n
        /\ \A i \in 1..n : PunterosEn(bs, fcb)[i] = s[i]
    BY <2>5, <2>6, Zenon
  <2>8. ~(Asignados(fcb) <= 1)
    BY <1>2, TamanioDe
  <2>. QED
    BY <2>7, <2>8, Zenon DEF s, n
<1>. QED
  <2>1. Asignados(fcb) \in Nat
    BY TamanioDe
  <2>. QED
    BY <1>1, <1>2, <2>1

\* The search finds a free block when there is one.
LEMMA BloqueLibre ==
    ASSUME NEW usados
    PROVE  /\ ObtenerBloqueLibre(usados) \in Bloque \cup {SinBloque}
           /\ ObtenerBloqueLibre(usados) # SinBloque =>
                 ObtenerBloqueLibre(usados) \in Bloque \ usados
<1>1. Bloque \subseteq Nat /\ SinBloque \notin Bloque
  BY FileSystemAssumption DEF Bloque, SinBloque
<1>2. CASE Bloque \subseteq usados
  BY <1>1, <1>2 DEF ObtenerBloqueLibre
<1>3. CASE ~(Bloque \subseteq usados)
  <2>1. Min(Bloque \ usados) \in Bloque \ usados
    BY <1>1, <1>3, MinimoDe
  <2>. QED
    BY <1>3, <2>1 DEF ObtenerBloqueLibre
<1>. QED
  BY <1>2, <1>3

\* Writing a block changes that block and no other.
LEMMA Escribe ==
    ASSUME NEW bs, bs \in ArchivoDeBloques, NEW b, NEW c, c \in [1..BLOCK_SIZE -> Palabra]
    PROVE  /\ EscribirEnBloque(bs, b, c) \in ArchivoDeBloques
           /\ \A x \in Bloque : EscribirEnBloque(bs, b, c)[x] = IF x = b THEN c ELSE bs[x]
  BY DEF EscribirEnBloque, ArchivoDeBloques

\* What is written is made of words.
LEMMA Escrito ==
    /\ BloqueDe(0) \in [1..BLOCK_SIZE -> Palabra]
    /\ \A w \in Dato : BloqueDe(w) \in [1..BLOCK_SIZE -> Palabra]
    /\ \A ps \in Seq(Bloque \cup {SinBloque}) :
          DatosBloqueIndirecto(ps) \in [1..BLOCK_SIZE -> Palabra]
<1>1. 0 \in Dato
  BY FileSystemAssumption
<1>2. \A w \in Dato : BloqueDe(w) \in [1..BLOCK_SIZE -> Palabra]
  BY DEF BloqueDe, Palabra
<1>3. ASSUME NEW ps \in Seq(Bloque \cup {SinBloque})
      PROVE  DatosBloqueIndirecto(ps) \in [1..BLOCK_SIZE -> Palabra]
  <2>1. \A i \in DOMAIN ps : ps[i] \in Bloque \cup {SinBloque}
    BY LenProperties, ElementOfSeq
  <2>. QED
    BY <2>1 DEF DatosBloqueIndirecto, Palabra
<1>. QED
  BY <1>1, <1>2, <1>3

-----------------------------------------------------------------------------
(* The types, step by step *)

\* The request being served.
LEMMA PedidoTipo ==
    ASSUME Tipos, pedido # SinPedido
    PROVE  /\ pedido \in Pedido
           /\ pedido.archivo \in DOMAIN lista_fcb
           /\ pedido.faltan \in Nat
           /\ pedido.punteros \in Seq(Bloque \cup {SinBloque})
  BY DEF Tipos, Pedido

\* A new FCB in memory, of whole blocks, keeps the types.
LEMMA TiposDeFcb ==
    ASSUME Tipos, pedido # SinPedido,
           ocupados' \in SUBSET Bloque, bloques' \in ArchivoDeBloques,
           DOMAIN lista_fcb' = DOMAIN lista_fcb, DOMAIN fcb_en_disco' = DOMAIN fcb_en_disco,
           \A f \in DOMAIN lista_fcb : FcbEntero(lista_fcb'[f]) /\ FcbEntero(fcb_en_disco'[f]),
           pedido' \in Pedido \cup {SinPedido},
           pedido' # SinPedido => /\ pedido'.archivo = pedido.archivo
                                  /\ pedido'.reduce = (pedido'.fase = "disminuir")
                                  /\ pedido'.reduce => danio' \notin Corruptos,
           traslado' = traslado,
           danio' \in Corruptos \cup {"ninguno", "fuga"}
    PROVE  Tipos'
  BY DEF Tipos

\* AumentarDirecto.
LEMMA TiposAumentarDirecto ==
    ASSUME Tipos, AumentarDirecto
    PROVE  Tipos'
<1> DEFINE f == pedido.archivo
           b == ObtenerBloqueLibre(ocupados)
           t == lista_fcb[f].tamanio + BLOCK_SIZE
<1>1. pedido # SinPedido /\ pedido.fase = "aumentar" /\ pedido.faltan > 0
  BY DEF AumentarDirecto, EnFase
<1>2. /\ pedido \in Pedido /\ f \in DOMAIN lista_fcb /\ pedido.faltan \in Nat
      /\ pedido.punteros \in Seq(Bloque \cup {SinBloque})
  BY <1>1, PedidoTipo
<1>3. b \in Bloque \cup {SinBloque}
  BY BloqueLibre
<1> HIDE DEF b
<1>4. ocupados' \in SUBSET Bloque
  BY DEF AumentarDirecto, ReservarBloque, Tipos, b
<1>5. bloques' \in ArchivoDeBloques
  BY Escribe, Escrito DEF AumentarDirecto, Tipos, b
<1>6. /\ DOMAIN lista_fcb' = DOMAIN lista_fcb
      /\ \A g \in DOMAIN lista_fcb : g # f => lista_fcb'[g] = lista_fcb[g]
      /\ lista_fcb'[f] = [lista_fcb[f] EXCEPT !.directo = b, !.tamanio = t]
  BY <1>2 DEF AumentarDirecto, b
<1>7. FcbEntero(lista_fcb'[f])
  <2>1. FcbEntero(lista_fcb[f]) /\ lista_fcb[f] \in Fcb
    BY <1>2 DEF Tipos, FcbEntero
  <2>2. t \in Nat
    BY <2>1, FileSystemAssumption, TamanioDe
  <2> HIDE DEF t
  <2> DEFINE r == [lista_fcb[f] EXCEPT !.directo = b, !.tamanio = t]
  <2>3. r \in Fcb /\ r.tamanio = t
    BY <1>3, <2>1, <2>2 DEF Fcb
  <2> HIDE DEF r
  <2>4. lista_fcb'[f] = r
    BY <1>6 DEF r
  <2>. QED
    BY <2>1, <2>3, <2>4, UnBloqueMas DEF t
<1>8. \A g \in DOMAIN lista_fcb : FcbEntero(lista_fcb'[g]) /\ FcbEntero(fcb_en_disco'[g])
  BY <1>6, <1>7 DEF AumentarDirecto, Tipos
<1>9. /\ pedido' \in Pedido /\ pedido'.archivo = pedido.archivo
      /\ pedido'.reduce = (pedido'.fase = "disminuir") /\ ~pedido'.reduce
  BY <1>1, <1>2 DEF AumentarDirecto, Pedido, Tipos
<1>10. danio' \in Corruptos \cup {"ninguno", "fuga"}
  BY DEF AumentarDirecto, Corruptos, Tipos
<1>11. DOMAIN fcb_en_disco' = DOMAIN fcb_en_disco /\ traslado' = traslado
  BY DEF AumentarDirecto
<1>. QED
  BY <1>1, <1>4, <1>5, <1>6, <1>8, <1>9, <1>10, <1>11, TiposDeFcb

\* AumentarIndirecto.
LEMMA TiposAumentarIndirecto ==
    ASSUME Tipos, AumentarIndirecto
    PROVE  Tipos'
<1> DEFINE f == pedido.archivo
           fcb == lista_fcb[f]
           crea == fcb.indirecto = NoPuntero
           i == IF crea THEN ObtenerBloqueLibre(ocupados) ELSE fcb.indirecto
           usados == ReservarBloque(ocupados, i)
           b == ObtenerBloqueLibre(usados)
           limpio == IF crea THEN EscribirEnBloque(bloques, i, BloqueDe(0)) ELSE bloques
           t == fcb.tamanio + BLOCK_SIZE
           n == pedido.faltan - 1
           q == Append(IF crea THEN <<>> ELSE pedido.punteros, b)
<1>1. pedido # SinPedido /\ pedido.fase = "aumentar" /\ pedido.faltan > 0
  BY DEF AumentarIndirecto, EnFase
<1>2. /\ pedido \in Pedido /\ f \in DOMAIN lista_fcb /\ pedido.faltan \in Nat
      /\ pedido.punteros \in Seq(Bloque \cup {SinBloque})
  BY <1>1, PedidoTipo
<1>3. FcbEntero(fcb) /\ fcb \in Fcb
  BY <1>2 DEF Tipos, FcbEntero
<1>4. i \in Bloque \cup {SinBloque} /\ b \in Bloque \cup {SinBloque}
  BY <1>3, BloqueLibre DEF Fcb
<1>5. limpio \in ArchivoDeBloques
  BY Escribe, Escrito DEF Tipos
<1>6. ocupados' = ReservarBloque(usados, b) /\ bloques' = EscribirEnBloque(limpio, b, BloqueDe(0))
  BY DEF AumentarIndirecto
<1>7. ocupados' \in SUBSET Bloque
  BY <1>6 DEF ReservarBloque, Tipos
<1>8. bloques' \in ArchivoDeBloques
  BY <1>5, <1>6, Escribe, Escrito
<1>9. /\ DOMAIN lista_fcb' = DOMAIN lista_fcb
      /\ \A g \in DOMAIN lista_fcb : g # f => lista_fcb'[g] = lista_fcb[g]
      /\ lista_fcb'[f] = [fcb EXCEPT !.indirecto = i, !.tamanio = t]
  BY <1>2 DEF AumentarIndirecto
<1>10. pedido' = [pedido EXCEPT !.faltan = n, !.sincronizar = TRUE, !.punteros = q]
  BY DEF AumentarIndirecto
<1>11. /\ DOMAIN fcb_en_disco' = DOMAIN fcb_en_disco /\ traslado' = traslado
       /\ fcb_en_disco' = fcb_en_disco
       /\ danio' \in Corruptos \cup {"ninguno", "fuga"}
  BY DEF AumentarIndirecto, Corruptos, Tipos
<1> HIDE DEF fcb, i, usados, b, limpio, crea, t, n, q
<1>12. FcbEntero(lista_fcb'[f])
  <2>1. t \in Nat
    BY <1>3, FileSystemAssumption, TamanioDe DEF t
  <2> DEFINE r == [fcb EXCEPT !.indirecto = i, !.tamanio = t]
  <2>2. r \in Fcb /\ r.tamanio = t
    BY <1>3, <1>4, <2>1 DEF Fcb
  <2> HIDE DEF r
  <2>3. lista_fcb'[f] = r
    BY <1>9 DEF r
  <2>. QED
    BY <1>3, <2>2, <2>3, UnBloqueMas DEF t
<1>13. \A g \in DOMAIN lista_fcb : FcbEntero(lista_fcb'[g]) /\ FcbEntero(fcb_en_disco'[g])
  BY <1>9, <1>11, <1>12 DEF Tipos
<1>14. q \in Seq(Bloque \cup {SinBloque})
  BY <1>2, <1>4 DEF q
<1>15. /\ pedido' \in Pedido /\ pedido'.archivo = pedido.archivo
       /\ pedido'.reduce = (pedido'.fase = "disminuir") /\ ~pedido'.reduce
  <2>1. pedido.reduce = FALSE
    BY <1>1, <1>2 DEF Tipos, Pedido
  <2>2. n \in Nat
    BY <1>1, <1>2 DEF n
  <2>3. /\ pedido' \in Pedido /\ pedido'.archivo = pedido.archivo
        /\ pedido'.reduce = pedido.reduce /\ pedido'.fase = pedido.fase
    BY <1>2, <1>10, <1>14, <2>2 DEF Pedido
  <2>. QED
    BY <1>1, <2>1, <2>3
<1>. QED
  BY <1>1, <1>7, <1>8, <1>9, <1>11, <1>13, <1>15, TiposDeFcb

\* SincronizarPunteros.
LEMMA TiposSincronizar ==
    ASSUME Tipos, SincronizarPunteros
    PROVE  Tipos'
<1>1. pedido # SinPedido /\ pedido.fase = "aumentar"
  BY DEF SincronizarPunteros, EnFase
<1>2. /\ pedido \in Pedido
      /\ pedido.punteros \in Seq(Bloque \cup {SinBloque})
  BY <1>1, PedidoTipo
<1>3. bloques' \in ArchivoDeBloques
  BY <1>2, Escribe, Escrito DEF SincronizarPunteros, Tipos
<1>4. /\ pedido' \in Pedido /\ pedido'.archivo = pedido.archivo
      /\ pedido'.reduce = (pedido'.fase = "disminuir") /\ ~pedido'.reduce
  <2>1. pedido.reduce = FALSE
    BY <1>1, <1>2 DEF Tipos, Pedido
  <2>. QED
    BY <1>1, <1>2, <2>1 DEF SincronizarPunteros, Pedido
<1>5. ocupados' = ocupados /\ lista_fcb' = lista_fcb /\ fcb_en_disco' = fcb_en_disco
      /\ traslado' = traslado /\ danio' = danio
  BY DEF SincronizarPunteros
<1>. QED
  BY <1>1, <1>3, <1>4, <1>5, TiposDeFcb DEF Tipos

\* ActualizarFcb.
LEMMA TiposActualizar ==
    ASSUME Tipos, ActualizarFcb
    PROVE  Tipos'
<1> DEFINE f == pedido.archivo
<1>1. pedido # SinPedido
  BY DEF ActualizarFcb, EnFase
<1>2. f \in DOMAIN lista_fcb
  BY <1>1, PedidoTipo
<1>3. /\ DOMAIN fcb_en_disco' = DOMAIN fcb_en_disco
      /\ \A g \in DOMAIN lista_fcb : FcbEntero(fcb_en_disco'[g])
  BY <1>2 DEF ActualizarFcb, Tipos
<1>4. pedido' = SinPedido /\ bloques' = bloques
      /\ ocupados' = ocupados /\ lista_fcb' = lista_fcb /\ traslado' = traslado /\ danio' = danio
  BY DEF ActualizarFcb
<1>. QED
  BY <1>1, <1>3, <1>4, TiposDeFcb DEF Tipos

-----------------------------------------------------------------------------
(* The contents of blocks, one after another *)

\* FlattenSeq of blocks of the same size: word j of block k + 1 is word k * b + j.
LEMMA Aplana ==
    ASSUME NEW b \in Nat \ {0}, NEW S, NEW seqs \in Seq([1..b -> S])
    PROVE  /\ FlattenSeq(seqs) \in Seq(S)
           /\ Len(FlattenSeq(seqs)) = Len(seqs) * b
           /\ \A k \in 0..(Len(seqs) - 1), j \in 1..b :
                 FlattenSeq(seqs)[k * b + j] = seqs[k + 1][j]
<1> DEFINE n == Len(seqs)
           g == [i \in 1..n |-> [x \in 1..(i * b) |-> seqs[((x - 1) \div b) + 1][((x - 1) % b) + 1]]]
           G(f) == f = [i \in 1..n |-> IF i = 1 THEN seqs[i] ELSE f[i - 1] \o seqs[i]]
<1>1. n \in Nat /\ DOMAIN seqs = 1..n /\ \A i \in 1..n : seqs[i] \in [1..b -> S]
  BY LenProperties, ElementOfSeq
<1> HIDE DEF n
<1>2. CASE n = 0
  <2>1. seqs = <<>> /\ Len(seqs) = 0 /\ 0 * b = 0
    BY <1>2 DEF n
  <2>2. FlattenSeq(seqs) = <<>>
    BY <2>1 DEF FlattenSeq
  <2>3. Len(seqs) * b = 0 /\ 0..(Len(seqs) - 1) = {} /\ Len(<<>>) = 0
    BY <2>1
  <2>4. <<>> \in Seq(S)
    OBVIOUS
  <2>. QED
    BY <2>2, <2>3, <2>4, Zenon
<1>3. CASE n # 0
  <2>1. ASSUME NEW i \in 1..n, NEW x \in 1..(i * b)
        PROVE  /\ ((x - 1) \div b) + 1 \in 1..i
               /\ ((x - 1) % b) + 1 \in 1..b
    <3> DEFINE q == (x - 1) \div b
               r == (x - 1) % b
    <3>1. x - 1 \in Nat /\ i \in Nat /\ i * b \in Nat /\ x - 1 < i * b
      <4>1. i \in Nat /\ i * b \in Nat
        BY <1>1, Division
      <4>. QED
        BY <4>1
    <3>2. q \in Nat /\ r \in 0..(b - 1) /\ x - 1 = q * b + r
      BY <3>1, DivisionEntera
    <3> HIDE DEF q, r
    <3>3. q * b \in Nat
      BY <3>2, Division
    <3> DEFINE p == q * b
               m == i * b
    <3>4. p \in Nat /\ m \in Nat /\ x \in Int /\ x - 1 = p + r /\ x - 1 < m
      BY <3>1, <3>2, <3>3
    <3>5. p <= x - 1
      <4> HIDE DEF p, m
      <4>. QED
        BY <3>2, <3>4
    <3>6. p < m
      <4> HIDE DEF p, m
      <4>. QED
        BY <3>4, <3>5
    <3>7. q < i
      BY <3>1, <3>2, <3>6, DivisionOrden
    <3>. QED
      BY <3>1, <3>2, <3>7 DEF q, r
  <2>2. ASSUME NEW i \in 1..n
        PROVE  /\ g[i] \in [1..(i * b) -> S]
               /\ g[i] \in Seq(S) /\ Len(g[i]) = i * b
    <3>1. ASSUME NEW x \in 1..(i * b)
          PROVE  seqs[((x - 1) \div b) + 1][((x - 1) % b) + 1] \in S
      <4>1. ((x - 1) \div b) + 1 \in 1..n
        BY <1>1, <2>1
      <4>. QED
        BY <1>1, <2>1, <4>1
    <3>2. g[i] \in [1..(i * b) -> S]
      BY <3>1
    <3>3. i * b \in Nat
      BY <1>1, Division
    <3> DEFINE h == g[i]
               m == i * b
    <3> HIDE DEF g
    <3>4. h \in [1..m -> S] /\ m \in Nat
      BY <3>2, <3>3
    <3> HIDE DEF h, m
    <3>5. h \in Seq(S) /\ Len(h) = m
      BY <3>4
    <3>. QED
      BY <3>2, <3>5 DEF h, m
  <2>3. \A i \in 1..n : \A x \in 1..(i * b) :
           g[i][x] = seqs[((x - 1) \div b) + 1][((x - 1) % b) + 1]
    OBVIOUS
  <2> HIDE DEF g
  <2>4. ASSUME NEW i \in 1..n, NEW k \in 0..(i - 1), NEW j \in 1..b
        PROVE  g[i][k * b + j] = seqs[k + 1][j] /\ k * b + j \in 1..(i * b)
    <3>1. i \in Nat /\ k \in Nat /\ j - 1 \in 0..(b - 1) /\ k < i
      BY <1>1
    <3>2. k * b \in Nat /\ i * b \in Nat
      BY <3>1, Division
    <3>3. k * b + b <= i * b
      BY <3>1, DivisionOrden
    <3> DEFINE p == k * b
               m == i * b
    <3>4. p \in Nat /\ m \in Nat /\ p + b <= m
      BY <3>2, <3>3
    <3>5. p + j \in 1..m /\ (p + j) - 1 = p + (j - 1)
      <4> HIDE DEF p, m
      <4>. QED
        BY <3>4
    <3>6. (p + (j - 1)) \div b = k /\ (p + (j - 1)) % b = j - 1
      <4>1. (k * b + (j - 1)) \div b = k /\ (k * b + (j - 1)) % b = j - 1
        BY <3>1, DivisionUnica
      <4>. QED
        BY <4>1
    <3> HIDE DEF p
    <3>7. g[i][p + j] = seqs[(((p + j) - 1) \div b) + 1][(((p + j) - 1) % b) + 1]
      BY <2>3, <3>5
    <3>8. (j - 1) + 1 = j
      OBVIOUS
    <3>9. g[i][p + j] = seqs[k + 1][j]
      BY <3>5, <3>6, <3>7, <3>8
    <3>. QED
      BY <3>5, <3>9 DEF p, m
  <2>5. ASSUME NEW i \in 1..n
        PROVE  g[i] = IF i = 1 THEN seqs[i] ELSE g[i - 1] \o seqs[i]
    <3>1. CASE i = 1
      <4>1. 1 * b = b
        OBVIOUS
      <4>2. g[1] \in [1..b -> S] /\ seqs[1] \in [1..b -> S]
        BY <1>1, <2>2, <3>1, <4>1
      <4>3. ASSUME NEW j \in 1..b
            PROVE  g[1][j] = seqs[1][j]
        <5>1. 0 * b + j = j /\ 0 \in 0..(1 - 1) /\ 1 \in 1..n /\ 0 + 1 = 1
          BY <3>1
        <5>2. g[1][0 * b + j] = seqs[0 + 1][j]
          BY <2>4, <5>1, Zenon
        <5>. QED
          BY <5>1, <5>2
      <4>. QED
        BY <3>1, <4>2, <4>3
    <3>2. CASE i # 1
      <4> DEFINE u == g[i - 1]
                 v == seqs[i]
      <4>1. i - 1 \in 1..n /\ i \in Nat
        BY <1>1, <3>2
      <4>2. /\ u \in Seq(S) /\ Len(u) = (i - 1) * b
            /\ v \in Seq(S) /\ Len(v) = b
        <5>1. v \in [1..b -> S]
          BY <1>1
        <5>. QED
          BY <2>2, <4>1, <5>1
      <4>3. (i - 1) * b + b = i * b /\ (i - 1) * b \in Nat /\ i * b \in Nat
        BY <4>1, Division
      <4>4. ASSUME NEW x \in 1..((i - 1) * b)
            PROVE  u[x] = g[i][x]
        <5>1. x \in 1..(i * b)
          BY <4>3
        <5>. QED
          BY <2>3, <4>1, <5>1
      <4>5. ASSUME NEW x \in 1..(i * b), ~(x <= (i - 1) * b)
            PROVE  v[x - (i - 1) * b] = g[i][x]
        <5> DEFINE j == x - (i - 1) * b
        <5>1. j \in 1..b /\ (i - 1) * b + j = x /\ i - 1 \in 0..(i - 1) /\ (i - 1) + 1 = i
          BY <4>1, <4>3, <4>5
        <5> HIDE DEF j
        <5>2. g[i][(i - 1) * b + j] = seqs[(i - 1) + 1][j]
          BY <2>4, <5>1
        <5>. QED
          BY <5>1, <5>2 DEF j
      <4> HIDE DEF u, v
      <4>6. /\ u \o v \in Seq(S) /\ Len(u \o v) = i * b
            /\ \A x \in 1..(i * b) :
                  (u \o v)[x] = IF x <= (i - 1) * b THEN u[x] ELSE v[x - (i - 1) * b]
        <5>1. /\ u \o v \in Seq(S) /\ Len(u \o v) = Len(u) + Len(v)
              /\ \A x \in 1..(Len(u) + Len(v)) :
                    (u \o v)[x] = IF x <= Len(u) THEN u[x] ELSE v[x - Len(u)]
          BY <4>2, ConcatProperties
        <5>. QED
          BY <4>2, <4>3, <5>1
      <4>7. \A x \in 1..(i * b) : (u \o v)[x] = g[i][x]
        <5>1. ASSUME NEW x \in 1..(i * b)
              PROVE  (u \o v)[x] = g[i][x]
          <6>1. CASE x <= (i - 1) * b
            <7>1. x \in 1..((i - 1) * b)
              BY <4>3, <6>1
            <7>. QED
              BY <4>4, <4>6, <6>1, <7>1
          <6>2. CASE ~(x <= (i - 1) * b)
            BY <4>5, <4>6, <6>2
          <6>. QED
            BY <6>1, <6>2
        <5>. QED
          BY <5>1
      <4>8. u \o v = g[i]
        BY <2>2, <4>6, <4>7, SeqEqual
      <4>. QED
        BY <3>2, <4>8 DEF u, v
    <3>. QED
      BY <3>1, <3>2
  <2>6. G(g)
    <3>1. g = [i \in 1..n |-> g[i]]
      BY DEF g
    <3>. QED
      BY <2>5, <3>1
  <2>7. FlattenSeq(seqs) = (CHOOSE f : G(f))[n]
    BY <1>3 DEF FlattenSeq, n
  <2> HIDE DEF G
  <2>8. PICK f : G(f) /\ FlattenSeq(seqs) = f[n]
    BY <2>6, <2>7
  <2>9. \A i \in 1..n : f[i] = IF i = 1 THEN seqs[i] ELSE f[i - 1] \o seqs[i]
    BY <2>8 DEF G
  <2> DEFINE Q == {i \in 0..n : i = 0 \/ f[i] = g[i]}
  <2>10. \A i \in 0..(n - 1) : i \in Q => i + 1 \in Q
    <3>1. ASSUME NEW i \in 0..(n - 1), i = 0 \/ f[i] = g[i]
          PROVE  f[i + 1] = g[i + 1]
      <4>1. i + 1 \in 1..n /\ (i + 1) - 1 = i /\ (i + 1 = 1 <=> i = 0)
        BY <1>1
      <4>. QED
        BY <2>5, <2>9, <3>1, <4>1
    <3>. QED
      BY <1>1, <3>1
  <2>11. 0 \in Q
    BY <1>1
  <2> HIDE DEF Q
  <2>12. \A i \in 0..n : i \in Q
    BY <1>1, <2>10, <2>11, InduccionHasta, Zenon
  <2>13. n \in 0..n /\ n \in 1..n
    BY <1>1, <1>3
  <2>14. f[n] = g[n]
    BY <1>3, <2>12, <2>13 DEF Q
  <2>. QED
    BY <2>2, <2>4, <2>8, <2>13, <2>14 DEF n
<1>. QED
  BY <1>2, <1>3

\* The block that goes to the k-th place.
LEMMA ParteDelBuffer ==
    ASSUME NEW m \in Nat, NEW buffer \in [1..(m * BLOCK_SIZE) -> Palabra], NEW k \in 1..m
    PROVE  /\ SubSeq(buffer, (k - 1) * BLOCK_SIZE + 1, k * BLOCK_SIZE) \in [1..BLOCK_SIZE -> Palabra]
           /\ \A j \in 1..BLOCK_SIZE :
                 SubSeq(buffer, (k - 1) * BLOCK_SIZE + 1, k * BLOCK_SIZE)[j] =
                    buffer[(k - 1) * BLOCK_SIZE + j]
<1> DEFINE b == BLOCK_SIZE
           p == (k - 1) * b
           q == k * b
           t == m * b
           s == SubSeq(buffer, p + 1, q)
<1>1. b \in Nat \ {0} /\ k \in Nat /\ k - 1 \in Nat /\ k <= m /\ k # 0
  BY FileSystemAssumption
<1>2. p \in Nat /\ q = p + b /\ q <= t /\ t \in Nat
  <2>1. p \in Nat /\ k * b \in Nat /\ m * b \in Nat
    BY <1>1, Division
  <2>2. (k - 1) * b = k * b - b
    BY <1>1, Division
  <2>3. k * b <= m * b
    BY <1>1, DivisionOrden
  <2>. QED
    BY <1>1, <2>1, <2>2, <2>3
<1>3. buffer \in [1..t -> Palabra]
  OBVIOUS
<1> HIDE DEF b, p, q, t
<1>4. s = [j \in 1..(q - (p + 1) + 1) |-> buffer[(p + 1) + j - 1]]
  BY <1>1, <1>2, <1>3
<1>5. q - (p + 1) + 1 = b
  BY <1>1, <1>2
<1>6. \A j \in 1..b : (p + 1) + j - 1 = p + j /\ p + j \in 1..t
  BY <1>1, <1>2
<1>7. s = [j \in 1..b |-> buffer[p + j]]
  BY <1>4, <1>5, <1>6
<1>8. s \in [1..b -> Palabra] /\ \A j \in 1..b : s[j] = buffer[p + j]
  BY <1>3, <1>6, <1>7
<1>. QED
  BY <1>8 DEF b, p, q, s

\* escribir_archivo: each block gets its part of the buffer, and no other block changes.
THEOREM EscribeBuffer ==
    ASSUME NEW bs, bs \in ArchivoDeBloques, NEW ds \in Seq(Bloque),
           \A i, j \in 1..Len(ds) : ds[i] = ds[j] => i = j,
           NEW m \in Nat, Len(ds) <= m, NEW buffer \in [1..(m * BLOCK_SIZE) -> Palabra]
    PROVE  LET final == EscribirBuffer(bs, ds, buffer)
           IN  /\ final \in ArchivoDeBloques
               /\ \A k \in 1..Len(ds), j \in 1..BLOCK_SIZE :
                     final[ds[k]][j] = buffer[(k - 1) * BLOCK_SIZE + j]
               /\ \A x \in Bloque : (\A k \in 1..Len(ds) : ds[k] # x) => final[x] = bs[x]
<1> DEFINE n == Len(ds)
           Parte(k) == SubSeq(buffer, (k - 1) * BLOCK_SIZE + 1, k * BLOCK_SIZE)
           Op(o, k) == EscribirEnBloque(o, ds[k], Parte(k))
           Hasta(o, s) == /\ o \in ArchivoDeBloques
                          /\ \A k \in s : o[ds[k]] = Parte(k)
                          /\ \A x \in Bloque : (\A k \in s : ds[k] # x) => o[x] = bs[x]
           P == [s \in SUBSET (1..n) |-> {o \in ArchivoDeBloques : Hasta(o, s)}]
           F == [y \in ArchivoDeBloques \X (1..n) |-> Op(y[1], y[2])]
<1>1. n \in Nat /\ DOMAIN ds = 1..n /\ \A k \in 1..n : ds[k] \in Bloque
  BY LenProperties, ElementOfSeq
<1>2. \A k \in 1..n : /\ Parte(k) \in [1..BLOCK_SIZE -> Palabra]
                      /\ \A j \in 1..BLOCK_SIZE : Parte(k)[j] = buffer[(k - 1) * BLOCK_SIZE + j]
  <2>1. ASSUME NEW k \in 1..n
        PROVE  /\ Parte(k) \in [1..BLOCK_SIZE -> Palabra]
               /\ \A j \in 1..BLOCK_SIZE : Parte(k)[j] = buffer[(k - 1) * BLOCK_SIZE + j]
    <3>1. k \in 1..m
      BY <1>1
    <3> HIDE DEF n
    <3>. QED
      BY <3>1, ParteDelBuffer
  <2>. QED
    BY <2>1
<1>3. \A i, j \in 1..n : ds[i] = ds[j] => i = j
  OBVIOUS
<1>4. EscribirBuffer(bs, ds, buffer) = FoldLeftDomain(Op, bs, ds)
  BY DEF EscribirBuffer
<1> HIDE DEF n, Parte
<1>5. ASSUME NEW s \in SUBSET (1..n), NEW o, Hasta(o, s), NEW k \in 1..n, k \notin s
      PROVE  Hasta(Op(o, k), s \cup {k})
  <2>1. /\ Op(o, k) \in ArchivoDeBloques
        /\ \A x \in Bloque : Op(o, k)[x] = IF x = ds[k] THEN Parte(k) ELSE o[x]
    BY <1>2, <1>5, Escribe
  <2> HIDE DEF Op
  <2>2. ASSUME NEW l \in s \cup {k}
        PROVE  Op(o, k)[ds[l]] = Parte(l)
    BY <1>1, <1>3, <1>5, <2>1
  <2>3. ASSUME NEW x \in Bloque, \A l \in s \cup {k} : ds[l] # x
        PROVE  Op(o, k)[x] = bs[x]
    BY <1>5, <2>1, <2>3
  <2>. QED
    BY <2>1, <2>2, <2>3
<1>6. Hasta(bs, {})
  OBVIOUS
<1> HIDE DEF Op, Hasta
<1>7. \A s \in SUBSET (1..n) : \A o : o \in P[s] <=> o \in ArchivoDeBloques /\ Hasta(o, s)
  OBVIOUS
<1>8. \A o \in ArchivoDeBloques, k \in 1..n : F[<<o, k>>] = Op(o, k)
  OBVIOUS
<1> HIDE DEF F, P
<1>9. \A s \in SUBSET (1..n) : \A o : Hasta(o, s) => o \in P[s]
  BY <1>7 DEF Hasta
<1>10. PICK g : EsPliegue(g, n, bs, F, P)
  <2>1. bs \in P[{}]
    <3>1. {} \in SUBSET (1..n)
      OBVIOUS
    <3>. QED
      BY <1>6, <1>9, <3>1, Zenon
  <2>2. ASSUME NEW k \in 1..n, NEW s \in SUBSET (1..(k - 1)), NEW o \in P[s]
        PROVE  F[<<o, k>>] \in P[s \cup {k}]
    <3>1. s \in SUBSET (1..n) /\ s \cup {k} \in SUBSET (1..n) /\ k \notin s
      BY <1>1
    <3>2. o \in ArchivoDeBloques /\ Hasta(o, s)
      BY <1>7, <3>1
    <3>3. Hasta(Op(o, k), s \cup {k})
      BY <1>5, <3>1, <3>2
    <3>. QED
      BY <1>8, <1>9, <3>1, <3>2, <3>3
  <2>3. \A k \in 1..n : \A s \in SUBSET (1..(k - 1)) : \A o \in P[s] :
           F[<<o, k>>] \in P[s \cup {k}]
    BY <2>2
  <2>. QED
    BY <1>1, <2>1, <2>3, Pliegue
<1>11. ASSUME NEW s \in SUBSET (1..n), s # {}
       PROVE  /\ Max(s) \in 1..n /\ Max(s) \notin s \ {Max(s)}
              /\ s \ {Max(s)} \in SUBSET (1..n)
              /\ (s \ {Max(s)}) \cup {Max(s)} = s
  <2>1. Max(s) \in s /\ Max(s) \in 1..n
    BY <1>1, <1>11, MaximoEnPosiciones
  <2>. QED
    BY <2>1
<1>12. ASSUME NEW s \in SUBSET (1..n), s # {}
       PROVE  F[<<g[s \ {Max(s)}], Max(s)>>] = Op(g[s \ {Max(s)}], Max(s))
  <2>1. s \ {Max(s)} \in SUBSET (1..n) /\ Max(s) \in 1..n
    BY <1>11, <1>12
  <2>2. g[s \ {Max(s)}] \in P[s \ {Max(s)}]
    BY <1>10, <2>1 DEF EsPliegue
  <2>3. g[s \ {Max(s)}] \in ArchivoDeBloques
    BY <1>7, <2>1, <2>2, Zenon
  <2>. QED
    BY <1>8, <2>1, <2>3
<1> DEFINE G(f) == f = [s \in SUBSET (1..n) |->
                          IF s = {} THEN bs ELSE Op(f[s \ {Max(s)}], Max(s))]
<1>13. G(g)
  <2>1. g = [s \in SUBSET (1..n) |-> g[s]]
    BY <1>10 DEF EsPliegue
  <2>2. ASSUME NEW s \in SUBSET (1..n)
        PROVE  g[s] = IF s = {} THEN bs ELSE Op(g[s \ {Max(s)}], Max(s))
    BY <1>10, <1>12 DEF EsPliegue
  <2>. QED
    BY <2>1, <2>2
<1>14. FoldLeftDomain(Op, bs, ds) = (CHOOSE f : G(f))[1..n]
  <2> DEFINE id == [i \in DOMAIN ds |-> i]
  <2>1. FoldLeftDomain(Op, bs, ds) =
           (CHOOSE f : f = [s \in SUBSET DOMAIN id |->
                             IF s = {} THEN bs
                             ELSE Op(f[s \ {Max(s)}], id[Max(s)])])[DOMAIN id]
    BY DEF FoldLeftDomain, FoldLeft, MapThenFoldSet
  <2>2. DOMAIN id = 1..n
    BY <1>1
  <2>3. \A s \in SUBSET (1..n) : s # {} => id[Max(s)] = Max(s)
    BY <1>1, <1>11
  <2> HIDE DEF id
  <2>4. ASSUME NEW f
        PROVE  [s \in SUBSET (1..n) |-> IF s = {} THEN bs ELSE Op(f[s \ {Max(s)}], id[Max(s)])]
             = [s \in SUBSET (1..n) |-> IF s = {} THEN bs ELSE Op(f[s \ {Max(s)}], Max(s))]
    <3>1. \A s \in SUBSET (1..n) :
             (IF s = {} THEN bs ELSE Op(f[s \ {Max(s)}], id[Max(s)]))
             = (IF s = {} THEN bs ELSE Op(f[s \ {Max(s)}], Max(s)))
      BY <2>3
    <3>. QED
      BY <3>1
  <2> DEFINE G2(f) == f = [s \in SUBSET (1..n) |->
                          IF s = {} THEN bs ELSE Op(f[s \ {Max(s)}], id[Max(s)])]
  <2>5. \A f : G2(f) <=> G(f)
    BY <2>4
  <2>6. FoldLeftDomain(Op, bs, ds) = (CHOOSE f : G2(f))[1..n]
    BY <2>1, <2>2
  <2> HIDE DEF G, G2
  <2>7. (CHOOSE f : G2(f)) = (CHOOSE f : G(f))
    BY <2>5
  <2>. QED
    BY <2>6, <2>7
<1> HIDE DEF G
<1>15. PICK f : G(f) /\ FoldLeftDomain(Op, bs, ds) = f[1..n]
  BY <1>13, <1>14
<1>16. ASSUME NEW s \in SUBSET (1..n)
       PROVE  /\ s = {} => f[s] = bs
              /\ s # {} => f[s] = Op(f[s \ {Max(s)}], Max(s))
  BY <1>15 DEF G
<1>17. f[1..n] \in P[1..n]
  <2>1. f[{}] \in P[{}]
    <3>1. {} \in SUBSET (1..n)
      OBVIOUS
    <3>2. f[{}] = bs
      BY <1>16, <3>1, Zenon
    <3>. QED
      BY <1>6, <1>9, <3>1, <3>2, Zenon
  <2>2. ASSUME NEW s \in SUBSET (1..n), s # {}, f[s \ {Max(s)}] \in P[s \ {Max(s)}]
        PROVE  f[s] \in P[s]
    <3> DEFINE r == s \ {Max(s)}
               k == Max(s)
    <3>1. r \in SUBSET (1..n) /\ k \in 1..n /\ k \notin r /\ r \cup {k} = s
      BY <1>11, <2>2
    <3>2. f[s] = Op(f[r], k) /\ f[r] \in P[r]
      BY <1>16, <2>2
    <3> HIDE DEF r, k
    <3>3. Hasta(f[r], r)
      BY <1>7, <3>1, <3>2, Zenon
    <3>4. Hasta(Op(f[r], k), r \cup {k})
      BY <1>5, <3>1, <3>3
    <3>. QED
      BY <1>9, <3>1, <3>2, <3>4
  <2>. QED
    BY <1>1, <2>1, <2>2, PliegueDentro
<1>18. Hasta(FoldLeftDomain(Op, bs, ds), 1..n)
  <2>1. 1..n \in SUBSET (1..n)
    OBVIOUS
  <2>. QED
    BY <1>7, <1>15, <1>17, <2>1, Zenon
<1> DEFINE final == EscribirBuffer(bs, ds, buffer)
<1>19. Hasta(final, 1..n)
  BY <1>4, <1>18
<1> HIDE DEF final
<1>20. /\ final \in ArchivoDeBloques
       /\ \A k \in 1..n : final[ds[k]] = Parte(k)
       /\ \A x \in Bloque : (\A k \in 1..n : ds[k] # x) => final[x] = bs[x]
  BY <1>19 DEF Hasta
<1>21. \A k \in 1..n, j \in 1..BLOCK_SIZE : final[ds[k]][j] = buffer[(k - 1) * BLOCK_SIZE + j]
  BY <1>2, <1>20
<1>. QED
  BY <1>20, <1>21 DEF final, n

-----------------------------------------------------------------------------
(* The words of a file *)

\* The words of an FCB with these pointers on a disk with blocks bs.
ContenidoDe(fcb, ps, bs) ==
    IF fcb.tamanio = 0 THEN <<>>
    ELSE bs[fcb.directo] \o FlattenSeq([i \in DOMAIN ps |-> bs[ps[i]]])

\* Word j of the block in place k is word k * BLOCK_SIZE + j of the file.
LEMMA PalabrasDelArchivo ==
    ASSUME NEW fcb, NEW ps, BienFormado(fcb, ps), NEW bs, bs \in ArchivoDeBloques
    PROVE  /\ ContenidoDe(fcb, ps, bs) \in Seq(Palabra)
           /\ Len(ContenidoDe(fcb, ps, bs)) = Asignados(fcb) * BLOCK_SIZE
           /\ \A k \in 0..(Asignados(fcb) - 1), j \in 1..BLOCK_SIZE :
                 ContenidoDe(fcb, ps, bs)[k * BLOCK_SIZE + j] = bs[BloqueEn(fcb, ps, k)][j]
<1> DEFINE n == Asignados(fcb)
           b == BLOCK_SIZE
           c == ContenidoDe(fcb, ps, bs)
<1>1. b \in Nat \ {0} /\ n \in Nat /\ FcbEntero(fcb) /\ (fcb.tamanio = 0 <=> n = 0)
  <2>1. FcbEntero(fcb)
    BY DEF BienFormado
  <2>. QED
    BY <2>1, FileSystemAssumption, TamanioDe
<1>2. CASE n = 0
  <2>1. c = <<>>
    BY <1>1, <1>2 DEF ContenidoDe
  <2>2. n * b = 0 /\ 0..(n - 1) = {} /\ Len(<<>>) = 0
    BY <1>1, <1>2
  <2>3. <<>> \in Seq(Palabra)
    OBVIOUS
  <2> HIDE DEF c, n
  <2>4. c \in Seq(Palabra) /\ Len(c) = n * b
        /\ \A k \in 0..(n - 1), j \in 1..b : c[k * b + j] = bs[BloqueEn(fcb, ps, k)][j]
    BY <2>1, <2>2, <2>3, Zenon
  <2>. QED
    BY <2>4 DEF c, n
<1>3. CASE n # 0
  <2> DEFINE u == bs[fcb.directo]
             seqs == [i \in DOMAIN ps |-> bs[ps[i]]]
             v == FlattenSeq(seqs)
             q == (n - 1) * b
  <2>1. ps \in Seq(Bloque) /\ Len(ps) = n - 1 /\ fcb.directo \in Bloque
    BY <1>1, <1>3 DEF BienFormado
  <2>2. c = u \o v
    BY <1>1, <1>3 DEF ContenidoDe
  <2>3. u \in [1..b -> Palabra] /\ u \in Seq(Palabra) /\ Len(u) = b
    <3>1. u \in [1..b -> Palabra]
      BY <2>1 DEF ArchivoDeBloques
    <3> HIDE DEF u
    <3>. QED
      BY <1>1, <3>1
  <2>4. /\ seqs \in Seq([1..b -> Palabra]) /\ Len(seqs) = n - 1
        /\ \A i \in 1..(n - 1) : seqs[i] = bs[ps[i]]
    <3>1. DOMAIN ps = 1..(n - 1) /\ n - 1 \in Nat /\ \A i \in 1..(n - 1) : ps[i] \in Bloque
      BY <1>1, <1>3, <2>1, LenProperties, ElementOfSeq
    <3>2. seqs \in [1..(n - 1) -> [1..b -> Palabra]]
      BY <3>1 DEF ArchivoDeBloques
    <3>3. \A i \in 1..(n - 1) : seqs[i] = bs[ps[i]]
      BY <3>1
    <3> HIDE DEF seqs, n
    <3>. QED
      BY <3>1, <3>2, <3>3
  <2>5. /\ v \in Seq(Palabra) /\ Len(v) = q
        /\ \A k \in 0..(n - 2), j \in 1..b : v[k * b + j] = bs[ps[k + 1]][j]
    <3> HIDE DEF seqs, b
    <3>1. /\ FlattenSeq(seqs) \in Seq(Palabra)
          /\ Len(FlattenSeq(seqs)) = Len(seqs) * b
          /\ \A k \in 0..(Len(seqs) - 1), j \in 1..b :
                FlattenSeq(seqs)[k * b + j] = seqs[k + 1][j]
      <4>1. b \in Nat \ {0} /\ seqs \in Seq([1..b -> Palabra])
        BY <1>1, <2>4
      <4>2. \A B \in Nat \ {0} : \A S : \A s \in Seq([1..B -> S]) :
               /\ FlattenSeq(s) \in Seq(S)
               /\ Len(FlattenSeq(s)) = Len(s) * B
               /\ \A k \in 0..(Len(s) - 1), j \in 1..B : FlattenSeq(s)[k * B + j] = s[k + 1][j]
        BY Aplana, Zenon
      <4>3. \A S : \A s \in Seq([1..b -> S]) :
               /\ FlattenSeq(s) \in Seq(S)
               /\ Len(FlattenSeq(s)) = Len(s) * b
               /\ \A k \in 0..(Len(s) - 1), j \in 1..b : FlattenSeq(s)[k * b + j] = s[k + 1][j]
        BY <4>1, <4>2, Zenon
      <4>4. \A s \in Seq([1..b -> Palabra]) :
               /\ FlattenSeq(s) \in Seq(Palabra)
               /\ Len(FlattenSeq(s)) = Len(s) * b
               /\ \A k \in 0..(Len(s) - 1), j \in 1..b : FlattenSeq(s)[k * b + j] = s[k + 1][j]
        BY <4>3, Zenon
      <4>. QED
        BY <4>1, <4>4, Zenon
    <3> HIDE DEF v
    <3>2. \A k \in 0..(n - 2) : k \in 0..(Len(seqs) - 1) /\ k + 1 \in 1..(n - 1)
      BY <1>1, <2>4
    <3>. QED
      BY <2>4, <3>1, <3>2 DEF v
  <2>6. n * b = q + b /\ q \in Nat
    <3>1. n - 1 \in Nat /\ n \in Nat
      BY <1>1, <1>3
    <3>. QED
      BY <1>1, <3>1, <1>3, Division
  <2> HIDE DEF u, v, q, seqs
  <2>7. /\ u \o v \in Seq(Palabra) /\ Len(u \o v) = b + q
        /\ \A x \in 1..(b + q) : (u \o v)[x] = IF x <= b THEN u[x] ELSE v[x - b]
    <3>1. /\ u \o v \in Seq(Palabra) /\ Len(u \o v) = Len(u) + Len(v)
          /\ \A x \in 1..(Len(u) + Len(v)) :
                (u \o v)[x] = IF x <= Len(u) THEN u[x] ELSE v[x - Len(u)]
      BY <2>3, <2>5, ConcatProperties
    <3>. QED
      BY <2>3, <2>5, <3>1
  <2>8. ASSUME NEW k \in 0..(n - 1), NEW j \in 1..b
        PROVE  (u \o v)[k * b + j] = bs[BloqueEn(fcb, ps, k)][j]
    <3>1. CASE k = 0
      <4>1. k * b + j = j /\ j \in 1..(b + q) /\ j <= b
        BY <1>1, <2>6, <3>1
      <4>. QED
        BY <2>7, <3>1, <4>1 DEF u, BloqueEn
    <3>2. CASE k # 0
      <4>1. k - 1 \in 0..(n - 2) /\ k \in Nat /\ k <= n - 1 /\ n - 1 \in Nat /\ (k - 1) + 1 = k
        BY <1>1, <1>3, <3>2
      <4> DEFINE p == (k - 1) * b
      <4>2. k * b = p + b /\ p \in Nat /\ p + b <= q
        <5>1. k * b = p + b /\ p \in Nat
          BY <1>1, <3>2, <4>1, Division
        <5>2. k * b <= (n - 1) * b
          BY <1>1, <4>1, DivisionOrden
        <5>. QED
          BY <5>1, <5>2 DEF q
      <4> DEFINE x == k * b + j
      <4>3. x \in 1..(b + q) /\ ~(x <= b) /\ x - b = p + j
        <5>1. x = p + b + j
          BY <4>2
        <5> HIDE DEF p, x
        <5>. QED
          BY <1>1, <2>6, <4>2, <5>1
      <4>4. v[p + j] = bs[ps[(k - 1) + 1]][j]
        BY <2>5, <4>1
      <4>5. BloqueEn(fcb, ps, k) = ps[k]
        BY <3>2, <4>1 DEF BloqueEn
      <4> HIDE DEF p, x
      <4>6. (u \o v)[x] = v[x - b]
        BY <2>7, <4>3
      <4>7. (u \o v)[x] = bs[BloqueEn(fcb, ps, k)][j]
        BY <4>1, <4>3, <4>4, <4>5, <4>6
      <4>. QED
        BY <4>7 DEF x
    <3>. QED
      BY <3>1, <3>2
  <2>9. b + q = n * b
    BY <1>1, <2>6
  <2> HIDE DEF c, n
  <2>. QED
    BY <2>2, <2>7, <2>8, <2>9 DEF c, n
<1>. QED
  BY <1>2, <1>3

\* Every position of a file is in one of its blocks.
LEMMA PosicionEnBloque ==
    ASSUME NEW n \in Nat, NEW i \in 1..(n * BLOCK_SIZE)
    PROVE  \E k \in 0..(n - 1), j \in 1..BLOCK_SIZE : i = k * BLOCK_SIZE + j
<1> DEFINE b == BLOCK_SIZE
           q == (i - 1) \div b
           r == (i - 1) % b
           m == n * b
           p == q * b
<1>1. b \in Nat \ {0}
  BY FileSystemAssumption
<1>2. m \in Nat
  BY <1>1, Division
<1>3. i - 1 \in Nat /\ i \in Nat /\ i <= m
  <2>1. i \in 1..m
    OBVIOUS
  <2> HIDE DEF m
  <2>. QED
    BY <1>2, <2>1
<1>4. q \in Nat /\ r \in 0..(b - 1) /\ i - 1 = p + r
  BY <1>1, <1>3, DivisionEntera
<1>5. p \in Nat
  BY <1>1, <1>4, Division
<1> HIDE DEF q, r, m, p, b
<1>6. p < m /\ r + 1 \in 1..b /\ i = p + (r + 1)
  BY <1>1, <1>2, <1>3, <1>4, <1>5
<1>7. q < n
  <2>1. q * b < n * b
    BY <1>6 DEF p, m
  <2>. QED
    BY <1>1, <1>4, <2>1, DivisionOrden
<1>8. q \in 0..(n - 1)
  BY <1>4, <1>7
<1>. QED
  BY <1>6, <1>8 DEF p, b

\* The first n blocks of c and d have the same words.
MismoComienzo(c, d, n) ==
    \A k \in 0..(n - 1), j \in 1..BLOCK_SIZE : c[k * BLOCK_SIZE + j] = d[k * BLOCK_SIZE + j]

\* A file that has the blocks of another and maybe more begins with its words; after them
\* come those of the others.
LEMMA Prefijo ==
    ASSUME NEW n \in Nat, NEW m \in Nat, n <= m,
           NEW c \in Seq(Palabra), Len(c) = n * BLOCK_SIZE,
           NEW d \in Seq(Palabra), Len(d) = m * BLOCK_SIZE, MismoComienzo(c, d, n)
    PROVE  /\ IsPrefix(c, d)
           /\ n = m => c = d
           /\ (\A k \in n..(m - 1), j \in 1..BLOCK_SIZE : d[k * BLOCK_SIZE + j] = 0) =>
                 \A i \in (Len(c) + 1)..Len(d) : d[i] = 0
<1> USE DEF MismoComienzo
<1> DEFINE b == BLOCK_SIZE
<1>1. b \in Nat \ {0} /\ n * b \in Nat /\ m * b \in Nat /\ n * b <= m * b
  <2>1. b \in Nat \ {0}
    BY FileSystemAssumption
  <2>. QED
    BY <2>1, Division, DivisionOrden
<1>2. \A i \in 1..(n * b) : c[i] = d[i]
  <2>1. ASSUME NEW i \in 1..(n * b)
        PROVE  c[i] = d[i]
    <3>1. PICK k \in 0..(n - 1), j \in 1..b : i = k * b + j
      BY PosicionEnBloque
    <3>. QED
      BY <3>1
  <2>. QED
    BY <2>1
<1>3. IsPrefix(c, d)
  <2> DEFINE l == n * b
             t == m * b
  <2>1. l \in Nat /\ t \in Nat /\ l <= t /\ Len(c) = l /\ Len(d) = t
    BY <1>1
  <2>2. \A i \in 1..l : c[i] = d[i]
    BY <1>2
  <2> HIDE DEF l, t
  <2>3. SubSeq(c, 1, l) = [i \in 1..l |-> c[i]] /\ SubSeq(d, 1, l) = [i \in 1..l |-> d[i]]
    BY <2>1
  <2>4. SubSeq(c, 1, l) = SubSeq(d, 1, l)
    BY <2>2, <2>3
  <2>. QED
    BY <2>1, <2>4 DEF IsPrefix
<1>4. n = m => c = d
  BY <1>2, SeqEqual
<1>5. ASSUME \A k \in n..(m - 1), j \in 1..b : d[k * b + j] = 0,
             NEW i \in (n * b + 1)..(m * b)
      PROVE  d[i] = 0
  <2> DEFINE l == n * b
             t == m * b
  <2>1. i \in (l + 1)..t /\ l \in Nat /\ t \in Nat
    BY <1>1
  <2>2. i \in 1..t
    <3> HIDE DEF l, t
    <3>. QED
      BY <2>1
  <2>3. PICK k \in 0..(m - 1), j \in 1..b : i = k * b + j
    BY <2>2, PosicionEnBloque
  <2>4. ~(k < n)
    <3>1. ASSUME k < n
          PROVE  FALSE
      <4>1. k * b + b <= n * b /\ k * b \in Nat
        BY <1>1, <3>1, Division, DivisionOrden
      <4> DEFINE p == k * b
      <4>2. p + b <= l /\ p \in Nat /\ i = p + j
        BY <2>3, <4>1
      <4> HIDE DEF p, l, t
      <4>. QED
        BY <1>1, <2>1, <4>2
    <3>. QED
      BY <3>1
  <2>5. k \in n..(m - 1)
    BY <2>4
  <2>. QED
    BY <1>5, <2>3, <2>5
<1>. QED
  BY <1>3, <1>4, <1>5

-----------------------------------------------------------------------------
(* The map of the blocks *)

\* The map, place by place.
LEMMA MapaPuntual ==
    /\ DOMAIN Mapa = DOMAIN lista_fcb
    /\ \A f \in DOMAIN lista_fcb :
          /\ DOMAIN Mapa[f] = Lugares(lista_fcb[f])
          /\ \A k \in Lugares(lista_fcb[f]) : Mapa[f][k] = BloqueEn(lista_fcb[f], Punteros(f), k)
  BY DEF Mapa

\* The same, after a step.
LEMMA MapaPuntualSig ==
    /\ DOMAIN Mapa' = DOMAIN lista_fcb'
    /\ \A f \in DOMAIN lista_fcb' :
          /\ DOMAIN Mapa'[f] = Lugares(lista_fcb'[f])
          /\ \A k \in Lugares(lista_fcb'[f]) :
                Mapa'[f][k] = BloqueEn(lista_fcb'[f], Punteros(f)', k)
  BY DEF Mapa

\* Where the pointers of a file are.
LEMMA PunterosPuntual ==
    ASSUME NEW f
    PROVE  /\ EnCurso(f) => Punteros(f) = pedido.punteros
           /\ ~EnCurso(f) => Punteros(f) = PunterosEn(bloques, lista_fcb[f])
           /\ PunterosIndirectos(lista_fcb[f]) = PunterosEn(bloques, lista_fcb[f])
           /\ PunterosIndirectos(fcb_en_disco[f]) = PunterosEn(bloques, fcb_en_disco[f])
  BY DEF Punteros, PunterosIndirectos, PunterosEn

\* The same, after a step.
LEMMA PunterosPuntualSig ==
    ASSUME NEW f
    PROVE  /\ EnCurso(f)' => Punteros(f)' = pedido'.punteros
           /\ ~EnCurso(f)' => Punteros(f)' = PunterosEn(bloques', lista_fcb'[f])
           /\ PunterosIndirectos(lista_fcb[f])' = PunterosEn(bloques', lista_fcb'[f])
           /\ PunterosIndirectos(fcb_en_disco[f])' = PunterosEn(bloques', fcb_en_disco'[f])
  BY DEF Punteros, PunterosIndirectos, PunterosEn

\* The pointers depend only on the block of pointers.
LEMMA MismosPunteros ==
    ASSUME NEW fcb, FcbEntero(fcb), NEW bs, NEW cs,
           Asignados(fcb) > 1 => cs[fcb.indirecto] = bs[fcb.indirecto]
    PROVE  PunterosEn(cs, fcb) = PunterosEn(bs, fcb)
<1>1. fcb.tamanio <= BLOCK_SIZE <=> Asignados(fcb) <= 1
  BY TamanioDe
<1>2. Asignados(fcb) \in Nat
  BY TamanioDe
<1>3. CASE fcb.tamanio <= BLOCK_SIZE
  BY <1>3 DEF PunterosEn
<1>4. CASE ~(fcb.tamanio <= BLOCK_SIZE)
  <2>1. cs[fcb.indirecto] = bs[fcb.indirecto]
    BY <1>1, <1>2, <1>4
  <2>. QED
    BY <2>1 DEF PunterosEn
<1>. QED
  BY <1>3, <1>4

\* The places of a file with so many blocks.
LEMMA LugaresDe ==
    ASSUME NEW fcb, FcbEntero(fcb)
    PROVE  /\ Asignados(fcb) \in Nat
           /\ Lugares(fcb) \subseteq Int
           /\ \A k : k \in Lugares(fcb) <=>
                 \/ k \in 0..(Asignados(fcb) - 1)
                 \/ k = -1 /\ Asignados(fcb) > 1
<1>1. Asignados(fcb) \in Nat
  BY TamanioDe
<1>. QED
  BY <1>1 DEF Lugares

\* The blocks in the places of a file.
LEMMA BloquesEnLugares ==
    ASSUME NEW fcb, NEW ps, BienFormado(fcb, ps)
    PROVE  /\ \A k \in Lugares(fcb) : BloqueEn(fcb, ps, k) \in Bloque
           /\ BloqueEn(fcb, ps, 0) = fcb.directo
           /\ BloqueEn(fcb, ps, -1) = fcb.indirecto
           /\ \A i \in 1..Len(ps) : BloqueEn(fcb, ps, i) = ps[i] /\ i \in Lugares(fcb)
<1>1. FcbEntero(fcb) /\ ps \in Seq(Bloque) /\ Asignados(fcb) \in Nat
  BY TamanioDe DEF BienFormado
<1>2. \A i \in 1..Len(ps) : ps[i] \in Bloque
  BY <1>1, ElementOfSeq
<1>3. \A i \in 1..Len(ps) : i \in 1..(Asignados(fcb) - 1) /\ i \in Lugares(fcb)
  BY <1>1, LugaresDe DEF BienFormado
<1>4. ASSUME NEW k \in Lugares(fcb)
      PROVE  BloqueEn(fcb, ps, k) \in Bloque
  <2>1. k \in 0..(Asignados(fcb) - 1) \/ (k = -1 /\ Asignados(fcb) > 1)
    BY <1>1, LugaresDe
  <2>2. CASE k = 0
    BY <2>2 DEF BloqueEn, BienFormado
  <2>3. CASE k = -1 /\ Asignados(fcb) > 1
    BY <2>3 DEF BloqueEn, BienFormado
  <2>4. CASE k # 0 /\ k \in 0..(Asignados(fcb) - 1)
    <3>1. k \in 1..Len(ps)
      BY <1>1, <2>4 DEF BienFormado
    <3>. QED
      BY <1>2, <2>4, <3>1 DEF BloqueEn
  <2>. QED
    BY <2>1, <2>2, <2>3, <2>4
<1>5. \A i \in 1..Len(ps) : BloqueEn(fcb, ps, i) = ps[i]
  BY <1>3 DEF BloqueEn
<1>. QED
  BY <1>3, <1>4, <1>5 DEF BloqueEn

\* Part of a map without sharing.
LEMMA MapaMenor ==
    ASSUME NEW M, Repartidos(M), NEW N,
           \A f \in DOMAIN N : \A k \in DOMAIN N[f] :
              f \in DOMAIN M /\ k \in DOMAIN M[f] /\ N[f][k] = M[f][k]
    PROVE  Repartidos(N)
  BY DEF Repartidos

\* N adds to M only blocks that are not in use, in new places of one file.
Amplia(M, N, f, nuevos, usados) ==
    /\ \A g \in DOMAIN N : \A k \in DOMAIN N[g] :
          \/ g \in DOMAIN M /\ k \in DOMAIN M[g] /\ N[g][k] = M[g][k]
          \/ g = f /\ k \in nuevos /\ N[g][k] \notin usados
    /\ \A j, k \in nuevos : N[f][j] = N[f][k] => j = k

\* A map without sharing stays so with free blocks in new places.
LEMMA MapaMayor ==
    ASSUME NEW M, NEW usados, Repartidos(M), Reservados(M, usados), NEW N, NEW f, NEW nuevos,
           Amplia(M, N, f, nuevos, usados)
    PROVE  Repartidos(N)
<1> USE DEF Amplia
<1>1. ASSUME NEW g \in DOMAIN N, NEW h \in DOMAIN N, NEW j \in DOMAIN N[g], NEW k \in DOMAIN N[h],
             N[g][j] = N[h][k]
      PROVE  g = h /\ j = k
  <2>1. CASE /\ g \in DOMAIN M /\ j \in DOMAIN M[g] /\ N[g][j] = M[g][j]
             /\ h \in DOMAIN M /\ k \in DOMAIN M[h] /\ N[h][k] = M[h][k]
    <3>1. M[g][j] = M[h][k]
      BY <1>1, <2>1
    <3>. QED
      BY <2>1, <3>1 DEF Repartidos
  <2>2. CASE /\ g \in DOMAIN M /\ j \in DOMAIN M[g] /\ N[g][j] = M[g][j]
             /\ N[h][k] \notin usados
    BY <1>1, <2>2 DEF Reservados
  <2>3. CASE /\ h \in DOMAIN M /\ k \in DOMAIN M[h] /\ N[h][k] = M[h][k]
             /\ N[g][j] \notin usados
    BY <1>1, <2>3 DEF Reservados
  <2>4. CASE g = f /\ j \in nuevos /\ h = f /\ k \in nuevos
    BY <1>1, <2>4
  <2>. QED
    BY <2>1, <2>2, <2>3, <2>4
<1>. QED
  BY <1>1 DEF Repartidos

\* The block in each place is on the disk and is reserved.
LEMMA BloquesDelMapa ==
    ASSUME Tipos, Sano, NEW f \in DOMAIN lista_fcb
    PROVE  /\ BienFormado(lista_fcb[f], Punteros(f))
           /\ \A k \in Lugares(lista_fcb[f]) : Mapa[f][k] \in Bloque /\ Mapa[f][k] \in ocupados
           /\ Asignados(lista_fcb[f]) > 0 => Mapa[f][0] = lista_fcb[f].directo
           /\ Asignados(lista_fcb[f]) > 1 => Mapa[f][-1] = lista_fcb[f].indirecto
           /\ \A i \in 1..Len(Punteros(f)) :
                 i \in Lugares(lista_fcb[f]) /\ Mapa[f][i] = Punteros(f)[i]
<1>1. BienFormado(lista_fcb[f], Punteros(f)) /\ Reservados(Mapa, ocupados)
  BY DEF Sano
<1>2. FcbEntero(lista_fcb[f])
  BY <1>1 DEF BienFormado
<1>3. /\ Asignados(lista_fcb[f]) > 0 => 0 \in Lugares(lista_fcb[f])
      /\ Asignados(lista_fcb[f]) > 1 => -1 \in Lugares(lista_fcb[f])
  BY <1>2, LugaresDe
<1>. QED
  BY <1>1, <1>3, BloquesEnLugares, MapaPuntual DEF Reservados

\* A file that nobody asks about keeps its blocks when its block of pointers is not written.
LEMMA OtroQuieto ==
    ASSUME Tipos, Sano, NEW g \in DOMAIN lista_fcb, ~Pedida(g), ~Pedida(g)',
           g \in DOMAIN lista_fcb', lista_fcb'[g] = lista_fcb[g],
           Asignados(lista_fcb[g]) > 1 => bloques'[Mapa[g][-1]] = bloques[Mapa[g][-1]]
    PROVE  /\ Punteros(g)' = Punteros(g)
           /\ BienFormado(lista_fcb'[g], Punteros(g)')
           /\ DOMAIN Mapa'[g] = DOMAIN Mapa[g]
           /\ \A k \in DOMAIN Mapa[g] : Mapa'[g][k] = Mapa[g][k]
<1>1. Punteros(g) = PunterosEn(bloques, lista_fcb[g])
  BY PunterosPuntual DEF Pedida, EnCurso
<1>2. Punteros(g)' = PunterosEn(bloques', lista_fcb[g])
  BY PunterosPuntualSig DEF Pedida, EnCurso
<1>3. BienFormado(lista_fcb[g], Punteros(g)) /\ FcbEntero(lista_fcb[g])
  BY BloquesDelMapa DEF BienFormado
<1>4. Asignados(lista_fcb[g]) > 1 => Mapa[g][-1] = lista_fcb[g].indirecto
  BY BloquesDelMapa
<1>5. Punteros(g)' = Punteros(g)
  BY <1>1, <1>2, <1>3, <1>4, MismosPunteros
<1>6. /\ DOMAIN Mapa[g] = Lugares(lista_fcb[g])
      /\ \A k \in Lugares(lista_fcb[g]) : Mapa[g][k] = BloqueEn(lista_fcb[g], Punteros(g), k)
  BY MapaPuntual
<1>7. /\ DOMAIN Mapa'[g] = Lugares(lista_fcb[g])
      /\ \A k \in Lugares(lista_fcb[g]) : Mapa'[g][k] = BloqueEn(lista_fcb[g], Punteros(g)', k)
  BY MapaPuntualSig
<1>. QED
  BY <1>3, <1>5, <1>6, <1>7

-----------------------------------------------------------------------------
(* Files that grow *)

\* File f, whose request is growing it, gets free blocks in new places.
TomaBloques(f, nuevos) ==
    /\ f = pedido.archivo /\ pedido # SinPedido /\ ~pedido.reduce
    /\ pedido' # SinPedido /\ pedido'.archivo = f /\ pedido'.fase = "aumentar"
    /\ pedido'.reduce = FALSE
    /\ DOMAIN lista_fcb' = DOMAIN lista_fcb /\ fcb_en_disco' = fcb_en_disco
    /\ \A g \in DOMAIN lista_fcb : g # f => lista_fcb'[g] = lista_fcb[g]
    /\ \A x \in ocupados : bloques'[x] = bloques[x]
    /\ BienFormado(lista_fcb'[f], Punteros(f)')
    /\ \A k : k \in Lugares(lista_fcb'[f]) <=> k \in Lugares(lista_fcb[f]) \/ k \in nuevos
    /\ \A k \in Lugares(lista_fcb[f]) : BloqueEn(lista_fcb'[f], Punteros(f)', k) = Mapa[f][k]
    /\ \A k \in nuevos : BloqueEn(lista_fcb'[f], Punteros(f)', k) \notin ocupados
    /\ \A j, k \in nuevos :
          BloqueEn(lista_fcb'[f], Punteros(f)', j) = BloqueEn(lista_fcb'[f], Punteros(f)', k)
             => j = k
    /\ \A b : b \in ocupados' <=>
                 \/ b \in ocupados
                 \/ \E k \in nuevos : b = BloqueEn(lista_fcb'[f], Punteros(f)', k)
    /\ danio' = danio
    /\ Asignados(lista_fcb'[f]) + pedido'.faltan <= 1 + BLOCK_SIZE
    /\ pedido'.sincronizar => Asignados(lista_fcb'[f]) > 1
    /\ ~pedido'.sincronizar => pedido'.punteros = PunterosEn(bloques', lista_fcb'[f])

\* Then the disk is still what the code believes, and the other files keep their blocks.
LEMMA SanoAlCrecer ==
    ASSUME Tipos, Sano, NEW f, NEW nuevos, TomaBloques(f, nuevos)
    PROVE  /\ Sano'
           /\ \A g \in DOMAIN lista_fcb : g # f =>
                 /\ Punteros(g)' = Punteros(g)
                 /\ DOMAIN Mapa'[g] = DOMAIN Mapa[g]
                 /\ \A k \in DOMAIN Mapa[g] : Mapa'[g][k] = Mapa[g][k]
<1> USE DEF TomaBloques
<1> DEFINE fcb == lista_fcb[f]
           antes == fcb_en_disco[f]
           ps == PunterosEn(bloques, antes)
<1>1. f \in DOMAIN lista_fcb
  BY DEF Tipos
<1>2. ASSUME NEW g \in DOMAIN lista_fcb, g # f
      PROVE  /\ BienFormado(lista_fcb'[g], Punteros(g)')
             /\ Punteros(g)' = Punteros(g)
             /\ DOMAIN Mapa'[g] = DOMAIN Mapa[g]
             /\ \A k \in DOMAIN Mapa[g] : Mapa'[g][k] = Mapa[g][k]
  <2>1. ~Pedida(g) /\ ~Pedida(g)'
    BY <1>2 DEF Pedida
  <2>2. FcbEntero(lista_fcb[g])
    BY DEF Tipos
  <2>3. Asignados(lista_fcb[g]) > 1 => Mapa[g][-1] \in ocupados
    BY <2>2, BloquesDelMapa, LugaresDe
  <2>. QED
    BY <1>2, <2>1, <2>3, OtroQuieto
<1>3. /\ DOMAIN Mapa' = DOMAIN lista_fcb /\ DOMAIN Mapa = DOMAIN lista_fcb
      /\ DOMAIN Mapa[f] = Lugares(fcb)
      /\ DOMAIN Mapa'[f] = Lugares(lista_fcb'[f])
      /\ \A k \in Lugares(lista_fcb'[f]) :
            Mapa'[f][k] = BloqueEn(lista_fcb'[f], Punteros(f)', k)
  BY <1>1, MapaPuntual, MapaPuntualSig
<1>4. /\ \A k \in DOMAIN Mapa[f] : k \in DOMAIN Mapa'[f] /\ Mapa'[f][k] = Mapa[f][k]
      /\ \A k \in nuevos : /\ k \in DOMAIN Mapa'[f]
                           /\ Mapa'[f][k] = BloqueEn(lista_fcb'[f], Punteros(f)', k)
      /\ \A k \in DOMAIN Mapa'[f] : k \in DOMAIN Mapa[f] \/ k \in nuevos
  BY <1>3
<1>5. Repartidos(Mapa) /\ Reservados(Mapa, ocupados)
  BY DEF Sano
<1>6. \A g \in DOMAIN Mapa' : \A k \in DOMAIN Mapa'[g] :
         \/ g \in DOMAIN Mapa /\ k \in DOMAIN Mapa[g] /\ Mapa'[g][k] = Mapa[g][k]
         \/ g = f /\ k \in nuevos /\ Mapa'[g][k] \notin ocupados
  <2>1. ASSUME NEW g \in DOMAIN Mapa', NEW k \in DOMAIN Mapa'[g]
        PROVE  \/ g \in DOMAIN Mapa /\ k \in DOMAIN Mapa[g] /\ Mapa'[g][k] = Mapa[g][k]
               \/ g = f /\ k \in nuevos /\ Mapa'[g][k] \notin ocupados
    <3>1. CASE g = f
      BY <1>1, <1>3, <1>4, <2>1, <3>1
    <3>2. CASE g # f
      BY <1>2, <1>3, <2>1, <3>2
    <3>. QED
      BY <3>1, <3>2
  <2>. QED
    BY <2>1
<1>7. Repartidos(Mapa')
  <2>1. \A j, k \in nuevos : Mapa'[f][j] = Mapa'[f][k] => j = k
    BY <1>4
  <2>2. Amplia(Mapa, Mapa', f, nuevos, ocupados)
    BY <1>6, <2>1 DEF Amplia
  <2>. QED
    BY <1>5, <2>2, MapaMayor
<1>8. Reservados(Mapa', ocupados')
  <2>1. ASSUME NEW g \in DOMAIN Mapa', NEW k \in DOMAIN Mapa'[g]
        PROVE  Mapa'[g][k] \in ocupados'
    <3>1. CASE g \in DOMAIN Mapa /\ k \in DOMAIN Mapa[g] /\ Mapa'[g][k] = Mapa[g][k]
      BY <1>5, <3>1 DEF Reservados
    <3>2. CASE g = f /\ k \in nuevos
      BY <1>4, <3>2
    <3>. QED
      BY <1>6, <2>1, <3>1, <3>2
  <2>. QED
    BY <2>1 DEF Reservados
<1>9. danio' = "ninguno" => SinFugas(Mapa', ocupados')
  <2>1. ASSUME danio' = "ninguno", NEW b \in ocupados'
        PROVE  \E g \in DOMAIN Mapa' : \E k \in DOMAIN Mapa'[g] : b = Mapa'[g][k]
    <3>1. CASE b \in ocupados
      <4>1. SinFugas(Mapa, ocupados)
        BY <2>1 DEF Sano
      <4>2. PICK g \in DOMAIN Mapa : \E k \in DOMAIN Mapa[g] : b = Mapa[g][k]
        BY <3>1, <4>1 DEF SinFugas
      <4>3. PICK k \in DOMAIN Mapa[g] : b = Mapa[g][k]
        BY <4>2
      <4>4. g \in DOMAIN Mapa' /\ k \in DOMAIN Mapa'[g] /\ Mapa'[g][k] = Mapa[g][k]
        BY <1>2, <1>3, <1>4
      <4>. QED
        BY <4>3, <4>4
    <3>2. CASE \E k \in nuevos : b = BloqueEn(lista_fcb'[f], Punteros(f)', k)
      BY <1>1, <1>3, <1>4, <3>2
    <3>. QED
      BY <2>1, <3>1, <3>2
  <2>. QED
    BY <2>1 DEF SinFugas
<1>10. \A g \in DOMAIN lista_fcb' : BienFormado(lista_fcb'[g], Punteros(g)')
  BY <1>2
<1>11. \A g \in DOMAIN lista_fcb' : ~Pedida(g)' => fcb_en_disco'[g] = lista_fcb'[g]
  <2>1. ASSUME NEW g \in DOMAIN lista_fcb, ~Pedida(g)'
        PROVE  fcb_en_disco'[g] = lista_fcb'[g]
    <3>1. g # f /\ ~Pedida(g)
      BY <2>1 DEF Pedida
    <3>. QED
      BY <3>1 DEF Sano
  <2>. QED
    BY <2>1
<1>12. PedidoBien
  BY DEF Sano
<1>13. PunterosIndirectos(antes) = ps
  BY PunterosPuntual
<1>14. /\ BienFormado(antes, ps)
       /\ \A k \in Lugares(antes) : k \in Lugares(fcb) /\ Mapa[f][k] = BloqueEn(antes, ps, k)
  BY <1>12, <1>13 DEF PedidoBien
<1>15. PunterosEn(bloques', antes) = ps
  <2>1. FcbEntero(antes)
    BY <1>14 DEF BienFormado
  <2>2. ASSUME Asignados(antes) > 1
        PROVE  bloques'[antes.indirecto] = bloques[antes.indirecto]
    <3>1. -1 \in Lugares(antes)
      BY <2>1, <2>2, LugaresDe
    <3>2. Mapa[f][-1] = antes.indirecto /\ -1 \in Lugares(fcb)
      BY <1>14, <3>1, BloquesEnLugares
    <3>3. Mapa[f][-1] \in ocupados
      BY <1>1, <3>2, BloquesDelMapa
    <3>. QED
      BY <3>2, <3>3
  <2>. QED
    BY <2>1, <2>2, MismosPunteros
<1>16. PunterosIndirectos(fcb_en_disco[f])' = ps /\ fcb_en_disco'[f] = antes
  BY <1>15, PunterosPuntualSig
<1>17. PunterosIndirectos(lista_fcb[f])' = PunterosEn(bloques', lista_fcb'[f])
  BY PunterosPuntualSig
<1>18. \A k \in Lugares(antes) : /\ k \in Lugares(lista_fcb'[f])
                                 /\ Mapa'[f][k] = BloqueEn(antes, ps, k)
  BY <1>3, <1>4, <1>14
<1>19. PedidoBien'
  <2> HIDE DEF ps, antes, fcb
  <2>1. /\ pedido'.fase = "aumentar" /\ pedido'.archivo = f
        /\ ~(pedido'.fase = "disminuir") /\ ~pedido'.reduce
    OBVIOUS
  <2>2. PunterosIndirectos(fcb_en_disco[pedido.archivo])' = ps
    BY <1>16 DEF PunterosIndirectos
  <2>3. PunterosIndirectos(lista_fcb[pedido.archivo])' = PunterosEn(bloques', lista_fcb'[f])
    BY <1>17 DEF PunterosIndirectos
  <2>. QED
    BY <1>14, <1>16, <1>18, <2>1, <2>2, <2>3 DEF PedidoBien
<1>20. Sano'
  BY <1>7, <1>8, <1>9, <1>10, <1>11, <1>19 DEF Sano
<1>. QED
  BY <1>2, <1>20

\* What a turn of aumentar_tamanio_archivo does to the files: the last place of file f gets
\* a block of zeros, and nothing else that a file has changes.
Crece(f) ==
    /\ DOMAIN lista_fcb' = DOMAIN lista_fcb
    /\ f \in DOMAIN lista_fcb
    /\ \A x \in ocupados : bloques'[x] = bloques[x]
    /\ \A g \in DOMAIN lista_fcb :
          /\ Asignados(lista_fcb'[g]) = Asignados(lista_fcb[g]) + (IF g = f THEN 1 ELSE 0)
          /\ \A k \in Lugares(lista_fcb[g]) : Mapa'[g][k] = Mapa[g][k]
    /\ bloques'[Mapa'[f][Asignados(lista_fcb[f])]] = BloqueDe(0)

\* AumentarDirecto.
LEMMA SanoAumentarDirecto ==
    ASSUME Tipos, Sano, AumentarDirecto, danio' \notin Corruptos, NEW f, f = pedido.archivo
    PROVE  Sano' /\ Crece(f)
<1> DEFINE fcb == lista_fcb[f]
           b == ObtenerBloqueLibre(ocupados)
           t == fcb.tamanio + BLOCK_SIZE
           otro == [fcb EXCEPT !.directo = b, !.tamanio = t]
           ps == pedido.punteros
<1>1. pedido # SinPedido /\ pedido.fase = "aumentar" /\ pedido.faltan > 0
  BY DEF AumentarDirecto, EnFase
<1>2. /\ pedido \in Pedido /\ f \in DOMAIN lista_fcb /\ pedido.faltan \in Nat
  BY <1>1, PedidoTipo
<1>3. Asignados(fcb) = 0 /\ Tipos' /\ ~pedido.reduce
  BY <1>1, TiposAumentarDirecto DEF AumentarDirecto, Tipos
<1>4. EnCurso(f)
  BY <1>1 DEF EnCurso
<1>5. BienFormado(fcb, ps) /\ ps = <<>> /\ FcbEntero(fcb) /\ fcb \in Fcb /\ fcb.indirecto = NoPuntero
  <2>1. BienFormado(fcb, Punteros(f)) /\ Punteros(f) = ps
    BY <1>2, <1>4, PunterosPuntual DEF Sano
  <2>. QED
    BY <1>3, <2>1 DEF BienFormado, FcbEntero
<1>6. ~pedido.sincronizar
  BY <1>1, <1>3 DEF Sano, PedidoBien
<1>7. b \in Bloque /\ b \notin ocupados /\ b # SinBloque
  <2>1. b # SinBloque
    BY DEF AumentarDirecto, Corruptos
  <2>. QED
    BY <2>1, BloqueLibre
<1>8. danio' = danio
  BY <1>7 DEF AumentarDirecto
<1>9. ocupados' = ocupados \cup {b}
  BY <1>7 DEF AumentarDirecto, ReservarBloque
<1>10. \A x \in Bloque : bloques'[x] = IF x = b THEN BloqueDe(0) ELSE bloques[x]
  BY Escribe, Escrito DEF AumentarDirecto, Tipos
<1>11. \A x \in ocupados : bloques'[x] = bloques[x]
  BY <1>7, <1>10 DEF Tipos
<1>12. /\ DOMAIN lista_fcb' = DOMAIN lista_fcb
       /\ \A g \in DOMAIN lista_fcb : g # f => lista_fcb'[g] = lista_fcb[g]
       /\ lista_fcb'[f] = otro
       /\ fcb_en_disco' = fcb_en_disco
  BY <1>2 DEF AumentarDirecto
<1>13. /\ pedido' # SinPedido /\ pedido'.archivo = f /\ pedido'.fase = "aumentar"
       /\ pedido'.reduce = FALSE /\ pedido'.faltan = pedido.faltan - 1
       /\ pedido'.punteros = ps /\ ~pedido'.sincronizar
  BY <1>1, <1>2, <1>3, <1>6 DEF AumentarDirecto, Pedido, SinPedido
<1>14. /\ otro \in Fcb /\ otro.tamanio = t /\ otro.directo = b /\ otro.indirecto = fcb.indirecto
  <2>1. t \in Nat
    BY <1>5, FileSystemAssumption, TamanioDe
  <2> HIDE DEF t, b
  <2>. QED
    BY <1>5, <1>7, <2>1 DEF Fcb
<1> HIDE DEF fcb, otro, b, t
<1>15. FcbEntero(otro) /\ Asignados(otro) = 1
  BY <1>3, <1>5, <1>14, UnBloqueMas DEF t
<1>16. Punteros(f)' = <<>>
  <2>1. EnCurso(f)'
    BY <1>13 DEF EnCurso
  <2>. QED
    BY <1>5, <1>13, <2>1, PunterosPuntualSig
<1>17. BienFormado(otro, <<>>)
  <2>1. BLOCK_SIZE \in Nat /\ <<>> \in Seq(Bloque) /\ Len(<<>>) = 0
    BY FileSystemAssumption
  <2>. QED
    BY <1>5, <1>7, <1>14, <1>15, <2>1 DEF BienFormado
<1>18. /\ \A k : k \notin Lugares(fcb)
       /\ \A k : k \in Lugares(otro) <=> k \in {0}
  BY <1>3, <1>5, <1>15, LugaresDe
<1>19. BloqueEn(otro, <<>>, 0) = b
  BY <1>14 DEF BloqueEn
<1>20. PunterosEn(bloques', otro) = <<>>
  <2>1. bloques' \in ArchivoDeBloques
    BY <1>3 DEF Tipos
  <2>. QED
    BY <1>15, <2>1, PunterosDe
<1>21. Asignados(otro) + pedido'.faltan <= 1 + BLOCK_SIZE
  <2>1. Asignados(fcb) + pedido.faltan <= 1 + BLOCK_SIZE
    BY <1>1 DEF Sano, PedidoBien, fcb
  <2>. QED
    BY <1>2, <1>3, <1>13, <1>15, <2>1, FileSystemAssumption
<1>22. /\ Sano'
       /\ \A g \in DOMAIN lista_fcb : g # f =>
             /\ Punteros(g)' = Punteros(g)
             /\ DOMAIN Mapa'[g] = DOMAIN Mapa[g]
             /\ \A k \in DOMAIN Mapa[g] : Mapa'[g][k] = Mapa[g][k]
  <2> DEFINE nuevos == {0}
  <2>1. /\ BienFormado(lista_fcb'[f], Punteros(f)')
        /\ \A k : k \in Lugares(lista_fcb'[f]) <=> k \in Lugares(lista_fcb[f]) \/ k \in nuevos
        /\ \A k \in Lugares(lista_fcb[f]) :
              BloqueEn(lista_fcb'[f], Punteros(f)', k) = Mapa[f][k]
    BY <1>12, <1>16, <1>17, <1>18 DEF fcb
  <2>2. /\ \A k \in nuevos : BloqueEn(lista_fcb'[f], Punteros(f)', k) \notin ocupados
        /\ \A j, k \in nuevos :
              BloqueEn(lista_fcb'[f], Punteros(f)', j) = BloqueEn(lista_fcb'[f], Punteros(f)', k)
                 => j = k
        /\ \A x : x \in ocupados' <=>
                    \/ x \in ocupados
                    \/ \E k \in nuevos : x = BloqueEn(lista_fcb'[f], Punteros(f)', k)
    BY <1>7, <1>9, <1>12, <1>16, <1>19
  <2>3. /\ Asignados(lista_fcb'[f]) + pedido'.faltan <= 1 + BLOCK_SIZE
        /\ pedido'.sincronizar => Asignados(lista_fcb'[f]) > 1
        /\ ~pedido'.sincronizar => pedido'.punteros = PunterosEn(bloques', lista_fcb'[f])
    BY <1>5, <1>12, <1>13, <1>20, <1>21
  <2> HIDE DEF nuevos
  <2>4. TomaBloques(f, nuevos)
    BY <1>1, <1>3, <1>8, <1>11, <1>12, <1>13, <2>1, <2>2, <2>3 DEF TomaBloques
  <2>. QED
    BY <2>4, SanoAlCrecer
<1>23. Crece(f)
  <2>1. DOMAIN Mapa'[f] = Lugares(otro) /\ Mapa'[f][0] = b
    BY <1>2, <1>12, <1>16, <1>18, <1>19, MapaPuntualSig
  <2>2. bloques'[Mapa'[f][Asignados(lista_fcb[f])]] = BloqueDe(0)
    BY <1>3, <1>7, <1>10, <2>1 DEF fcb
  <2>3. ASSUME NEW g \in DOMAIN lista_fcb
        PROVE  /\ Asignados(lista_fcb'[g]) = Asignados(lista_fcb[g]) + (IF g = f THEN 1 ELSE 0)
               /\ \A k \in Lugares(lista_fcb[g]) : Mapa'[g][k] = Mapa[g][k]
    <3>1. CASE g = f
      BY <1>3, <1>12, <1>15, <1>18, <3>1 DEF fcb
    <3>2. CASE g # f
      <4>1. Asignados(lista_fcb[g]) \in Nat /\ DOMAIN Mapa[g] = Lugares(lista_fcb[g])
        BY MapaPuntual DEF Tipos, FcbEntero
      <4>. QED
        BY <1>12, <1>22, <3>2, <4>1
    <3>. QED
      BY <3>1, <3>2
  <2>. QED
    BY <1>2, <1>11, <1>12, <2>2, <2>3 DEF Crece
<1>. QED
  BY <1>22, <1>23

\* AumentarIndirecto.
LEMMA SanoAumentarIndirecto ==
    ASSUME Tipos, Sano, AumentarIndirecto, danio' \notin Corruptos, NEW f, f = pedido.archivo
    PROVE  Sano' /\ Crece(f)
<1> DEFINE fcb == lista_fcb[f]
           n == Asignados(fcb)
           crea == fcb.indirecto = NoPuntero
           i == IF crea THEN ObtenerBloqueLibre(ocupados) ELSE fcb.indirecto
           usados == ReservarBloque(ocupados, i)
           b == ObtenerBloqueLibre(usados)
           limpio == IF crea THEN EscribirEnBloque(bloques, i, BloqueDe(0)) ELSE bloques
           t == fcb.tamanio + BLOCK_SIZE
           otro == [fcb EXCEPT !.indirecto = i, !.tamanio = t]
           ps == pedido.punteros
           qs == Append(ps, b)
           nuevos == IF crea THEN {-1, n} ELSE {n}
<1>1. pedido # SinPedido /\ pedido.fase = "aumentar" /\ pedido.faltan > 0
  BY DEF AumentarIndirecto, EnFase
<1>2. /\ pedido \in Pedido /\ f \in DOMAIN lista_fcb /\ pedido.faltan \in Nat
  BY <1>1, PedidoTipo
<1>3. n > 0 /\ Tipos' /\ ~pedido.reduce
  BY <1>1, TiposAumentarIndirecto DEF AumentarIndirecto, Tipos
<1>4. EnCurso(f)
  BY <1>1 DEF EnCurso
<1>5. BienFormado(fcb, ps) /\ FcbEntero(fcb) /\ fcb \in Fcb /\ Punteros(f) = ps /\ n \in Nat
  <2>1. BienFormado(fcb, Punteros(f)) /\ Punteros(f) = ps
    BY <1>2, <1>4, PunterosPuntual DEF Sano
  <2>. QED
    BY <2>1 DEF BienFormado, FcbEntero
<1>6. /\ ps \in Seq(Bloque) /\ Len(ps) = n - 1
      /\ crea <=> n = 1
      /\ ~crea => fcb.indirecto \in Bloque /\ fcb.indirecto # NoPuntero
      /\ fcb.directo \in Bloque
  <2>1. n <= 1 => fcb.indirecto = NoPuntero /\ Len(ps) = 0
    BY <1>5 DEF BienFormado
  <2>2. n > 1 => fcb.indirecto \in Bloque /\ fcb.indirecto # NoPuntero /\ Len(ps) = n - 1
    BY <1>5 DEF BienFormado
  <2>3. ps \in Seq(Bloque) /\ fcb.directo \in Bloque
    BY <1>5 DEF BienFormado
  <2> HIDE DEF n, ps
  <2>4. n = 1 \/ n > 1
    BY <1>3, <1>5
  <2>. QED
    BY <1>5, <2>1, <2>2, <2>3, <2>4
<1>7. /\ i # SinBloque /\ b # SinBloque /\ ~(crea /\ i = 0)
      /\ danio' = danio
  <2>1. danio' = (CASE SinBloque \in {i, b} -> "disco_lleno"
                     [] crea /\ i = 0 -> "indirecto_en_0"
                     [] OTHER -> danio)
    BY DEF AumentarIndirecto
  <2> HIDE DEF i, b, crea
  <2>2. SinBloque \notin {i, b}
    BY <2>1 DEF Corruptos
  <2>3. ~(crea /\ i = 0)
    BY <2>1, <2>2 DEF Corruptos
  <2>. QED
    BY <2>1, <2>2, <2>3
<1>8. /\ i \in Bloque /\ i # NoPuntero
      /\ crea => i \notin ocupados
      /\ ~crea => i \in ocupados
  <2>1. CASE crea
    BY <1>7, <2>1, BloqueLibre DEF NoPuntero
  <2>2. CASE ~crea
    <3>1. Mapa[f][-1] = fcb.indirecto /\ -1 \in Lugares(fcb)
      <4>1. n > 1
        BY <1>3, <1>5, <1>6, <2>2
      <4>. QED
        BY <1>2, <1>5, <4>1, BloquesDelMapa, LugaresDe
    <3>2. fcb.indirecto \in ocupados
      BY <1>2, <3>1, BloquesDelMapa
    <3>. QED
      BY <1>6, <2>2, <3>2
  <2>. QED
    BY <2>1, <2>2
<1>9. usados = ocupados \cup {i}
  BY <1>8 DEF ReservarBloque
<1>10. b \in Bloque /\ b \notin ocupados /\ b # i
  BY <1>7, <1>9, BloqueLibre
<1>11. ocupados' = ocupados \cup {i, b}
  BY <1>9, <1>10 DEF AumentarIndirecto, ReservarBloque
<1>12. \A x \in Bloque : bloques'[x] = IF x = b THEN BloqueDe(0) ELSE limpio[x]
  <2>1. limpio \in ArchivoDeBloques
    BY Escribe, Escrito DEF Tipos
  <2>2. bloques' = EscribirEnBloque(limpio, b, BloqueDe(0))
    BY DEF AumentarIndirecto
  <2> HIDE DEF limpio, b
  <2>. QED
    BY <2>1, <2>2, Escribe, Escrito
<1>13. \A x \in ocupados : bloques'[x] = bloques[x]
  <2>1. ASSUME NEW x \in ocupados
        PROVE  limpio[x] = bloques[x]
    <3>1. x \in Bloque
      BY DEF Tipos
    <3>. QED
      BY <1>8, <3>1, Escribe, Escrito DEF Tipos
  <2>. QED
    BY <1>10, <1>12, <2>1 DEF Tipos
<1>14. /\ DOMAIN lista_fcb' = DOMAIN lista_fcb
       /\ \A g \in DOMAIN lista_fcb : g # f => lista_fcb'[g] = lista_fcb[g]
       /\ lista_fcb'[f] = otro
       /\ fcb_en_disco' = fcb_en_disco
  BY <1>2 DEF AumentarIndirecto
<1>15. (IF crea THEN Append(<<>>, b) ELSE Append(ps, b)) = qs
  <2>1. crea => ps = <<>>
    BY <1>6
  <2>. QED
    BY <2>1
<1>16. /\ pedido' # SinPedido /\ pedido'.archivo = f /\ pedido'.fase = "aumentar"
       /\ pedido'.reduce = FALSE /\ pedido'.faltan = pedido.faltan - 1
       /\ pedido'.punteros = qs /\ pedido'.sincronizar
  <2> DEFINE q == Append(IF crea THEN <<>> ELSE ps, b)
             m == pedido.faltan - 1
  <2>1. q = qs
    BY <1>15
  <2>2. pedido' = [pedido EXCEPT !.faltan = m, !.sincronizar = TRUE, !.punteros = q]
    BY DEF AumentarIndirecto
  <2> HIDE DEF q, m
  <2>3. /\ pedido' # SinPedido /\ pedido'.archivo = f /\ pedido'.fase = "aumentar"
        /\ pedido'.reduce = FALSE /\ pedido'.faltan = m
        /\ pedido'.punteros = q /\ pedido'.sincronizar
    BY <1>1, <1>2, <1>3, <2>2 DEF Pedido, SinPedido
  <2>. QED
    BY <2>1, <2>3 DEF m
<1>17. /\ otro \in Fcb /\ otro.tamanio = t /\ otro.directo = fcb.directo /\ otro.indirecto = i
  <2>1. t \in Nat
    BY <1>5, FileSystemAssumption, TamanioDe
  <2> HIDE DEF t, i
  <2>. QED
    BY <1>5, <1>8, <2>1 DEF Fcb
<1> HIDE DEF fcb, otro, b, i, t, limpio, usados, crea, qs
<1>18. FcbEntero(otro) /\ Asignados(otro) = n + 1
  BY <1>3, <1>5, <1>17, UnBloqueMas DEF t
<1> HIDE DEF n, ps
<1>19. /\ qs \in Seq(Bloque) /\ Len(qs) = n /\ qs[n] = b
       /\ \A j \in 1..(n - 1) : qs[j] = ps[j]
  BY <1>3, <1>5, <1>6, <1>10 DEF qs
<1>20. Punteros(f)' = qs
  <2>1. EnCurso(f)'
    BY <1>16 DEF EnCurso
  <2>. QED
    BY <1>16, <2>1, PunterosPuntualSig
<1>21. Asignados(otro) + pedido'.faltan <= 1 + BLOCK_SIZE /\ pedido'.faltan \in Nat
  <2>1. n + pedido.faltan <= 1 + BLOCK_SIZE
    BY <1>1 DEF Sano, PedidoBien, fcb, n
  <2>. QED
    BY <1>1, <1>2, <1>5, <1>16, <1>18, <2>1, FileSystemAssumption
<1>22. BienFormado(otro, qs)
  <2>1. Asignados(otro) > 1 /\ ~(Asignados(otro) <= 1) /\ Asignados(otro) - 1 = n
        /\ Asignados(otro) <= 1 + BLOCK_SIZE
    BY <1>3, <1>5, <1>18, <1>21, FileSystemAssumption
  <2>. QED
    BY <1>6, <1>8, <1>17, <1>18, <1>19, <2>1 DEF BienFormado
<1>23. \A k : k \in Lugares(otro) <=> k \in Lugares(fcb) \/ k \in nuevos
  <2>1. ASSUME NEW k
        PROVE  k \in Lugares(otro) <=> k \in 0..n \/ k = -1
    BY <1>3, <1>5, <1>18, LugaresDe
  <2>2. ASSUME NEW k
        PROVE  k \in Lugares(fcb) <=> k \in 0..(n - 1) \/ (k = -1 /\ n > 1)
    BY <1>5, LugaresDe DEF n
  <2>3. CASE crea
    BY <1>3, <1>5, <1>6, <2>1, <2>2, <2>3
  <2>4. CASE ~crea
    BY <1>3, <1>5, <1>6, <2>1, <2>2, <2>4
  <2>. QED
    BY <2>3, <2>4
<1>24. /\ BloqueEn(otro, qs, n) = b
       /\ BloqueEn(otro, qs, -1) = i
  BY <1>3, <1>5, <1>17, <1>19 DEF BloqueEn
<1>25. ASSUME NEW k \in Lugares(fcb)
       PROVE  BloqueEn(otro, qs, k) = Mapa[f][k]
  <2>1. Mapa[f][k] = BloqueEn(fcb, ps, k)
    BY <1>2, <1>5, MapaPuntual DEF fcb
  <2>2. k \in 0..(n - 1) \/ (k = -1 /\ n > 1)
    BY <1>5, LugaresDe DEF n
  <2>3. CASE k = 0
    BY <1>17, <2>1, <2>3 DEF BloqueEn
  <2>4. CASE k = -1 /\ n > 1
    <3>1. i = fcb.indirecto
      BY <1>5, <1>6, <2>4 DEF i
    <3>. QED
      BY <1>17, <2>1, <2>4, <3>1 DEF BloqueEn
  <2>5. CASE k # 0 /\ k \in 0..(n - 1)
    <3>1. k \in 1..(n - 1) /\ k # -1
      BY <1>5, <2>5
    <3>. QED
      BY <1>19, <2>1, <3>1 DEF BloqueEn
  <2>. QED
    BY <2>2, <2>3, <2>4, <2>5
<1>26. /\ Sano'
       /\ \A g \in DOMAIN lista_fcb : g # f =>
             /\ Punteros(g)' = Punteros(g)
             /\ DOMAIN Mapa'[g] = DOMAIN Mapa[g]
             /\ \A k \in DOMAIN Mapa[g] : Mapa'[g][k] = Mapa[g][k]
  <2>1. /\ BienFormado(lista_fcb'[f], Punteros(f)')
        /\ \A k : k \in Lugares(lista_fcb'[f]) <=> k \in Lugares(lista_fcb[f]) \/ k \in nuevos
        /\ \A k \in Lugares(lista_fcb[f]) :
              BloqueEn(lista_fcb'[f], Punteros(f)', k) = Mapa[f][k]
    <3> HIDE DEF nuevos
    <3>. QED
      BY <1>14, <1>20, <1>22, <1>23, <1>25 DEF fcb
  <2>2. /\ \A k \in nuevos : BloqueEn(lista_fcb'[f], Punteros(f)', k) \notin ocupados
        /\ \A j, k \in nuevos :
              BloqueEn(lista_fcb'[f], Punteros(f)', j) = BloqueEn(lista_fcb'[f], Punteros(f)', k)
                 => j = k
        /\ \A x : x \in ocupados' <=>
                    \/ x \in ocupados
                    \/ \E k \in nuevos : x = BloqueEn(lista_fcb'[f], Punteros(f)', k)
    <3>1. lista_fcb'[f] = otro /\ Punteros(f)' = qs
      BY <1>14, <1>20
    <3>2. CASE crea
      BY <1>8, <1>10, <1>11, <1>24, <3>1, <3>2
    <3>3. CASE ~crea
      BY <1>8, <1>10, <1>11, <1>24, <3>1, <3>3
    <3>. QED
      BY <3>2, <3>3
  <2>3. /\ Asignados(lista_fcb'[f]) + pedido'.faltan <= 1 + BLOCK_SIZE
        /\ pedido'.sincronizar => Asignados(lista_fcb'[f]) > 1
        /\ ~pedido'.sincronizar => pedido'.punteros = PunterosEn(bloques', lista_fcb'[f])
    BY <1>3, <1>5, <1>14, <1>16, <1>18, <1>21
  <2> HIDE DEF nuevos
  <2>4. TomaBloques(f, nuevos)
    BY <1>1, <1>3, <1>7, <1>13, <1>14, <1>16, <2>1, <2>2, <2>3 DEF TomaBloques
  <2>. QED
    BY <2>4, SanoAlCrecer
<1>27. Crece(f)
  <2>1. n \in Lugares(otro)
    BY <1>3, <1>5, <1>23
  <2>2. /\ \A k \in Lugares(otro) : Mapa'[f][k] = BloqueEn(otro, qs, k)
        /\ Lugares(fcb) \subseteq Lugares(otro)
    <3> HIDE DEF nuevos
    <3>. QED
      BY <1>2, <1>14, <1>20, <1>23, MapaPuntualSig
  <2>3. bloques'[Mapa'[f][Asignados(lista_fcb[f])]] = BloqueDe(0)
    BY <1>10, <1>12, <1>24, <2>1, <2>2 DEF fcb, n
  <2>4. ASSUME NEW g \in DOMAIN lista_fcb
        PROVE  /\ Asignados(lista_fcb'[g]) = Asignados(lista_fcb[g]) + (IF g = f THEN 1 ELSE 0)
               /\ \A k \in Lugares(lista_fcb[g]) : Mapa'[g][k] = Mapa[g][k]
    <3>1. CASE g = f
      BY <1>14, <1>18, <1>25, <2>2, <3>1 DEF fcb, n
    <3>2. CASE g # f
      <4>1. Asignados(lista_fcb[g]) \in Nat /\ DOMAIN Mapa[g] = Lugares(lista_fcb[g])
        BY MapaPuntual DEF Tipos, FcbEntero
      <4>. QED
        BY <1>14, <1>26, <3>2, <4>1
    <3>. QED
      BY <3>1, <3>2
  <2>. QED
    BY <1>2, <1>13, <1>14, <2>3, <2>4 DEF Crece
<1>. QED
  BY <1>26, <1>27

-----------------------------------------------------------------------------
(* Steps that give and take no block *)

\* When no FCB, no pointer and no bit changes, only the request has to be looked at.
LEMMA MismoMapa ==
    ASSUME Tipos, Sano, lista_fcb' = lista_fcb, ocupados' = ocupados, danio' = danio,
           \A g \in DOMAIN lista_fcb : Punteros(g)' = Punteros(g),
           \A g \in DOMAIN lista_fcb : ~Pedida(g)' => fcb_en_disco'[g] = lista_fcb[g],
           pedido' # SinPedido => PedidoBien'
    PROVE  Sano' /\ Mapa' = Mapa
<1>1. Mapa' = Mapa
  <2>1. Mapa' = [f \in DOMAIN lista_fcb |->
                   [k \in Lugares(lista_fcb[f]) |-> BloqueEn(lista_fcb[f], Punteros(f)', k)]]
    BY DEF Mapa
  <2>2. Mapa = [f \in DOMAIN lista_fcb |->
                   [k \in Lugares(lista_fcb[f]) |-> BloqueEn(lista_fcb[f], Punteros(f), k)]]
    BY DEF Mapa
  <2>3. ASSUME NEW f \in DOMAIN lista_fcb
        PROVE  [k \in Lugares(lista_fcb[f]) |-> BloqueEn(lista_fcb[f], Punteros(f)', k)]
             = [k \in Lugares(lista_fcb[f]) |-> BloqueEn(lista_fcb[f], Punteros(f), k)]
    <3>1. Punteros(f)' = Punteros(f)
      OBVIOUS
    <3>. QED
      BY <3>1
  <2>. QED
    BY <2>1, <2>2, <2>3
<1>2. \A g \in DOMAIN lista_fcb' : BienFormado(lista_fcb'[g], Punteros(g)')
  BY DEF Sano
<1>3. Repartidos(Mapa') /\ Reservados(Mapa', ocupados')
  BY <1>1 DEF Sano
<1>4. danio' = "ninguno" => SinFugas(Mapa', ocupados')
  BY <1>1 DEF Sano
<1>5. \A g \in DOMAIN lista_fcb' : ~Pedida(g)' => fcb_en_disco'[g] = lista_fcb'[g]
  OBVIOUS
<1>. QED
  BY <1>1, <1>2, <1>3, <1>4, <1>5 DEF Sano

\* The blocks of two places are different.
LEMMA LugaresDistintos ==
    ASSUME Tipos, Sano, NEW f \in DOMAIN lista_fcb, NEW g \in DOMAIN lista_fcb,
           NEW j \in Lugares(lista_fcb[f]), NEW k \in Lugares(lista_fcb[g]),
           f # g \/ j # k
    PROVE  Mapa[f][j] # Mapa[g][k]
<1>1. Repartidos(Mapa)
  BY DEF Sano
<1>2. f \in DOMAIN Mapa /\ g \in DOMAIN Mapa /\ j \in DOMAIN Mapa[f] /\ k \in DOMAIN Mapa[g]
  BY MapaPuntual
<1>. QED
  BY <1>1, <1>2 DEF Repartidos

\* SincronizarPunteros: the list in memory becomes the one on the disk.
LEMMA SanoSincronizar ==
    ASSUME Tipos, Sano, SincronizarPunteros, NEW f, f = pedido.archivo
    PROVE  /\ Sano' /\ Mapa' = Mapa /\ f \in DOMAIN lista_fcb
           /\ \A g \in DOMAIN lista_fcb : \A k \in Lugares(lista_fcb[g]) :
                 g # f \/ k # -1 => bloques'[Mapa[g][k]] = bloques[Mapa[g][k]]
<1> DEFINE fcb == lista_fcb[f]
           n == Asignados(fcb)
           ps == pedido.punteros
           antes == fcb_en_disco[f]
           qs == PunterosEn(bloques, antes)
           rs == PunterosEn(bloques', antes)
<1>1. pedido # SinPedido /\ pedido.fase = "aumentar"
  BY DEF SincronizarPunteros, EnFase
<1>2. pedido \in Pedido /\ f \in DOMAIN lista_fcb
  BY <1>1, PedidoTipo
<1>3. Tipos' /\ ~pedido.reduce
  BY <1>1, TiposSincronizar DEF Tipos
<1>4. EnCurso(f)
  BY <1>1 DEF EnCurso
<1>5. BienFormado(fcb, ps) /\ FcbEntero(fcb) /\ Punteros(f) = ps /\ n \in Nat
  <2>1. BienFormado(fcb, Punteros(f)) /\ Punteros(f) = ps
    BY <1>2, <1>4, PunterosPuntual DEF Sano
  <2>. QED
    BY <2>1, TamanioDe DEF BienFormado
<1>6. PedidoBien
  BY <1>1 DEF Sano
<1>7. /\ pedido.sincronizar => n > 1
      /\ ~pedido.sincronizar => ps = PunterosEn(bloques, fcb)
  BY <1>1, <1>6, PunterosPuntual DEF PedidoBien
<1>8. /\ lista_fcb' = lista_fcb /\ ocupados' = ocupados /\ danio' = danio
      /\ fcb_en_disco' = fcb_en_disco
      /\ pedido' = [pedido EXCEPT !.fase = "actualizar"]
      /\ ~pedido.sincronizar => bloques' = bloques
      /\ pedido.sincronizar =>
            bloques' = EscribirEnBloque(bloques, fcb.indirecto, DatosBloqueIndirecto(ps))
  BY DEF SincronizarPunteros
<1>9. /\ pedido' # SinPedido /\ pedido'.fase = "actualizar" /\ pedido'.archivo = f
      /\ pedido'.reduce = FALSE
  BY <1>1, <1>2, <1>3, <1>8 DEF Pedido, SinPedido
<1> HIDE DEF fcb, n, ps, antes, qs, rs
<1>10. \A x \in Bloque : bloques'[x] # bloques[x] => pedido.sincronizar /\ x = fcb.indirecto
  <2>1. DatosBloqueIndirecto(ps) \in [1..BLOCK_SIZE -> Palabra]
    BY <1>1, PedidoTipo, Escrito DEF ps
  <2>. QED
    BY <1>8, <2>1, Escribe DEF Tipos
<1>11. ASSUME NEW g \in DOMAIN lista_fcb, NEW k \in Lugares(lista_fcb[g]), g # f \/ k # -1
       PROVE  bloques'[Mapa[g][k]] = bloques[Mapa[g][k]]
  <2>1. Mapa[g][k] \in Bloque
    BY BloquesDelMapa
  <2>2. CASE pedido.sincronizar
    <3>1. -1 \in Lugares(lista_fcb[f]) /\ Mapa[f][-1] = fcb.indirecto
      BY <1>2, <1>5, <1>7, <2>2, LugaresDe, BloquesDelMapa DEF fcb, n
    <3>2. Mapa[g][k] # Mapa[f][-1]
      BY <1>2, <1>11, <3>1, LugaresDistintos
    <3>. QED
      BY <1>10, <2>1, <3>1, <3>2
  <2>3. CASE ~pedido.sincronizar
    BY <1>8, <2>3
  <2>. QED
    BY <2>2, <2>3
<1>12. pedido.sincronizar =>
         \A j \in 1..(n - 1) : bloques'[fcb.indirecto][j] = ps[j]
  <2>1. ASSUME pedido.sincronizar, NEW j \in 1..(n - 1)
        PROVE  bloques'[fcb.indirecto][j] = ps[j]
    <3>1. fcb.indirecto \in Bloque /\ ps \in Seq(Bloque) /\ Len(ps) = n - 1 /\ n <= 1 + BLOCK_SIZE
      BY <1>5, <1>7, <2>1 DEF BienFormado, n
    <3>2. DatosBloqueIndirecto(ps) \in [1..BLOCK_SIZE -> Palabra]
      BY <1>1, PedidoTipo, Escrito DEF ps
    <3>3. bloques'[fcb.indirecto] = DatosBloqueIndirecto(ps)
      BY <1>8, <2>1, <3>1, <3>2, Escribe DEF Tipos
    <3>4. j \in 1..BLOCK_SIZE /\ j \in DOMAIN ps
      BY <1>5, <3>1, FileSystemAssumption, LenProperties
    <3>. QED
      BY <3>3, <3>4 DEF DatosBloqueIndirecto
  <2>. QED
    BY <2>1
<1>13. PunterosEn(bloques', fcb) = ps
  <2>1. CASE pedido.sincronizar
    <3>1. n > 1 /\ fcb.indirecto \in Bloque /\ ps \in Seq(Bloque) /\ Len(ps) = n - 1
          /\ n <= 1 + BLOCK_SIZE
      BY <1>5, <1>7, <2>1 DEF BienFormado, n
    <3>2. bloques' \in ArchivoDeBloques
      BY <1>3 DEF Tipos
    <3> DEFINE us == PunterosEn(bloques', fcb)
    <3>3. /\ us \in Seq(Palabra) /\ Len(us) = n - 1
          /\ \A j \in 1..(n - 1) : us[j] = bloques'[fcb.indirecto][j]
      BY <1>5, <3>1, <3>2, PunterosDe DEF n
    <3> HIDE DEF us
    <3>4. ps \in Seq(Palabra)
      <4>1. Bloque \subseteq Palabra
        BY DEF Palabra
      <4>. QED
        BY <3>1, <4>1
    <3>5. us = ps
      BY <1>12, <2>1, <3>1, <3>3, <3>4, SeqEqual
    <3>. QED
      BY <3>5 DEF us
  <2>2. CASE ~pedido.sincronizar
    BY <1>7, <1>8, <2>2
  <2>. QED
    BY <2>1, <2>2
<1>14. \A g \in DOMAIN lista_fcb : Punteros(g)' = Punteros(g)
  <2>1. ASSUME NEW g \in DOMAIN lista_fcb
        PROVE  Punteros(g)' = Punteros(g)
    <3>1. CASE g = f
      <4>1. ~EnCurso(f)'
        BY <1>9 DEF EnCurso
      <4>2. Punteros(f)' = PunterosEn(bloques', lista_fcb'[f])
        BY <4>1, PunterosPuntualSig
      <4>. QED
        BY <1>5, <1>8, <1>13, <3>1, <4>2 DEF fcb
    <3>2. CASE g # f
      <4>1. ~Pedida(g) /\ ~Pedida(g)'
        BY <1>9, <3>2 DEF Pedida
      <4>2. FcbEntero(lista_fcb[g])
        BY DEF Tipos
      <4>3. Asignados(lista_fcb[g]) > 1 => bloques'[Mapa[g][-1]] = bloques[Mapa[g][-1]]
        BY <1>11, <3>2, <4>2, LugaresDe
      <4>. QED
        BY <1>8, <4>1, <4>3, OtroQuieto
    <3>. QED
      BY <3>1, <3>2
  <2>. QED
    BY <2>1
<1>15. \A g \in DOMAIN lista_fcb : ~Pedida(g)' => fcb_en_disco'[g] = lista_fcb[g]
  <2>1. ASSUME NEW g \in DOMAIN lista_fcb, ~Pedida(g)'
        PROVE  ~Pedida(g)
    BY <1>9, <2>1 DEF Pedida
  <2>. QED
    BY <1>8, <2>1 DEF Sano
<1>16. /\ BienFormado(antes, qs)
       /\ \A k \in Lugares(antes) : k \in Lugares(fcb) /\ Mapa[f][k] = BloqueEn(antes, qs, k)
  BY <1>3, <1>6, PunterosPuntual DEF PedidoBien, antes, qs, fcb
<1>17. rs = qs
  <2>1. CASE pedido.sincronizar
    <3>1. FcbEntero(antes) /\ Asignados(antes) \in Nat
      BY <1>16, TamanioDe DEF BienFormado
    <3>2. CASE Asignados(antes) <= 1
      <4>1. bloques' \in ArchivoDeBloques /\ bloques \in ArchivoDeBloques
        BY <1>3 DEF Tipos
      <4>. QED
        BY <3>1, <3>2, <4>1, PunterosDe DEF rs, qs
    <3>3. CASE Asignados(antes) > 1
      <4> DEFINE m == Asignados(antes)
      <4>1. /\ antes.indirecto \in Bloque /\ m <= 1 + BLOCK_SIZE
            /\ qs \in Seq(Bloque) /\ Len(qs) = m - 1
        BY <1>16, <3>3 DEF BienFormado
      <4>2. bloques' \in ArchivoDeBloques
        BY <1>3 DEF Tipos
      <4>3. /\ rs \in Seq(Palabra) /\ Len(rs) = m - 1
            /\ \A j \in 1..(m - 1) : rs[j] = bloques'[antes.indirecto][j]
        BY <3>1, <3>3, <4>1, <4>2, PunterosDe DEF rs
      <4>4. -1 \in Lugares(antes) /\ n > 1 /\ antes.indirecto = fcb.indirecto
        <5>1. -1 \in Lugares(antes)
          BY <3>1, <3>3, LugaresDe
        <5>2. Mapa[f][-1] = antes.indirecto
          BY <1>16, <5>1, BloquesEnLugares
        <5>. QED
          BY <1>2, <1>7, <2>1, <5>1, <5>2, BloquesDelMapa DEF fcb, n
      <4>5. ASSUME NEW j \in 1..(m - 1)
            PROVE  rs[j] = qs[j]
        <5>1. j \in 1..Len(qs)
          BY <4>1
        <5>2. j \in Lugares(antes) /\ BloqueEn(antes, qs, j) = qs[j]
          BY <1>16, <5>1, BloquesEnLugares
        <5>3. j \in Lugares(fcb) /\ Mapa[f][j] = qs[j]
          BY <1>16, <5>2
        <5>4. j \in 1..(n - 1) /\ j # 0 /\ j # -1
          BY <1>5, <3>1, <5>3, LugaresDe DEF n
        <5>5. Mapa[f][j] = ps[j]
          BY <1>2, <1>5, <5>3, <5>4, MapaPuntual DEF BloqueEn, fcb
        <5>. QED
          BY <1>12, <2>1, <4>3, <4>4, <5>3, <5>4, <5>5
      <4>6. qs \in Seq(Palabra)
        <5>1. Bloque \subseteq Palabra
          BY DEF Palabra
        <5>. QED
          BY <4>1, <5>1
      <4>. QED
        BY <4>1, <4>3, <4>5, <4>6, SeqEqual
    <3>. QED
      BY <3>1, <3>2, <3>3
  <2>2. CASE ~pedido.sincronizar
    BY <1>8, <2>2 DEF rs, qs
  <2>. QED
    BY <2>1, <2>2
<1>18. Mapa' = Mapa => PedidoBien'
  <2>1. PunterosIndirectos(fcb_en_disco[pedido.archivo])' = qs
    <3>1. fcb_en_disco'[pedido'.archivo] = antes
      BY <1>8, <1>9 DEF antes
    <3>2. PunterosIndirectos(fcb_en_disco[pedido.archivo])' =
             PunterosEn(bloques', fcb_en_disco'[pedido'.archivo])
      BY DEF PunterosIndirectos, PunterosEn
    <3>. QED
      BY <1>17, <3>1, <3>2 DEF rs
  <2>. QED
    BY <1>8, <1>9, <1>16, <2>1 DEF PedidoBien, fcb, antes
<1>19. Mapa' = Mapa
  <2>1. Mapa' = [g \in DOMAIN lista_fcb |->
                   [k \in Lugares(lista_fcb[g]) |-> BloqueEn(lista_fcb[g], Punteros(g)', k)]]
    BY <1>8 DEF Mapa
  <2>2. \A g \in DOMAIN lista_fcb :
           [k \in Lugares(lista_fcb[g]) |-> BloqueEn(lista_fcb[g], Punteros(g)', k)]
           = [k \in Lugares(lista_fcb[g]) |-> BloqueEn(lista_fcb[g], Punteros(g), k)]
    BY <1>14
  <2>. QED
    BY <2>1, <2>2 DEF Mapa
<1>20. Sano'
  BY <1>8, <1>14, <1>15, <1>18, <1>19, MismoMapa
<1>. QED
  BY <1>2, <1>11, <1>19, <1>20

-----------------------------------------------------------------------------
(* Files that shrink *)

\* Blocks leave the map and nothing that stays in it moves.
Mengua ==
    /\ DOMAIN lista_fcb' = DOMAIN lista_fcb
    /\ bloques' = bloques
    /\ \A g \in DOMAIN lista_fcb :
          /\ BienFormado(lista_fcb'[g], Punteros(g)')
          /\ Asignados(lista_fcb'[g]) <= Asignados(lista_fcb[g])
          /\ \A k \in Lugares(lista_fcb'[g]) :
                k \in Lugares(lista_fcb[g]) /\ Mapa'[g][k] = Mapa[g][k]

\* All but the last pointer.
LEMMA SinElUltimo ==
    ASSUME NEW S, NEW ps \in Seq(S), Len(ps) > 0
    PROVE  /\ Front(ps) \in Seq(S) /\ Len(Front(ps)) = Len(ps) - 1
           /\ \A i \in 1..(Len(ps) - 1) : Front(ps)[i] = ps[i]
           /\ Last(ps) = ps[Len(ps)] /\ Last(ps) \in S
<1> DEFINE l == Len(ps)
<1>1. l \in Nat /\ l > 0 /\ \A i \in 1..l : ps[i] \in S
  BY LenProperties, ElementOfSeq
<1> HIDE DEF l
<1>2. Front(ps) = SubSeq(ps, 1, l - 1)
  BY DEF Front, l
<1>3. SubSeq(ps, 1, l - 1) = [i \in 1..(l - 1) |-> ps[i]]
  BY <1>1
<1> DEFINE q == [i \in 1..(l - 1) |-> ps[i]]
<1>4. q \in Seq(S) /\ Len(q) = l - 1 /\ \A i \in 1..(l - 1) : q[i] = ps[i]
  BY <1>1
<1> HIDE DEF q
<1>5. Front(ps) = q
  BY <1>2, <1>3 DEF q
<1>6. Last(ps) = ps[l] /\ ps[l] \in S
  BY <1>1 DEF Last, l
<1>. QED
  BY <1>4, <1>5, <1>6 DEF l

\* What a turn of disminuir_tamanio_archivo leaves of an FCB and of its pointers.
UnBloqueFuera(fcb, ps, otro, qs) ==
    /\ otro = [fcb EXCEPT !.indirecto = IF Asignados(fcb) = 2 THEN NoPuntero ELSE @,
                          !.tamanio = @ - BLOCK_SIZE]
    /\ qs = IF Asignados(fcb) = 1 THEN ps ELSE Front(ps)

\* DisminuirUnBloque: what happens to the FCB and to the pointers of the file.
LEMMA FcbAlDisminuir ==
    ASSUME NEW fcb, NEW ps, BienFormado(fcb, ps), Asignados(fcb) > 0,
           NEW otro, NEW qs, UnBloqueFuera(fcb, ps, otro, qs)
    PROVE  /\ BienFormado(otro, qs)
           /\ Asignados(otro) = Asignados(fcb) - 1
           /\ \A k \in Lugares(otro) :
                 k \in Lugares(fcb) /\ BloqueEn(otro, qs, k) = BloqueEn(fcb, ps, k)
           /\ \A k \in Lugares(fcb) : k \notin Lugares(otro) =>
                 BloqueEn(fcb, ps, k) \in BloquesQueSuelta(fcb, ps)
           /\ \A x \in BloquesQueSuelta(fcb, ps) : \E k \in Lugares(fcb) :
                 k \notin Lugares(otro) /\ x = BloqueEn(fcb, ps, k)
<1> USE DEF UnBloqueFuera
<1> DEFINE n == Asignados(fcb)
           t == fcb.tamanio - BLOCK_SIZE
<1>1. FcbEntero(fcb) /\ fcb \in Fcb /\ n \in Nat /\ n > 0 /\ fcb.tamanio = n * BLOCK_SIZE
  BY DEF BienFormado, FcbEntero
<1>2. t \in Nat
  <2>1. BLOCK_SIZE \in Nat \ {0}
    BY FileSystemAssumption
  <2> HIDE DEF n
  <2>2. (n - 1) * BLOCK_SIZE = n * BLOCK_SIZE - BLOCK_SIZE /\ n - 1 \in Nat
    BY <1>1, <2>1, Division
  <2>3. (n - 1) * BLOCK_SIZE \in Nat
    BY <2>1, <2>2, Division
  <2>. QED
    BY <1>1, <2>2, <2>3
<1>3. NoPuntero \in Bloque
  BY FileSystemAssumption DEF NoPuntero, Bloque
<1>4. /\ otro.directo = fcb.directo /\ otro.tamanio = t
      /\ otro.indirecto = IF n = 2 THEN NoPuntero ELSE fcb.indirecto
      /\ otro \in Fcb
  BY <1>1, <1>2, <1>3 DEF Fcb
<1>5. FcbEntero(otro) /\ Asignados(otro) = n - 1
  BY <1>1, <1>4, UnBloqueMenos
<1> HIDE DEF n, t
<1>6. /\ fcb.directo \in Bloque /\ n <= 1 + BLOCK_SIZE /\ ps \in Seq(Bloque)
      /\ n <= 1 => fcb.indirecto = NoPuntero /\ Len(ps) = 0
      /\ n > 1 => fcb.indirecto \in Bloque /\ fcb.indirecto # NoPuntero /\ Len(ps) = n - 1
  BY DEF BienFormado, n
<1>7. /\ qs \in Seq(Bloque)
      /\ n > 1 => Len(qs) = n - 2 /\ \A i \in 1..(n - 2) : qs[i] = ps[i]
      /\ n <= 1 => Len(qs) = 0
  <2>1. CASE n = 1
    BY <1>6, <2>1 DEF n
  <2>2. CASE n # 1
    <3>1. Len(ps) = n - 1 /\ Len(ps) > 0 /\ qs = Front(ps) /\ n > 1
      BY <1>1, <1>6, <2>2 DEF n
    <3>2. Len(ps) - 1 = n - 2
      BY <1>1, <3>1
    <3>. QED
      BY <1>6, <3>1, <3>2, SinElUltimo
  <2>. QED
    BY <2>1, <2>2
<1>8. BienFormado(otro, qs)
  <2>1. n - 1 <= 1 => otro.indirecto = NoPuntero /\ Len(qs) = 0
    BY <1>1, <1>4, <1>6, <1>7
  <2>2. n - 1 > 1 => /\ otro.indirecto \in Bloque /\ otro.indirecto # NoPuntero
                     /\ Len(qs) = (n - 1) - 1
    BY <1>1, <1>4, <1>6, <1>7
  <2>3. n - 1 <= 1 + BLOCK_SIZE
    BY <1>1, <1>6, FileSystemAssumption
  <2>. QED
    BY <1>4, <1>5, <1>6, <1>7, <2>1, <2>2, <2>3 DEF BienFormado
<1>9. /\ \A k : k \in Lugares(fcb) <=> k \in 0..(n - 1) \/ (k = -1 /\ n > 1)
      /\ \A k : k \in Lugares(otro) <=> k \in 0..(n - 2) \/ (k = -1 /\ n - 1 > 1)
  <2>1. (n - 1) - 1 = n - 2
    BY <1>1
  <2>2. \A k : k \in Lugares(fcb) <=> k \in 0..(n - 1) \/ (k = -1 /\ n > 1)
    BY <1>1, LugaresDe DEF n
  <2>3. \A k : k \in Lugares(otro) <=>
                  k \in 0..(Asignados(otro) - 1) \/ (k = -1 /\ Asignados(otro) > 1)
    BY <1>5, LugaresDe
  <2>4. \A k : k \in Lugares(otro) <=> k \in 0..((n - 1) - 1) \/ (k = -1 /\ n - 1 > 1)
    BY <1>5, <2>3
  <2>. QED
    BY <2>1, <2>2, <2>4
<1>10. ASSUME NEW k \in Lugares(otro)
       PROVE  k \in Lugares(fcb) /\ BloqueEn(otro, qs, k) = BloqueEn(fcb, ps, k)
  <2>1. k \in Lugares(fcb)
    BY <1>1, <1>9
  <2>2. k = -1 => n # 2
    BY <1>1, <1>9
  <2>3. k # 0 /\ k # -1 => qs[k] = ps[k]
    BY <1>1, <1>7, <1>9
  <2>. QED
    BY <1>4, <2>1, <2>2, <2>3 DEF BloqueEn
<1>11. /\ n = 1 => BloquesQueSuelta(fcb, ps) = {fcb.directo}
       /\ n = 2 => BloquesQueSuelta(fcb, ps) = {Last(ps), fcb.indirecto}
       /\ n > 2 => BloquesQueSuelta(fcb, ps) = {Last(ps)}
  BY <1>1 DEF BloquesQueSuelta, n
<1>12. n > 1 => Last(ps) = ps[n - 1]
  BY <1>1, <1>6 DEF Last
<1>13. ASSUME NEW k \in Lugares(fcb), k \notin Lugares(otro)
       PROVE  BloqueEn(fcb, ps, k) \in BloquesQueSuelta(fcb, ps)
  <2>1. CASE n = 1
    <3>1. k = 0
      BY <1>9, <1>13, <2>1
    <3>. QED
      BY <1>11, <2>1, <3>1 DEF BloqueEn
  <2>2. CASE n = 2
    <3>1. k = 1 \/ k = -1
      BY <1>9, <1>13, <2>2
    <3>. QED
      BY <1>11, <1>12, <2>2, <3>1 DEF BloqueEn
  <2>3. CASE n > 2
    <3>1. k = n - 1
      BY <1>1, <1>9, <1>13, <2>3
    <3>. QED
      BY <1>1, <1>11, <1>12, <2>3, <3>1 DEF BloqueEn
  <2>. QED
    BY <1>1, <2>1, <2>2, <2>3
<1>14. ASSUME NEW x \in BloquesQueSuelta(fcb, ps)
       PROVE  \E k \in Lugares(fcb) : k \notin Lugares(otro) /\ x = BloqueEn(fcb, ps, k)
  <2>1. CASE n = 1
    <3>1. 0 \in Lugares(fcb) /\ 0 \notin Lugares(otro)
      BY <1>9, <2>1
    <3>. QED
      BY <1>11, <2>1, <3>1 DEF BloqueEn
  <2>2. CASE n = 2
    <3>1. 1 \in Lugares(fcb) /\ 1 \notin Lugares(otro) /\ -1 \in Lugares(fcb) /\ -1 \notin Lugares(otro)
      BY <1>9, <2>2
    <3>2. BloqueEn(fcb, ps, 1) = Last(ps) /\ BloqueEn(fcb, ps, -1) = fcb.indirecto
      BY <1>12, <2>2 DEF BloqueEn
    <3>. QED
      BY <1>11, <2>2, <3>1, <3>2
  <2>3. CASE n > 2
    <3>1. n - 1 \in Lugares(fcb) /\ n - 1 \notin Lugares(otro)
      BY <1>1, <1>9, <2>3
    <3>2. BloqueEn(fcb, ps, n - 1) = Last(ps)
      BY <1>1, <1>12, <2>3 DEF BloqueEn
    <3>. QED
      BY <1>1, <1>11, <2>3, <3>1, <3>2
  <2>. QED
    BY <1>1, <2>1, <2>2, <2>3
<1>. QED
  BY <1>5, <1>8, <1>10, <1>13, <1>14 DEF n

\* DisminuirUnBloque.
LEMMA SanoDisminuir ==
    ASSUME Tipos, Sano, DisminuirUnBloque, NEW f, f = pedido.archivo
    PROVE  Tipos' /\ Sano' /\ Mengua
<1> DEFINE fcb == lista_fcb[f]
           n == Asignados(fcb)
           ps == pedido.punteros
           otro == [fcb EXCEPT !.indirecto = IF Asignados(fcb) = 2 THEN NoPuntero ELSE @,
                               !.tamanio = @ - BLOCK_SIZE]
           qs == IF Asignados(fcb) = 1 THEN ps ELSE Front(ps)
           S == BloquesQueSuelta(fcb, ps)
<1>1. pedido # SinPedido /\ pedido.fase = "disminuir" /\ pedido.faltan > 0
  BY DEF DisminuirUnBloque, EnFase
<1>2. /\ pedido \in Pedido /\ f \in DOMAIN lista_fcb /\ pedido.faltan \in Nat
      /\ pedido.reduce = TRUE
  BY <1>1, PedidoTipo DEF Tipos
<1>3. EnCurso(f)
  BY <1>1 DEF EnCurso
<1>4. BienFormado(fcb, ps) /\ FcbEntero(fcb) /\ Punteros(f) = ps /\ n \in Nat
  <2>1. BienFormado(fcb, Punteros(f)) /\ Punteros(f) = ps
    BY <1>2, <1>3, PunterosPuntual DEF Sano
  <2>. QED
    BY <2>1, TamanioDe DEF BienFormado
<1>5. pedido.faltan <= n /\ ps = PunterosEn(bloques, fcb)
  <2>1. PedidoBien
    BY <1>1 DEF Sano
  <2>. QED
    BY <1>1, <1>2, <2>1, PunterosPuntual DEF PedidoBien
<1>6. n > 0
  BY <1>1, <1>2, <1>4, <1>5
<1>7. /\ ocupados' = ocupados \ S
      /\ DOMAIN lista_fcb' = DOMAIN lista_fcb
      /\ lista_fcb'[f] = otro
      /\ \A g \in DOMAIN lista_fcb : g # f => lista_fcb'[g] = lista_fcb[g]
      /\ pedido' = [pedido EXCEPT !.faltan = @ - 1, !.punteros = qs]
      /\ bloques' = bloques /\ fcb_en_disco' = fcb_en_disco
      /\ traslado' = traslado /\ danio' = danio
  BY <1>2 DEF DisminuirUnBloque
<1>. UnBloqueFuera(fcb, ps, otro, qs)
  BY DEF UnBloqueFuera
<1> HIDE DEF otro, qs, S
<1>8. /\ BienFormado(otro, qs) /\ Asignados(otro) = n - 1
      /\ \A k \in Lugares(otro) :
            k \in Lugares(fcb) /\ BloqueEn(otro, qs, k) = BloqueEn(fcb, ps, k)
      /\ \A k \in Lugares(fcb) : k \notin Lugares(otro) => BloqueEn(fcb, ps, k) \in S
      /\ \A x \in S : \E k \in Lugares(fcb) : k \notin Lugares(otro) /\ x = BloqueEn(fcb, ps, k)
  BY <1>4, <1>6, FcbAlDisminuir DEF S
<1>9. qs \in Seq(Bloque) /\ FcbEntero(otro)
  BY <1>8 DEF BienFormado
<1>10. /\ pedido' \in Pedido /\ pedido' # SinPedido
       /\ pedido'.archivo = f /\ pedido'.fase = "disminuir" /\ pedido'.reduce = TRUE
       /\ pedido'.faltan = pedido.faltan - 1 /\ pedido'.punteros = qs
  <2>1. qs \in Seq(Bloque \cup {SinBloque})
    <3>1. Bloque \subseteq Bloque \cup {SinBloque}
      OBVIOUS
    <3>. QED
      BY <1>9, <3>1
  <2>2. pedido.faltan - 1 \in Nat
    BY <1>1, <1>2
  <2>3. pedido' \in Pedido
    BY <1>2, <1>7, <2>1, <2>2 DEF Pedido
  <2>4. /\ pedido'.archivo = f /\ pedido'.fase = "disminuir" /\ pedido'.reduce = TRUE
        /\ pedido'.faltan = pedido.faltan - 1 /\ pedido'.punteros = qs
    BY <1>1, <1>2, <1>7 DEF Pedido
  <2>. QED
    BY <2>3, <2>4 DEF SinPedido
<1>11. Tipos'
  <2>1. \A g \in DOMAIN lista_fcb : FcbEntero(lista_fcb'[g]) /\ FcbEntero(fcb_en_disco'[g])
    BY <1>7, <1>9 DEF Tipos
  <2>2. ocupados' \in SUBSET Bloque /\ bloques' \in ArchivoDeBloques
        /\ danio' \in Corruptos \cup {"ninguno", "fuga"} /\ danio' \notin Corruptos
    BY <1>1, <1>2, <1>7 DEF Tipos
  <2>. QED
    BY <1>1, <1>7, <1>10, <2>1, <2>2, TiposDeFcb
<1>12. Punteros(f)' = qs
  <2>1. EnCurso(f)'
    BY <1>10 DEF EnCurso
  <2>. QED
    BY <1>10, <2>1, PunterosPuntualSig
<1>13. ASSUME NEW g \in DOMAIN lista_fcb, g # f
       PROVE  /\ BienFormado(lista_fcb'[g], Punteros(g)')
              /\ DOMAIN Mapa'[g] = DOMAIN Mapa[g]
              /\ \A k \in DOMAIN Mapa[g] : Mapa'[g][k] = Mapa[g][k]
  <2>1. ~Pedida(g) /\ ~Pedida(g)'
    BY <1>10, <1>13 DEF Pedida
  <2>. QED
    BY <1>7, <1>13, <2>1, OtroQuieto
<1>14. /\ DOMAIN Mapa' = DOMAIN lista_fcb /\ DOMAIN Mapa = DOMAIN lista_fcb
       /\ \A g \in DOMAIN lista_fcb : /\ DOMAIN Mapa[g] = Lugares(lista_fcb[g])
                                      /\ DOMAIN Mapa'[g] = Lugares(lista_fcb'[g])
       /\ \A k \in Lugares(fcb) : Mapa[f][k] = BloqueEn(fcb, ps, k)
       /\ \A k \in Lugares(otro) : Mapa'[f][k] = BloqueEn(otro, qs, k)
  <2>1. \A k \in Lugares(fcb) : Mapa[f][k] = BloqueEn(fcb, ps, k)
    BY <1>2, <1>4, MapaPuntual
  <2>2. \A k \in Lugares(otro) : Mapa'[f][k] = BloqueEn(otro, qs, k)
    BY <1>2, <1>7, <1>12, MapaPuntualSig
  <2>. QED
    BY <1>7, <2>1, <2>2, MapaPuntual, MapaPuntualSig
<1>15. ASSUME NEW g \in DOMAIN lista_fcb
       PROVE  /\ BienFormado(lista_fcb'[g], Punteros(g)')
              /\ Asignados(lista_fcb'[g]) <= Asignados(lista_fcb[g])
              /\ \A k \in Lugares(lista_fcb'[g]) :
                    k \in Lugares(lista_fcb[g]) /\ Mapa'[g][k] = Mapa[g][k]
  <2>1. CASE g = f
    BY <1>4, <1>7, <1>8, <1>12, <1>14, <2>1
  <2>2. CASE g # f
    <3>1. Asignados(lista_fcb[g]) \in Nat
      BY TamanioDe DEF Tipos
    <3>. QED
      BY <1>7, <1>13, <1>14, <2>2, <3>1
  <2>. QED
    BY <2>1, <2>2
<1>16. Mengua
  BY <1>7, <1>15 DEF Mengua
<1>17. Repartidos(Mapa) /\ Reservados(Mapa, ocupados)
  BY DEF Sano
<1>18. Repartidos(Mapa')
  BY <1>14, <1>15, <1>17, MapaMenor
<1>19. Reservados(Mapa', ocupados')
  <2>1. ASSUME NEW g \in DOMAIN Mapa', NEW k \in DOMAIN Mapa'[g]
        PROVE  Mapa'[g][k] \in ocupados'
    <3>1. /\ g \in DOMAIN lista_fcb /\ k \in Lugares(lista_fcb'[g]) /\ k \in Lugares(lista_fcb[g])
          /\ Mapa'[g][k] = Mapa[g][k] /\ Mapa[g][k] \in ocupados
      BY <1>14, <1>15, <1>17 DEF Reservados
    <3>2. Mapa[g][k] \notin S
      <4>1. ASSUME Mapa[g][k] \in S
            PROVE  FALSE
        <5>1. PICK j \in Lugares(fcb) : j \notin Lugares(otro) /\ Mapa[g][k] = BloqueEn(fcb, ps, j)
          BY <1>8, <4>1
        <5>2. Mapa[g][k] = Mapa[f][j]
          BY <1>14, <5>1
        <5>3. g = f /\ k = j
          BY <1>2, <3>1, <5>1, <5>2, LugaresDistintos
        <5>. QED
          BY <1>7, <3>1, <5>1, <5>3
      <4>. QED
        BY <4>1
    <3>. QED
      BY <1>7, <3>1, <3>2
  <2>. QED
    BY <2>1 DEF Reservados
<1>20. danio' = "ninguno" => SinFugas(Mapa', ocupados')
  <2>1. ASSUME danio' = "ninguno", NEW b \in ocupados'
        PROVE  \E g \in DOMAIN Mapa' : \E k \in DOMAIN Mapa'[g] : b = Mapa'[g][k]
    <3>1. b \in ocupados /\ b \notin S /\ SinFugas(Mapa, ocupados)
      BY <1>7, <2>1 DEF Sano
    <3>2. PICK g \in DOMAIN Mapa : \E k \in DOMAIN Mapa[g] : b = Mapa[g][k]
      BY <3>1 DEF SinFugas
    <3>3. PICK k \in DOMAIN Mapa[g] : b = Mapa[g][k]
      BY <3>2
    <3>4. g = f => k \in Lugares(otro)
      BY <1>8, <1>14, <3>1, <3>3
    <3>5. g \in DOMAIN Mapa' /\ k \in DOMAIN Mapa'[g] /\ Mapa'[g][k] = Mapa[g][k]
      <4>1. CASE g = f
        BY <1>7, <1>8, <1>14, <3>4, <4>1
      <4>2. CASE g # f
        BY <1>13, <1>14, <4>2
      <4>. QED
        BY <4>1, <4>2
    <3>. QED
      BY <3>3, <3>5
  <2>. QED
    BY <2>1 DEF SinFugas
<1>21. \A g \in DOMAIN lista_fcb' : ~Pedida(g)' => fcb_en_disco'[g] = lista_fcb'[g]
  <2>1. ASSUME NEW g \in DOMAIN lista_fcb, ~Pedida(g)'
        PROVE  fcb_en_disco'[g] = lista_fcb'[g]
    <3>1. g # f /\ ~Pedida(g)
      BY <1>10, <2>1 DEF Pedida
    <3>. QED
      BY <1>7, <3>1 DEF Sano
  <2>. QED
    BY <1>7, <2>1
<1>22. qs = PunterosEn(bloques, otro)
  <2>0. bloques \in ArchivoDeBloques
    BY DEF Tipos
  <2>1. CASE n - 1 <= 1
    <3>1. PunterosEn(bloques, otro) = <<>>
      BY <1>8, <1>9, <2>0, <2>1, PunterosDe
    <3>2. Len(qs) = 0
      BY <1>8, <2>1 DEF BienFormado
    <3>. QED
      BY <1>9, <3>1, <3>2
  <2>2. CASE n - 1 > 1
    <3>1. /\ otro.indirecto \in Bloque /\ Len(qs) = n - 2 /\ n - 1 <= 1 + BLOCK_SIZE
          /\ fcb.indirecto \in Bloque /\ Len(ps) = n - 1 /\ n <= 1 + BLOCK_SIZE /\ n > 1
      BY <1>4, <1>8, <2>2 DEF BienFormado
    <3>2. otro.indirecto = fcb.indirecto
      BY <1>4, <2>2 DEF otro, FcbEntero, Fcb
    <3> DEFINE us == PunterosEn(bloques, otro)
    <3>3. us \in Seq(Palabra) /\ Len(us) = n - 2
          /\ \A i \in 1..(n - 2) : us[i] = bloques[fcb.indirecto][i]
      <4>1. (n - 1) - 1 = n - 2
        BY <1>4
      <4>2. us \in Seq(Palabra) /\ Len(us) = (n - 1) - 1
            /\ \A i \in 1..((n - 1) - 1) : us[i] = bloques[otro.indirecto][i]
        <5> HIDE DEF n
        <5>. QED
          BY <1>8, <1>9, <2>0, <2>2, <3>1, PunterosDe
      <4>. QED
        BY <3>2, <4>1, <4>2
    <3>4. \A i \in 1..(n - 1) : ps[i] = bloques[fcb.indirecto][i]
      BY <1>4, <1>5, <2>0, <3>1, PunterosDe
    <3>5. \A i \in 1..(n - 2) : qs[i] = ps[i]
      <4>1. n # 1 /\ Len(ps) - 1 = n - 2 /\ Len(ps) > 0 /\ ps \in Seq(Bloque)
        BY <1>4, <2>2, <3>1 DEF BienFormado
      <4>. QED
        BY <4>1, SinElUltimo DEF qs
    <3>6. qs \in Seq(Palabra)
      <4>1. Bloque \subseteq Palabra
        BY DEF Palabra
      <4>. QED
        BY <1>9, <4>1
    <3>7. \A i \in 1..(n - 2) : qs[i] = us[i]
      <4>1. \A i \in 1..(n - 2) : i \in 1..(n - 1)
        BY <1>4
      <4>. QED
        BY <3>3, <3>4, <3>5, <4>1
    <3> HIDE DEF us
    <3>. QED
      BY <3>1, <3>3, <3>6, <3>7, SeqEqual DEF us
  <2>. QED
    BY <1>4, <2>1, <2>2
<1>23. PedidoBien'
  <2>1. PunterosIndirectos(lista_fcb[pedido.archivo])' = qs
    BY <1>7, <1>10, <1>22 DEF PunterosIndirectos, PunterosEn
  <2>2. pedido'.faltan <= Asignados(lista_fcb'[f])
    BY <1>2, <1>4, <1>5, <1>7, <1>8, <1>10
  <2>. QED
    BY <1>10, <2>1, <2>2 DEF PedidoBien
<1>24. Sano'
  BY <1>7, <1>15, <1>18, <1>19, <1>20, <1>21, <1>23 DEF Sano
<1>. QED
  BY <1>11, <1>16, <1>24

-----------------------------------------------------------------------------
(* The end of a request, the stop of the process and the new files *)

\* ActualizarFcb: the FCB on the disk is the one in memory.
LEMMA SanoActualizar ==
    ASSUME Tipos, Sano, ActualizarFcb
    PROVE  Sano' /\ Mapa' = Mapa /\ \A g \in DOMAIN lista_fcb : Punteros(g)' = Punteros(g)
<1>1. /\ pedido # SinPedido /\ pedido.fase \in {"actualizar", "disminuir"}
      /\ fcb_en_disco' = [fcb_en_disco EXCEPT ![pedido.archivo] = lista_fcb[pedido.archivo]]
      /\ pedido' = SinPedido /\ ocupados' = ocupados /\ bloques' = bloques
      /\ lista_fcb' = lista_fcb /\ danio' = danio
  BY DEF ActualizarFcb, EnFase
<1>2. ASSUME NEW g \in DOMAIN lista_fcb
      PROVE  Punteros(g)' = Punteros(g)
  <2>1. Punteros(g)' = PunterosEn(bloques, lista_fcb[g])
    BY <1>1, PunterosPuntualSig DEF EnCurso
  <2>2. CASE ~EnCurso(g)
    BY <2>1, <2>2, PunterosPuntual
  <2>3. CASE EnCurso(g)
    <3>1. pedido.fase = "disminuir" /\ pedido.archivo = g /\ pedido.reduce
      BY <1>1, <2>3 DEF EnCurso, Tipos
    <3>2. PedidoBien
      BY <1>1 DEF Sano
    <3>3. pedido.punteros = PunterosIndirectos(lista_fcb[g])
      BY <3>1, <3>2 DEF PedidoBien
    <3>. QED
      BY <2>1, <2>3, <3>3, PunterosPuntual
  <2>. QED
    BY <2>2, <2>3
<1>3. \A g \in DOMAIN lista_fcb : ~Pedida(g)' => fcb_en_disco'[g] = lista_fcb[g]
  <2>1. ASSUME NEW g \in DOMAIN lista_fcb
        PROVE  fcb_en_disco'[g] = lista_fcb[g]
    <3>1. CASE g = pedido.archivo
      BY <1>1, <3>1 DEF Tipos
    <3>2. CASE g # pedido.archivo
      <4>1. fcb_en_disco[g] = lista_fcb[g]
        BY <3>2 DEF Sano, Pedida
      <4>. QED
        BY <1>1, <3>2, <4>1 DEF Tipos
    <3>. QED
      BY <3>1, <3>2
  <2>. QED
    BY <2>1
<1>. QED
  BY <1>1, <1>2, <1>3, MismoMapa

\* Caida: the types.
LEMMA TiposCaida ==
    ASSUME Tipos, Caida
    PROVE  Tipos'
<1>1. pedido # SinPedido /\ pedido' = SinPedido /\ lista_fcb' = fcb_en_disco
      /\ ocupados' = ocupados /\ bloques' = bloques /\ fcb_en_disco' = fcb_en_disco
      /\ traslado' = traslado /\ danio' \in Corruptos \cup {"ninguno", "fuga"}
  BY DEF Caida, disco, Corruptos
<1>2. /\ DOMAIN lista_fcb' = DOMAIN lista_fcb
      /\ DOMAIN fcb_en_disco' = DOMAIN fcb_en_disco
      /\ \A g \in DOMAIN lista_fcb : FcbEntero(lista_fcb'[g]) /\ FcbEntero(fcb_en_disco'[g])
  BY <1>1 DEF Tipos
<1>. QED
  BY <1>1, <1>2, TiposDeFcb DEF Tipos

\* Caida while a file grows: each file has again the blocks that the disk gives it.
LEMMA SanoCaida ==
    ASSUME Tipos, Sano, Caida, danio' \notin Corruptos
    PROVE  Sano' /\ Mengua /\ ~pedido.reduce
<1> DEFINE f == pedido.archivo
           fcb == lista_fcb[f]
           antes == fcb_en_disco[f]
           qs == PunterosEn(bloques, antes)
<1>1. pedido # SinPedido /\ pedido' = SinPedido /\ lista_fcb' = fcb_en_disco
      /\ ocupados' = ocupados /\ bloques' = bloques /\ fcb_en_disco' = fcb_en_disco
  BY DEF Caida, disco
<1>2. ~pedido.reduce /\ danio' = "fuga"
  BY DEF Caida, Corruptos
<1>3. f \in DOMAIN lista_fcb
  BY <1>1, PedidoTipo
<1>4. /\ BienFormado(antes, qs)
      /\ \A k \in Lugares(antes) : k \in Lugares(fcb) /\ Mapa[f][k] = BloqueEn(antes, qs, k)
  <2>1. PedidoBien
    BY <1>1 DEF Sano
  <2>. QED
    BY <1>2, <2>1, PunterosPuntual DEF PedidoBien
<1>5. \A g \in DOMAIN lista_fcb : Punteros(g)' = PunterosEn(bloques, fcb_en_disco[g])
  <2>1. ASSUME NEW g \in DOMAIN lista_fcb
        PROVE  Punteros(g)' = PunterosEn(bloques, fcb_en_disco[g])
    <3>1. ~EnCurso(g)'
      BY <1>1 DEF EnCurso
    <3>2. Punteros(g)' = PunterosEn(bloques', lista_fcb'[g])
      BY <3>1, PunterosPuntualSig
    <3>. QED
      BY <1>1, <3>2
  <2>. QED
    BY <2>1
<1>6. /\ DOMAIN lista_fcb' = DOMAIN lista_fcb
      /\ DOMAIN Mapa' = DOMAIN lista_fcb /\ DOMAIN Mapa = DOMAIN lista_fcb
      /\ \A g \in DOMAIN lista_fcb :
            /\ DOMAIN Mapa[g] = Lugares(lista_fcb[g])
            /\ DOMAIN Mapa'[g] = Lugares(fcb_en_disco[g])
            /\ \A k \in Lugares(fcb_en_disco[g]) :
                  Mapa'[g][k] = BloqueEn(fcb_en_disco[g], PunterosEn(bloques, fcb_en_disco[g]), k)
            /\ \A k \in Lugares(lista_fcb[g]) : Mapa[g][k] = BloqueEn(lista_fcb[g], Punteros(g), k)
  <2>1. DOMAIN fcb_en_disco = DOMAIN lista_fcb
    BY DEF Tipos
  <2>. QED
    BY <1>1, <1>5, <2>1, MapaPuntual, MapaPuntualSig
<1>7. ASSUME NEW g \in DOMAIN lista_fcb
      PROVE  /\ BienFormado(lista_fcb'[g], Punteros(g)')
             /\ Asignados(lista_fcb'[g]) <= Asignados(lista_fcb[g])
             /\ \A k \in Lugares(lista_fcb'[g]) :
                   k \in Lugares(lista_fcb[g]) /\ Mapa'[g][k] = Mapa[g][k]
  <2>1. CASE g = f
    <3>1. FcbEntero(antes) /\ FcbEntero(fcb)
      BY <1>3 DEF Tipos
    <3>2. Asignados(antes) \in Nat /\ Asignados(fcb) \in Nat
      BY <3>1, TamanioDe
    <3>3. Asignados(antes) <= Asignados(fcb)
      <4> DEFINE m == Asignados(antes)
                 n == Asignados(fcb)
      <4>1. m > 0 => m - 1 \in Lugares(antes)
        BY <3>1, <3>2, LugaresDe
      <4>2. m > 0 => m - 1 \in Lugares(fcb)
        BY <1>4, <4>1
      <4>3. m > 0 => m - 1 \in 0..(n - 1) \/ m - 1 = -1
        BY <3>1, <4>2, LugaresDe
      <4> HIDE DEF m, n
      <4>4. m \in Nat /\ n \in Nat
        BY <3>2 DEF m, n
      <4>5. m <= n
        BY <4>3, <4>4
      <4>. QED
        BY <4>5 DEF m, n
    <3>4. lista_fcb'[g] = antes /\ Punteros(g)' = qs
      BY <1>1, <1>5, <2>1
    <3>5. \A k \in Lugares(antes) : Mapa'[f][k] = BloqueEn(antes, qs, k)
      BY <1>3, <1>6
    <3>. QED
      BY <1>4, <2>1, <3>3, <3>4, <3>5
  <2>2. CASE g # f
    <3>1. ~Pedida(g) /\ fcb_en_disco[g] = lista_fcb[g] /\ ~EnCurso(g)
      BY <2>2 DEF Pedida, EnCurso, Sano
    <3>2. Punteros(g) = PunterosEn(bloques, lista_fcb[g])
      BY <3>1, PunterosPuntual
    <3>3. BienFormado(lista_fcb[g], Punteros(g))
      BY DEF Sano
    <3>4. Asignados(lista_fcb[g]) \in Nat
      BY <3>3, TamanioDe DEF BienFormado
    <3>. QED
      BY <1>1, <1>5, <1>6, <3>1, <3>2, <3>3, <3>4
  <2>. QED
    BY <2>1, <2>2
<1>8. Mengua
  BY <1>1, <1>6, <1>7 DEF Mengua
<1>9. Repartidos(Mapa) /\ Reservados(Mapa, ocupados)
  BY DEF Sano
<1>10. \A g \in DOMAIN Mapa' : \A k \in DOMAIN Mapa'[g] :
         g \in DOMAIN Mapa /\ k \in DOMAIN Mapa[g] /\ Mapa'[g][k] = Mapa[g][k]
  BY <1>1, <1>6, <1>7
<1>11. Repartidos(Mapa')
  BY <1>9, <1>10, MapaMenor
<1>12. Reservados(Mapa', ocupados')
  BY <1>1, <1>9, <1>10 DEF Reservados
<1>13. \A g \in DOMAIN lista_fcb' : ~Pedida(g)' => fcb_en_disco'[g] = lista_fcb'[g]
  BY <1>1
<1>14. Sano'
  BY <1>1, <1>2, <1>6, <1>7, <1>11, <1>12, <1>13 DEF Sano
<1>. QED
  BY <1>2, <1>8, <1>14

\* CrearArchivo: the new file has no blocks.
LEMMA SanoCrear ==
    ASSUME Tipos, Sano, NEW f \in Archivo, CrearArchivo(f)
    PROVE  /\ Tipos' /\ Sano'
           /\ \A g \in DOMAIN lista_fcb :
                 /\ g \in DOMAIN lista_fcb' /\ lista_fcb'[g] = lista_fcb[g]
                 /\ \A k \in Lugares(lista_fcb[g]) : Mapa'[g][k] = Mapa[g][k]
<1> DEFINE vacio == [tamanio |-> 0, directo |-> 0, indirecto |-> NoPuntero]
<1>1. f \notin DOMAIN lista_fcb /\ pedido = SinPedido /\ pedido' = pedido
      /\ danio' = danio /\ ocupados' = ocupados /\ bloques' = bloques
      /\ traslado' = SinTraslado
  BY DEF CrearArchivo, AbrirArchivo, Atiende
<1>2. /\ lista_fcb' = [g \in DOMAIN lista_fcb \cup {f} |-> IF g = f THEN vacio ELSE lista_fcb[g]]
      /\ fcb_en_disco' = [g \in DOMAIN lista_fcb \cup {f} |->
                             IF g = f THEN vacio ELSE fcb_en_disco[g]]
  BY DEF CrearArchivo, Tipos
<1>3. FcbEntero(vacio) /\ Asignados(vacio) = 0 /\ vacio.directo \in Bloque
      /\ vacio.indirecto = NoPuntero
  <2>1. BLOCK_SIZE \in Nat \ {0} /\ 0 \in Bloque
    BY FileSystemAssumption DEF Bloque
  <2>2. 0 \div BLOCK_SIZE = 0 /\ 0 * BLOCK_SIZE = 0
    BY <2>1
  <2>. QED
    BY <2>1, <2>2 DEF FcbEntero, Asignados, Fcb, NoPuntero
<1> HIDE DEF vacio
<1>4. /\ DOMAIN lista_fcb' = DOMAIN lista_fcb \cup {f}
      /\ DOMAIN fcb_en_disco' = DOMAIN lista_fcb'
      /\ lista_fcb'[f] = vacio /\ fcb_en_disco'[f] = vacio
      /\ \A g \in DOMAIN lista_fcb : lista_fcb'[g] = lista_fcb[g] /\ fcb_en_disco'[g] = fcb_en_disco[g]
  BY <1>1, <1>2
<1>5. Tipos'
  BY <1>1, <1>3, <1>4 DEF Tipos
<1>6. ASSUME NEW g \in DOMAIN lista_fcb
      PROVE  /\ BienFormado(lista_fcb'[g], Punteros(g)')
             /\ DOMAIN Mapa'[g] = DOMAIN Mapa[g]
             /\ \A k \in DOMAIN Mapa[g] : Mapa'[g][k] = Mapa[g][k]
  <2>1. ~Pedida(g) /\ ~Pedida(g)'
    BY <1>1 DEF Pedida
  <2>. QED
    BY <1>1, <1>4, <2>1, OtroQuieto
<1>7. Punteros(f)' = <<>>
  <2>1. ~EnCurso(f)'
    BY <1>1 DEF EnCurso
  <2>2. Punteros(f)' = PunterosEn(bloques', lista_fcb'[f]) /\ bloques' \in ArchivoDeBloques
    BY <1>5, <2>1, PunterosPuntualSig DEF Tipos
  <2>. QED
    BY <1>3, <1>4, <2>2, PunterosDe
<1>8. BienFormado(vacio, <<>>)
  BY <1>3, FileSystemAssumption DEF BienFormado
<1>9. /\ DOMAIN Mapa' = DOMAIN lista_fcb' /\ DOMAIN Mapa = DOMAIN lista_fcb
      /\ DOMAIN Mapa'[f] = {}
      /\ \A g \in DOMAIN lista_fcb : DOMAIN Mapa[g] = Lugares(lista_fcb[g])
  <2>1. Lugares(vacio) = {}
    BY <1>3 DEF Lugares
  <2>. QED
    BY <1>4, <2>1, MapaPuntual, MapaPuntualSig
<1>10. \A g \in DOMAIN Mapa' : \A k \in DOMAIN Mapa'[g] :
         g \in DOMAIN Mapa /\ k \in DOMAIN Mapa[g] /\ Mapa'[g][k] = Mapa[g][k]
  BY <1>4, <1>6, <1>9
<1>11. Repartidos(Mapa) /\ Reservados(Mapa, ocupados)
  BY DEF Sano
<1>12. Repartidos(Mapa')
  BY <1>10, <1>11, MapaMenor
<1>13. Reservados(Mapa', ocupados')
  BY <1>1, <1>10, <1>11 DEF Reservados
<1>14. danio' = "ninguno" => SinFugas(Mapa', ocupados')
  <2>1. ASSUME danio' = "ninguno", NEW b \in ocupados'
        PROVE  \E g \in DOMAIN Mapa' : \E k \in DOMAIN Mapa'[g] : b = Mapa'[g][k]
    <3>1. b \in ocupados /\ SinFugas(Mapa, ocupados)
      BY <1>1, <2>1 DEF Sano
    <3>2. PICK g \in DOMAIN Mapa : \E k \in DOMAIN Mapa[g] : b = Mapa[g][k]
      BY <3>1 DEF SinFugas
    <3>3. PICK k \in DOMAIN Mapa[g] : b = Mapa[g][k]
      BY <3>2
    <3>4. g \in DOMAIN Mapa' /\ k \in DOMAIN Mapa'[g] /\ Mapa'[g][k] = Mapa[g][k]
      BY <1>4, <1>6, <1>9
    <3>. QED
      BY <3>3, <3>4
  <2>. QED
    BY <2>1 DEF SinFugas
<1>15. \A g \in DOMAIN lista_fcb' : fcb_en_disco'[g] = lista_fcb'[g]
  <2>1. \A g \in DOMAIN lista_fcb : fcb_en_disco[g] = lista_fcb[g]
    BY <1>1 DEF Sano, Pedida
  <2>. QED
    BY <1>4, <2>1
<1>16. \A g \in DOMAIN lista_fcb' : BienFormado(lista_fcb'[g], Punteros(g)')
  BY <1>4, <1>6, <1>7, <1>8
<1>17. Sano'
  BY <1>1, <1>12, <1>13, <1>14, <1>15, <1>16 DEF Sano
<1>. QED
  BY <1>4, <1>5, <1>6, <1>9, <1>17

-----------------------------------------------------------------------------
(* The start of a request *)

\* How many blocks a request adds, at most up to the block of pointers being full, or takes.
LEMMA Faltan ==
    ASSUME NEW n \in Nat, NEW t \in Tamanios
    PROVE  /\ n * BLOCK_SIZE \in Nat /\ t \in Nat
           /\ t > n * BLOCK_SIZE => /\ (t - n * BLOCK_SIZE) \div BLOCK_SIZE \in Nat
                                    /\ n + ((t - n * BLOCK_SIZE) \div BLOCK_SIZE) <= 1 + BLOCK_SIZE
           /\ t < n * BLOCK_SIZE => /\ (n * BLOCK_SIZE - t) \div BLOCK_SIZE \in Nat
                                    /\ (n * BLOCK_SIZE - t) \div BLOCK_SIZE <= n
<1> DEFINE b == BLOCK_SIZE
           p == n * b
<1>1. b \in Nat \ {0} /\ t \in Nat /\ t \div b <= 1 + b
  BY FileSystemAssumption
<1>2. p \in Nat
  BY <1>1, Division
<1>3. ASSUME t > p
      PROVE  (t - p) \div b \in Nat /\ n + ((t - p) \div b) <= 1 + b
  <2> DEFINE d == t - p
             q == d \div b
             r == d % b
             k == n + q
  <2>1. d \in Nat
    <3> HIDE DEF p
    <3>. QED
      BY <1>1, <1>2, <1>3
  <2> HIDE DEF d
  <2>2. q \in Nat /\ r \in 0..(b - 1) /\ d = q * b + r
    BY <1>1, <2>1, DivisionEntera
  <2> HIDE DEF q, r
  <2>3. k \in Nat /\ (n + q) * b = n * b + q * b
    BY <1>1, <2>2
  <2>4. t = k * b + r
    <3> DEFINE u == q * b
    <3>1. u \in Nat /\ k * b = p + u /\ d = u + r
      BY <1>1, <2>2, <2>3, Division
    <3> HIDE DEF u, p, k
    <3>. QED
      BY <1>1, <1>2, <2>1, <2>2, <3>1 DEF d
  <2> HIDE DEF k
  <2>5. t \div b = k
    BY <1>1, <2>2, <2>3, <2>4, DivisionUnica
  <2>6. k <= 1 + b
    BY <1>1, <2>5
  <2>. QED
    BY <2>2, <2>6 DEF d, q, k
<1>4. ASSUME t < p
      PROVE  (p - t) \div b \in Nat /\ (p - t) \div b <= n
  <2> DEFINE d == p - t
             q == d \div b
             r == d % b
             u == q * b
  <2>1. d \in Nat /\ d <= p
    <3> HIDE DEF p
    <3>. QED
      BY <1>1, <1>2, <1>4
  <2> HIDE DEF d
  <2>2. q \in Nat /\ r \in 0..(b - 1) /\ d = q * b + r
    BY <1>1, <2>1, DivisionEntera
  <2> HIDE DEF q, r
  <2>3. u \in Nat
    BY <1>1, <2>2, Division
  <2>4. u <= p
    <3> HIDE DEF u, p
    <3>1. d = u + r
      BY <2>2 DEF u
    <3>. QED
      BY <1>1, <1>2, <2>1, <2>2, <2>3, <3>1
  <2>5. q <= n
    BY <1>1, <2>2, <2>4, DivisionOrden
  <2>. QED
    BY <2>2, <2>5 DEF d, q
<1>. QED
  BY <1>1, <1>2, <1>3, <1>4

\* TruncarArchivo: nothing on the disk changes.
LEMMA SanoTruncar ==
    ASSUME Tipos, Sano, NEW f \in DOMAIN lista_fcb, NEW t \in Tamanios, TruncarArchivo(f, t)
    PROVE  /\ Tipos' /\ Sano' /\ Mapa' = Mapa
           /\ lista_fcb' = lista_fcb /\ bloques' = bloques
<1> DEFINE fcb == lista_fcb[f]
           n == Asignados(fcb)
           reduce == t < fcb.tamanio
           dif == IF reduce THEN fcb.tamanio - t ELSE t - fcb.tamanio
           q == dif \div BLOCK_SIZE
           ps == PunterosIndirectos(fcb)
<1>1. /\ pedido = SinPedido /\ dif # 0
      /\ pedido' = [fase |-> IF reduce THEN "disminuir" ELSE "aumentar", archivo |-> f,
                    reduce |-> reduce, faltan |-> q, punteros |-> ps, sincronizar |-> FALSE]
      /\ traslado' = SinTraslado
      /\ ocupados' = ocupados /\ bloques' = bloques /\ fcb_en_disco' = fcb_en_disco
      /\ lista_fcb' = lista_fcb /\ danio' = danio /\ danio \notin Corruptos
  BY DEF TruncarArchivo, Atiende, disco
<1>2. Punteros(f) = ps /\ ps = PunterosEn(bloques, fcb)
  BY <1>1, PunterosPuntual DEF EnCurso
<1>3. BienFormado(fcb, ps) /\ FcbEntero(fcb) /\ n \in Nat /\ ps \in Seq(Bloque)
  <2>1. BienFormado(fcb, ps)
    BY <1>2 DEF Sano
  <2>. QED
    BY <2>1, TamanioDe DEF BienFormado
<1>4. fcb.tamanio = n * BLOCK_SIZE
  BY <1>3 DEF FcbEntero
<1>5. /\ q \in Nat
      /\ ~reduce => n + q <= 1 + BLOCK_SIZE
      /\ reduce => q <= n
  <2> DEFINE u == n * BLOCK_SIZE
  <2>1. /\ u \in Nat /\ t \in Nat
        /\ t > u => (t - u) \div BLOCK_SIZE \in Nat /\ n + ((t - u) \div BLOCK_SIZE) <= 1 + BLOCK_SIZE
        /\ t < u => (u - t) \div BLOCK_SIZE \in Nat /\ (u - t) \div BLOCK_SIZE <= n
    <3> HIDE DEF n
    <3>. QED
      BY <1>3, Faltan
  <2> HIDE DEF n, u
  <2>2. fcb.tamanio = u
    BY <1>4 DEF u
  <2>3. CASE t < u
    BY <2>1, <2>2, <2>3
  <2>4. CASE t > u
    BY <2>1, <2>2, <2>4
  <2>5. t # u
    BY <1>1, <2>1, <2>2
  <2>. QED
    BY <2>1, <2>3, <2>4, <2>5
<1> HIDE DEF n, q, dif, ps
<1>6. /\ pedido' # SinPedido /\ pedido'.archivo = f /\ pedido'.reduce = reduce
      /\ pedido'.fase = (IF reduce THEN "disminuir" ELSE "aumentar")
      /\ pedido'.faltan = q /\ pedido'.punteros = ps /\ pedido'.sincronizar = FALSE
  BY <1>1 DEF SinPedido
<1>7. pedido' \in Pedido
  <2>1. ps \in Seq(Bloque \cup {SinBloque})
    <3>1. Bloque \subseteq Bloque \cup {SinBloque}
      OBVIOUS
    <3>. QED
      BY <1>3, <3>1
  <2>2. f \in Archivo
    BY DEF Tipos
  <2>. QED
    BY <1>1, <1>5, <2>1, <2>2 DEF Pedido
<1>8. Tipos'
  <2>1. pedido'.reduce = (pedido'.fase = "disminuir")
    BY <1>6
  <2>. QED
    BY <1>1, <1>6, <1>7, <2>1 DEF Tipos
<1>9. \A g \in DOMAIN lista_fcb : Punteros(g)' = Punteros(g)
  <2>1. ASSUME NEW g \in DOMAIN lista_fcb
        PROVE  Punteros(g)' = Punteros(g)
    <3>1. CASE g = f
      <4>1. EnCurso(f)'
        BY <1>6 DEF EnCurso
      <4>2. Punteros(f)' = ps
        BY <1>6, <4>1, PunterosPuntualSig
      <4>. QED
        BY <1>2, <3>1, <4>2
    <3>2. CASE g # f
      <4>1. ~EnCurso(g) /\ ~EnCurso(g)'
        BY <1>1, <1>6, <3>2 DEF EnCurso
      <4>. QED
        BY <1>1, <4>1, PunterosPuntual, PunterosPuntualSig
    <3>. QED
      BY <3>1, <3>2
  <2>. QED
    BY <2>1
<1>10. \A g \in DOMAIN lista_fcb : fcb_en_disco[g] = lista_fcb[g]
  BY <1>1 DEF Sano, Pedida
<1>11. Mapa' = Mapa
  <2>1. Mapa' = [g \in DOMAIN lista_fcb |->
                   [k \in Lugares(lista_fcb[g]) |-> BloqueEn(lista_fcb[g], Punteros(g)', k)]]
    BY <1>1 DEF Mapa
  <2>2. \A g \in DOMAIN lista_fcb :
           [k \in Lugares(lista_fcb[g]) |-> BloqueEn(lista_fcb[g], Punteros(g)', k)]
           = [k \in Lugares(lista_fcb[g]) |-> BloqueEn(lista_fcb[g], Punteros(g), k)]
    BY <1>9
  <2>. QED
    BY <2>1, <2>2 DEF Mapa
<1>12. PedidoBien'
  <2>1. /\ lista_fcb'[pedido'.archivo] = fcb /\ fcb_en_disco'[pedido'.archivo] = fcb
        /\ Mapa'[pedido'.archivo] = Mapa[f]
    BY <1>1, <1>6, <1>10, <1>11
  <2>2. /\ PunterosIndirectos(lista_fcb[pedido.archivo])' = ps
        /\ PunterosIndirectos(fcb_en_disco[pedido.archivo])' = ps
    BY <1>1, <2>1 DEF PunterosIndirectos, ps
  <2>3. \A k \in Lugares(fcb) : Mapa[f][k] = BloqueEn(fcb, ps, k)
    BY <1>2, MapaPuntual
  <2>4. /\ pedido'.fase = "aumentar" => Asignados(fcb) + pedido'.faltan <= 1 + BLOCK_SIZE
        /\ pedido'.fase = "disminuir" => pedido'.faltan <= Asignados(fcb)
    BY <1>5, <1>6 DEF n
  <2> HIDE DEF fcb
  <2>. QED
    BY <1>3, <1>6, <2>1, <2>2, <2>3, <2>4 DEF PedidoBien
<1>13. Sano'
  <2>1. \A g \in DOMAIN lista_fcb : ~Pedida(g)' => fcb_en_disco'[g] = lista_fcb[g]
    BY <1>1, <1>10
  <2>. QED
    BY <1>1, <1>9, <1>12, <2>1, MismoMapa
<1>. QED
  BY <1>1, <1>8, <1>11, <1>13

-----------------------------------------------------------------------------
(* F_READ and F_WRITE *)

\* Some words of a sequence.
LEMMA Trozo ==
    ASSUME NEW S, NEW s \in Seq(S), NEW p \in Nat, NEW t \in Nat, p + t <= Len(s)
    PROVE  /\ SubSeq(s, p + 1, p + t) \in Seq(S)
           /\ Len(SubSeq(s, p + 1, p + t)) = t
           /\ \A i \in 1..t : SubSeq(s, p + 1, p + t)[i] = s[p + i]
<1>1. SubSeq(s, p + 1, p + t) = [i \in 1..t |-> s[p + i]]
  <2>1. SubSeq(s, p + 1, p + t) = [i \in 1..((p + t) - (p + 1) + 1) |-> s[(p + 1) + i - 1]]
    OBVIOUS
  <2>2. (p + t) - (p + 1) + 1 = t /\ \A i \in 1..t : (p + 1) + i - 1 = p + i
    OBVIOUS
  <2>. QED
    BY <2>1, <2>2
<1>2. \A i \in 1..t : s[p + i] \in S
  <2>1. \A i \in 1..t : p + i \in 1..Len(s)
    OBVIOUS
  <2>. QED
    BY <2>1, ElementOfSeq
<1> DEFINE q == [i \in 1..t |-> s[p + i]]
<1>3. q \in Seq(S) /\ Len(q) = t /\ \A i \in 1..t : q[i] = s[p + i]
  BY <1>2
<1> HIDE DEF q
<1>4. SubSeq(s, p + 1, p + t) = q
  BY <1>1 DEF q
<1>. QED
  BY <1>3, <1>4

\* The words of a file, block by block.
LEMMA ContenidoDelArchivo ==
    ASSUME Tipos, Sano, NEW f \in DOMAIN lista_fcb
    PROVE  /\ Contenido(f) \in Seq(Palabra)
           /\ Len(Contenido(f)) = Asignados(lista_fcb[f]) * BLOCK_SIZE
           /\ \A k \in 0..(Asignados(lista_fcb[f]) - 1) :
                 /\ k \in Lugares(lista_fcb[f])
                 /\ \A j \in 1..BLOCK_SIZE :
                       Contenido(f)[k * BLOCK_SIZE + j] = bloques[Mapa[f][k]][j]
<1> DEFINE fcb == lista_fcb[f]
           ps == Punteros(f)
           n == Asignados(fcb)
<1>1. BienFormado(fcb, ps) /\ bloques \in ArchivoDeBloques
  BY DEF Sano, Tipos
<1>2. Contenido(f) = ContenidoDe(fcb, ps, bloques)
  BY DEF Contenido, ContenidoDe
<1>3. \A k \in 0..(n - 1) : k \in Lugares(fcb) /\ Mapa[f][k] = BloqueEn(fcb, ps, k)
  <2>1. FcbEntero(fcb)
    BY <1>1 DEF BienFormado
  <2>. QED
    BY <2>1, LugaresDe, MapaPuntual
<1> HIDE DEF fcb, ps, n
<1>4. /\ ContenidoDe(fcb, ps, bloques) \in Seq(Palabra)
      /\ Len(ContenidoDe(fcb, ps, bloques)) = n * BLOCK_SIZE
      /\ \A k \in 0..(n - 1), j \in 1..BLOCK_SIZE :
            ContenidoDe(fcb, ps, bloques)[k * BLOCK_SIZE + j] = bloques[BloqueEn(fcb, ps, k)][j]
  BY <1>1, PalabrasDelArchivo DEF n
<1>5. \A k \in 0..(n - 1) :
         /\ k \in Lugares(fcb)
         /\ \A j \in 1..BLOCK_SIZE : Contenido(f)[k * BLOCK_SIZE + j] = bloques[Mapa[f][k]][j]
  BY <1>2, <1>3, <1>4
<1>. QED
  BY <1>2, <1>4, <1>5 DEF n, fcb

\* The same, after a step.
LEMMA ContenidoDelArchivoSig ==
    ASSUME Tipos', Sano', NEW f, f \in DOMAIN lista_fcb'
    PROVE  /\ Contenido(f)' \in Seq(Palabra)
           /\ Len(Contenido(f)') = Asignados(lista_fcb'[f]) * BLOCK_SIZE
           /\ \A k \in 0..(Asignados(lista_fcb'[f]) - 1) :
                 /\ k \in Lugares(lista_fcb'[f])
                 /\ \A j \in 1..BLOCK_SIZE :
                       Contenido(f)'[k * BLOCK_SIZE + j] = bloques'[Mapa'[f][k]][j]
<1> DEFINE fcb == lista_fcb'[f]
           ps == Punteros(f)'
           n == Asignados(fcb)
<1>1. BienFormado(fcb, ps) /\ bloques' \in ArchivoDeBloques
  BY DEF Sano, Tipos
<1>2. Contenido(f)' = ContenidoDe(fcb, ps, bloques')
  BY DEF Contenido, ContenidoDe
<1>3. \A k \in 0..(n - 1) : k \in Lugares(fcb) /\ Mapa'[f][k] = BloqueEn(fcb, ps, k)
  <2>1. FcbEntero(fcb)
    BY <1>1 DEF BienFormado
  <2>. QED
    BY <2>1, LugaresDe, MapaPuntualSig
<1> HIDE DEF fcb, ps, n
<1>4. /\ ContenidoDe(fcb, ps, bloques') \in Seq(Palabra)
      /\ Len(ContenidoDe(fcb, ps, bloques')) = n * BLOCK_SIZE
      /\ \A k \in 0..(n - 1), j \in 1..BLOCK_SIZE :
            ContenidoDe(fcb, ps, bloques')[k * BLOCK_SIZE + j] = bloques'[BloqueEn(fcb, ps, k)][j]
  BY <1>1, PalabrasDelArchivo DEF n
<1>5. \A k \in 0..(n - 1) :
         /\ k \in Lugares(fcb)
         /\ \A j \in 1..BLOCK_SIZE : Contenido(f)'[k * BLOCK_SIZE + j] = bloques'[Mapa'[f][k]][j]
  BY <1>2, <1>3, <1>4
<1>. QED
  BY <1>2, <1>4, <1>5 DEF n, fcb

\* The buffer of F_READ and F_WRITE has the size of the file, or of a block when the file is
\* empty, and begins with the direct block; it is the file except when it has two blocks.
LEMMA BufferDelArchivo ==
    ASSUME Tipos, Sano, pedido = SinPedido, NEW f \in DOMAIN lista_fcb, NEW g \in Dato,
           NEW m, m = IF Asignados(lista_fcb[f]) > 1 THEN Asignados(lista_fcb[f]) ELSE 1,
           NEW buffer, buffer = BufferDeLectura(lista_fcb[f], BloqueDe(g))
    PROVE  /\ buffer = BufferDeEscritura(lista_fcb[f], BloqueDe(g))
           /\ buffer \in Seq(Palabra) /\ m \in Nat /\ Len(buffer) = m * BLOCK_SIZE
           /\ \A j \in 1..BLOCK_SIZE : buffer[j] = bloques[lista_fcb[f].directo][j]
           /\ Asignados(lista_fcb[f]) \notin {0, 2} => buffer = Contenido(f)
<1> DEFINE fcb == lista_fcb[f]
           n == Asignados(fcb)
           ps == PunterosIndirectos(fcb)
           u == bloques[fcb.directo]
           v == BloqueDe(g)
           c == Contenido(f)
           b == BLOCK_SIZE
<1>1. Punteros(f) = ps
  BY PunterosPuntual DEF EnCurso
<1>2. BienFormado(fcb, ps) /\ FcbEntero(fcb) /\ n \in Nat
  <2>1. BienFormado(fcb, ps)
    BY <1>1 DEF Sano
  <2>. QED
    BY <2>1, TamanioDe DEF BienFormado
<1>3. (fcb.indirecto # NoPuntero <=> n > 1) /\ (fcb.tamanio > BLOCK_SIZE <=> n > 1)
  <2>1. fcb.tamanio <= BLOCK_SIZE <=> n <= 1
    BY <1>2, TamanioDe
  <2>2. fcb.tamanio \in Nat /\ BLOCK_SIZE \in Nat
    BY <1>2, TamanioDe, FileSystemAssumption
  <2>3. n <= 1 => fcb.indirecto = NoPuntero
    BY <1>2 DEF BienFormado
  <2>4. n > 1 => fcb.indirecto # NoPuntero
    BY <1>2 DEF BienFormado
  <2> HIDE DEF fcb, n
  <2>. QED
    BY <1>2, <2>1, <2>2, <2>3, <2>4
<1>4. b \in Nat \ {0} /\ u \in [1..b -> Palabra] /\ v \in [1..b -> Palabra]
  <2>1. fcb.directo \in Bloque
    BY <1>2 DEF BienFormado
  <2>. QED
    BY <2>1, Escrito, FileSystemAssumption DEF Tipos, ArchivoDeBloques
<1>5. u \in Seq(Palabra) /\ v \in Seq(Palabra) /\ Len(u) = b /\ Len(v) = b
  <2> HIDE DEF u, v, b
  <2>. QED
    BY <1>4
<1>6. /\ c \in Seq(Palabra) /\ Len(c) = n * b
      /\ n > 0 => \A j \in 1..b : c[j] = u[j]
  <2>1. /\ c \in Seq(Palabra) /\ Len(c) = n * b
        /\ \A k \in 0..(n - 1) : \A j \in 1..b : c[k * b + j] = bloques[Mapa[f][k]][j]
    BY ContenidoDelArchivo
  <2>2. n > 0 => Mapa[f][0] = fcb.directo
    BY BloquesDelMapa
  <2>3. n > 0 => 0 \in 0..(n - 1)
    BY <1>2
  <2>4. \A j \in 1..b : 0 * b + j = j
    BY <1>4
  <2> HIDE DEF c, n
  <2>5. ASSUME n > 0, NEW j \in 1..b
        PROVE  c[j] = u[j]
    BY <2>1, <2>2, <2>3, <2>4, <2>5
  <2>. QED
    BY <2>1, <2>5
<1>7. CASE n <= 1
  <2>1. buffer = u /\ buffer = BufferDeEscritura(fcb, v) /\ m = 1
    BY <1>2, <1>3, <1>7 DEF BufferDeLectura, BufferDeEscritura
  <2>2. n \notin {0, 2} => buffer = c
    <3>1. ASSUME n \notin {0, 2}
          PROVE  u = c
      <4>1. n = 1 /\ 1 * b = b
        BY <1>2, <1>4, <1>7, <3>1
      <4> HIDE DEF u, c, n, b
      <4>2. Len(c) = b /\ \A j \in 1..b : c[j] = u[j]
        BY <1>6, <4>1
      <4>. QED
        BY <1>5, <1>6, <4>2, SeqEqual
    <3>. QED
      BY <2>1, <3>1
  <2>3. 1 * b = b
    BY <1>4
  <2> HIDE DEF u, v, b, n, c
  <2>. QED
    BY <1>4, <1>5, <2>1, <2>2, <2>3 DEF u, v, b, n, c
<1>8. CASE n > 1
  <2>1. buffer = TodosLosBloques(fcb, v) /\ buffer = BufferDeEscritura(fcb, v) /\ m = n
    BY <1>2, <1>3, <1>8 DEF BufferDeLectura, BufferDeEscritura
  <2>2. Len(ps) = n - 1
    BY <1>2, <1>8 DEF BienFormado
  <2>3. CASE n = 2
    <3>1. buffer = u \o v
      BY <2>1, <2>2, <2>3 DEF TodosLosBloques
    <3>2. 2 * b = b + b
      BY <1>4
    <3> HIDE DEF u, v, b
    <3>3. u \o v \in Seq(Palabra) /\ Len(u \o v) = b + b /\ \A j \in 1..b : (u \o v)[j] = u[j]
      BY <1>4, <1>5
    <3>4. buffer \in Seq(Palabra) /\ m \in Nat /\ Len(buffer) = m * b /\ \A j \in 1..b : buffer[j] = u[j]
      BY <1>2, <2>1, <2>3, <3>1, <3>2, <3>3
    <3>. QED
      BY <2>1, <2>3, <3>4 DEF u, v, b
  <2>4. CASE n # 2
    <3>1. buffer = u \o FlattenSeq([i \in DOMAIN ps |-> bloques[ps[i]]])
      <4>1. Len(ps) > 1
        <5> HIDE DEF n, ps
        <5>. QED
          BY <1>2, <1>8, <2>2, <2>4
      <4>. QED
        BY <2>1, <4>1 DEF TodosLosBloques
    <3>2. fcb.tamanio # 0
      <4>1. fcb.tamanio = 0 <=> n = 0
        BY <1>2, TamanioDe
      <4>. QED
        BY <1>8, <4>1
    <3>3. buffer = c
      BY <1>1, <3>1, <3>2 DEF Contenido
    <3> HIDE DEF c, u, v, b
    <3>4. buffer \in Seq(Palabra) /\ m \in Nat /\ Len(buffer) = m * b /\ \A j \in 1..b : buffer[j] = u[j]
      BY <1>2, <1>6, <1>8, <2>1, <3>3
    <3>. QED
      BY <2>1, <3>3, <3>4 DEF u, v, b, c
  <2>. QED
    BY <2>3, <2>4
<1>. QED
  BY <1>2, <1>7, <1>8

\* A step that writes no pointer keeps the map.
LEMMA SinPedidoMismoMapa ==
    ASSUME Tipos, Sano, pedido = SinPedido, pedido' = pedido, lista_fcb' = lista_fcb,
           ocupados' = ocupados, fcb_en_disco' = fcb_en_disco, danio' = danio,
           \A g \in DOMAIN lista_fcb : Asignados(lista_fcb[g]) > 1 =>
              bloques'[Mapa[g][-1]] = bloques[Mapa[g][-1]]
    PROVE  Sano' /\ Mapa' = Mapa /\ \A g \in DOMAIN lista_fcb : Punteros(g)' = Punteros(g)
<1>1. ASSUME NEW g \in DOMAIN lista_fcb
      PROVE  Punteros(g)' = Punteros(g) /\ fcb_en_disco'[g] = lista_fcb[g]
  <2>1. ~Pedida(g) /\ ~Pedida(g)'
    BY DEF Pedida
  <2>2. Punteros(g)' = Punteros(g)
    BY <2>1, OtroQuieto
  <2>. QED
    BY <2>1, <2>2 DEF Sano
<1>. QED
  BY <1>1, MismoMapa

\* LeerArchivo.
LEMMA SanoLeer ==
    ASSUME Tipos, Sano, NEW f \in DOMAIN lista_fcb, NEW a \in Accesos, NEW g \in Dato,
           LeerArchivo(f, a[1], a[2], BloqueDe(g))
    PROVE  /\ Tipos'
           /\ lista_fcb' = lista_fcb /\ bloques' = bloques
           /\ danio' \notin Corruptos => Sano' /\ Mapa' = Mapa /\ TrasladoFiel'
<1> DEFINE fcb == lista_fcb[f]
           n == Asignados(fcb)
           p == a[1]
           tam == a[2]
           buffer == BufferDeLectura(fcb, BloqueDe(g))
           m == IF n > 1 THEN n ELSE 1
           c == Contenido(f)
           trozo == SubSeq(buffer, p + 1, p + tam)
<1>1. p \in Nat /\ tam \in Nat \ {0} /\ BLOCK_SIZE \in Nat \ {0}
  BY FileSystemAssumption
<1>2. /\ pedido = SinPedido /\ pedido' = pedido /\ danio \notin Corruptos
      /\ p + tam <= Len(buffer)
      /\ traslado' = [op |-> "F_READ", archivo |-> f, puntero |-> p, datos |-> trozo]
      /\ danio' = TrasAcceso(fcb)
      /\ ocupados' = ocupados /\ bloques' = bloques /\ fcb_en_disco' = fcb_en_disco
      /\ lista_fcb' = lista_fcb
  BY DEF LeerArchivo, Atiende, disco
<1> HIDE DEF p, tam, buffer, c
<1>3. FcbEntero(fcb) /\ n \in Nat /\ (fcb.tamanio = 0 <=> n = 0)
  <2>1. FcbEntero(fcb)
    BY DEF Tipos
  <2>. QED
    BY <2>1, TamanioDe
<1>4. /\ buffer \in Seq(Palabra) /\ m \in Nat /\ Len(buffer) = m * BLOCK_SIZE
      /\ \A j \in 1..BLOCK_SIZE : buffer[j] = bloques[fcb.directo][j]
      /\ n \notin {0, 2} => buffer = c
  BY <1>2, BufferDelArchivo DEF buffer, c
<1> HIDE DEF m
<1>5. trozo \in Seq(Palabra) /\ Len(trozo) = tam
  BY <1>1, <1>2, <1>4, Trozo
<1> HIDE DEF trozo
<1>6. traslado' \in Traslado /\ traslado'.archivo = f /\ traslado' # SinTraslado
      /\ traslado'.op = "F_READ" /\ traslado'.puntero = p /\ traslado'.datos = trozo
  <2>1. f \in Archivo
    BY DEF Tipos
  <2>. QED
    BY <1>1, <1>2, <1>5, <2>1 DEF Traslado, SinTraslado
<1>7. danio' \in Corruptos \cup {"ninguno", "fuga"} /\ (danio' \notin Corruptos => danio' = danio /\ n # 0)
  BY <1>2, <1>3 DEF TrasAcceso, Corruptos, Tipos
<1>8. Tipos'
  BY <1>2, <1>6, <1>7 DEF Tipos
<1>9. ASSUME danio' \notin Corruptos
      PROVE  Sano' /\ Mapa' = Mapa /\ TrasladoFiel'
  <2>1. Sano' /\ Mapa' = Mapa /\ Punteros(f)' = Punteros(f)
    BY <1>2, <1>7, <1>9, SinPedidoMismoMapa
  <2>2. Contenido(f)' = c
    BY <1>2, <2>1 DEF Contenido, c
  <2>3. c \in Seq(Palabra) /\ Len(c) = n * BLOCK_SIZE
    BY ContenidoDelArchivo DEF c
  <2>4. ASSUME NEW i \in 1..tam, p + i <= BLOCK_SIZE \/ n # 2
        PROVE  trozo[i] = c[p + i]
    <3>1. trozo[i] = buffer[p + i]
      BY <1>1, <1>2, <1>4, Trozo DEF trozo
    <3>2. CASE n # 2
      BY <1>4, <1>7, <1>9, <3>1, <3>2
    <3>3. CASE n = 2 /\ p + i <= BLOCK_SIZE
      <4>1. \A j \in 1..BLOCK_SIZE : c[j] = bloques[fcb.directo][j]
        <5>1. /\ \A j \in 1..BLOCK_SIZE : c[0 * BLOCK_SIZE + j] = bloques[Mapa[f][0]][j]
              /\ Mapa[f][0] = fcb.directo
          BY <3>3, ContenidoDelArchivo, BloquesDelMapa DEF c
        <5>2. \A j \in 1..BLOCK_SIZE : 0 * BLOCK_SIZE + j = j
          BY <1>1
        <5>. QED
          BY <5>1, <5>2
      <4>2. p + i \in 1..BLOCK_SIZE
        BY <1>1, <3>3
      <4>. QED
        BY <1>4, <3>1, <4>1, <4>2
    <3>. QED
      BY <2>4, <3>2, <3>3
  <2>5. ASSUME NEW i \in DOMAIN traslado'.datos, Servida(traslado, i)'
        PROVE  i \in 1..tam /\ (p + i <= BLOCK_SIZE \/ n # 2)
    BY <1>2, <1>5, <1>6, <2>5 DEF Servida
  <2>6. \A i \in DOMAIN traslado'.datos :
           Servida(traslado, i)' => traslado'.datos[i] = Contenido(f)'[p + i]
    BY <1>6, <2>2, <2>4, <2>5
  <2>7. TrasladoFiel'
    BY <1>5, <1>6, <2>6 DEF TrasladoFiel
  <2>. QED
    BY <2>1, <2>7
<1>. QED
  BY <1>2, <1>8, <1>9

\* More words than a block has need more than one block.
LEMMA MasDeUnBloque ==
    ASSUME NEW t \in Nat, t > BLOCK_SIZE
    PROVE  CeilDivision(t, BLOCK_SIZE) > 1
<1> DEFINE b == BLOCK_SIZE
           q == t \div b
           r == t % b
<1>1. b \in Nat \ {0}
  BY FileSystemAssumption
<1>2. q \in Nat /\ r \in 0..(b - 1) /\ t = q * b + r
  BY <1>1, DivisionEntera
<1>3. CeilDivision(t, b) = q + (IF r > 0 THEN 1 ELSE 0)
  BY DEF CeilDivision
<1>4. 0 * b = 0 /\ 1 * b = b
  BY <1>1
<1> HIDE DEF b, q, r
<1>5. q # 0
  BY <1>1, <1>2, <1>4 DEF b
<1>6. q = 1 => r > 0
  BY <1>1, <1>2, <1>4 DEF b
<1>7. q + (IF r > 0 THEN 1 ELSE 0) > 1
  BY <1>1, <1>2, <1>5, <1>6
<1>. QED
  BY <1>3, <1>7 DEF b

\* obtener_n_punteros: the direct block, or every block of data in order.
LEMMA DestinosDe ==
    ASSUME Tipos, Sano, pedido = SinPedido, NEW f \in DOMAIN lista_fcb, NEW cantidad,
           NEW ds, ds = ObtenerNPunteros(cantidad, lista_fcb[f])
    PROVE  /\ ds \in Seq(Bloque)
           /\ Len(ds) = IF cantidad > 1 /\ Asignados(lista_fcb[f]) > 1
                        THEN Asignados(lista_fcb[f]) ELSE 1
           /\ ds[1] = lista_fcb[f].directo
           /\ Asignados(lista_fcb[f]) > 0 =>
                 \A k \in 1..Len(ds) : /\ k - 1 \in Lugares(lista_fcb[f])
                                       /\ k - 1 \in 0..(Asignados(lista_fcb[f]) - 1)
                                       /\ ds[k] = Mapa[f][k - 1]
           /\ \A i, j \in 1..Len(ds) : ds[i] = ds[j] => i = j
<1> DEFINE fcb == lista_fcb[f]
           n == Asignados(fcb)
           ps == PunterosIndirectos(fcb)
           resto == IF cantidad > 1 THEN ps ELSE <<>>
<1>1. Punteros(f) = ps
  BY PunterosPuntual DEF EnCurso
<1>2. BienFormado(fcb, ps) /\ FcbEntero(fcb) /\ n \in Nat /\ fcb.directo \in Bloque
      /\ ps \in Seq(Bloque) /\ Len(ps) = IF n > 1 THEN n - 1 ELSE 0
  <2>1. BienFormado(fcb, ps)
    BY <1>1 DEF Sano
  <2>2. n \in Nat
    BY <2>1, TamanioDe DEF BienFormado
  <2>. QED
    BY <2>1, <2>2 DEF BienFormado
<1>3. ds = <<fcb.directo>> \o resto
  BY DEF ObtenerNPunteros
<1>4. /\ \A i \in 1..Len(ps) : Mapa[f][i] = ps[i]
      /\ n > 0 => Mapa[f][0] = fcb.directo
  BY <1>1, BloquesDelMapa
<1>5. \A k \in 0..(n - 1) : k \in Lugares(fcb)
  BY <1>2, LugaresDe
<1>6. resto \in Seq(Bloque) /\ Len(resto) = (IF cantidad > 1 /\ n > 1 THEN n - 1 ELSE 0)
      /\ \A i \in 1..Len(resto) : resto[i] = ps[i] /\ i \in 1..Len(ps)
  <2>1. CASE cantidad > 1
    BY <1>2, <2>1
  <2>2. CASE ~(cantidad > 1)
    BY <1>2, <2>2
  <2>. QED
    BY <2>1, <2>2
<1> HIDE DEF fcb, n, ps, resto
<1>7. ds \in Seq(Bloque) /\ Len(ds) = Len(resto) + 1
      /\ ds[1] = fcb.directo /\ \A k \in 2..Len(ds) : ds[k] = resto[k - 1]
  BY <1>2, <1>3, <1>6
<1>8. Len(ds) = IF cantidad > 1 /\ n > 1 THEN n ELSE 1
  BY <1>2, <1>6, <1>7
<1>9. ASSUME n > 0, NEW k \in 1..Len(ds)
      PROVE  k - 1 \in Lugares(fcb) /\ k - 1 \in 0..(n - 1) /\ ds[k] = Mapa[f][k - 1]
  <2>1. k - 1 \in 0..(n - 1)
    BY <1>2, <1>8, <1>9
  <2>2. k - 1 \in Lugares(fcb)
    BY <1>5, <2>1
  <2>3. ds[k] = Mapa[f][k - 1]
    <3>1. CASE k = 1
      BY <1>4, <1>7, <1>9, <3>1
    <3>2. CASE k # 1
      <4>1. k \in 2..Len(ds) /\ k - 1 \in 1..Len(resto)
        <5>1. Len(resto) \in Nat
          BY <1>6
        <5>. QED
          BY <1>7, <1>9, <3>2, <5>1
      <4>. QED
        BY <1>4, <1>6, <1>7, <4>1
    <3>. QED
      BY <3>1, <3>2
  <2>. QED
    BY <2>1, <2>2, <2>3
<1>10. ASSUME NEW i \in 1..Len(ds), NEW j \in 1..Len(ds), ds[i] = ds[j]
       PROVE  i = j
  <2>1. CASE n > 0
    <3>1. /\ i - 1 \in Lugares(lista_fcb[f]) /\ j - 1 \in Lugares(lista_fcb[f])
          /\ Mapa[f][i - 1] = Mapa[f][j - 1]
      BY <1>9, <1>10, <2>1 DEF fcb
    <3>2. i - 1 = j - 1
      BY <3>1, LugaresDistintos
    <3>. QED
      BY <1>10, <3>2
  <2>2. CASE n = 0
    BY <1>8, <1>10, <2>2
  <2>. QED
    BY <1>2, <2>1, <2>2
<1>. QED
  BY <1>7, <1>8, <1>9, <1>10 DEF fcb, n

\* EscribirArchivo.
LEMMA SanoEscribir ==
    ASSUME Tipos, Sano, NEW f \in DOMAIN lista_fcb, NEW a \in Accesos, NEW g \in Dato,
           NEW dato \in Dato, EscribirArchivo(f, a[1], a[2], dato, BloqueDe(g))
    PROVE  /\ Tipos'
           /\ lista_fcb' = lista_fcb /\ traslado' # SinTraslado /\ traslado'.archivo = f
           /\ danio' \notin Corruptos =>
                 /\ Sano' /\ Mapa' = Mapa /\ TrasladoFiel'
                 /\ \A h \in DOMAIN lista_fcb : \A k \in Lugares(lista_fcb[h]) :
                       h # f \/ k = -1 => bloques'[Mapa[h][k]] = bloques[Mapa[h][k]]
<1> DEFINE fcb == lista_fcb[f]
           n == Asignados(fcb)
           p == a[1]
           tam == a[2]
           v == BloqueDe(g)
           buffer == BufferDeLectura(fcb, v)
           m == IF n > 1 THEN n ELSE 1
           nuevo == PonerEnBuffer(buffer, p, tam, dato)
           cant == CeilDivision(tam, BLOCK_SIZE)
           ds == ObtenerNPunteros(cant, fcb)
           datos == [i \in 1..tam |-> dato]
           c == Contenido(f)
<1>1. p \in Nat /\ tam \in Nat \ {0} /\ BLOCK_SIZE \in Nat \ {0}
  BY FileSystemAssumption
<1>2. pedido = SinPedido /\ danio \notin Corruptos
  BY DEF EscribirArchivo, Atiende
<1>3. FcbEntero(fcb) /\ n \in Nat /\ (fcb.tamanio = 0 <=> n = 0)
  <2>1. FcbEntero(fcb)
    BY DEF Tipos
  <2>. QED
    BY <2>1, TamanioDe
<1> HIDE DEF cant, buffer, v
<1>4. /\ buffer = BufferDeEscritura(fcb, v)
      /\ buffer \in Seq(Palabra) /\ m \in Nat /\ Len(buffer) = m * BLOCK_SIZE
  BY <1>2, BufferDelArchivo DEF buffer, v
<1>5. /\ p + tam <= Len(buffer)
      /\ bloques' = EscribirBuffer(bloques, ds, nuevo)
      /\ traslado' = [op |-> "F_WRITE", archivo |-> f, puntero |-> p, datos |-> datos]
      /\ danio' = TrasAcceso(fcb)
      /\ ocupados' = ocupados /\ fcb_en_disco' = fcb_en_disco
      /\ lista_fcb' = lista_fcb /\ pedido' = pedido
  BY <1>4 DEF EscribirArchivo, cant, v
<1>6. /\ ds \in Seq(Bloque)
      /\ Len(ds) = IF cant > 1 /\ n > 1 THEN n ELSE 1
      /\ n > 0 => \A k \in 1..Len(ds) : /\ k - 1 \in Lugares(fcb) /\ k - 1 \in 0..(n - 1)
                                        /\ ds[k] = Mapa[f][k - 1]
      /\ \A i, j \in 1..Len(ds) : ds[i] = ds[j] => i = j
  BY <1>2, DestinosDe
<1> HIDE DEF ds, p, tam
<1>7. nuevo \in [1..(m * BLOCK_SIZE) -> Palabra]
      /\ \A i \in (p + 1)..(p + tam) : i \in 1..(m * BLOCK_SIZE) /\ nuevo[i] = dato
  <2> DEFINE t == m * BLOCK_SIZE
  <2>1. buffer \in [1..t -> Palabra] /\ t \in Nat
    BY <1>1, <1>4, Division, LenProperties, SeqDef
  <2>2. dato \in Palabra
    BY DEF Palabra
  <2>3. p + tam <= t
    BY <1>4, <1>5
  <2> HIDE DEF t
  <2>4. nuevo = [i \in 1..t |-> IF i \in (p + 1)..(p + tam) THEN dato ELSE buffer[i]]
    BY <2>1 DEF PonerEnBuffer
  <2>5. \A i \in (p + 1)..(p + tam) : i \in 1..t
    BY <1>1, <2>1, <2>3
  <2>6. nuevo \in [1..t -> Palabra]
    BY <2>1, <2>2, <2>4
  <2>7. \A i \in (p + 1)..(p + tam) : nuevo[i] = dato
    BY <2>4, <2>5
  <2>. QED
    BY <2>5, <2>6, <2>7 DEF t
<1> HIDE DEF nuevo
<1>8. Len(ds) \in Nat /\ Len(ds) <= m
  BY <1>3, <1>6
<1> HIDE DEF m
<1>9. /\ bloques' \in ArchivoDeBloques
      /\ \A k \in 1..Len(ds), j \in 1..BLOCK_SIZE :
            bloques'[ds[k]][j] = nuevo[(k - 1) * BLOCK_SIZE + j]
      /\ \A x \in Bloque : (\A k \in 1..Len(ds) : ds[k] # x) => bloques'[x] = bloques[x]
  <2>1. /\ bloques \in ArchivoDeBloques /\ m \in Nat /\ Len(ds) <= m
        /\ ds \in Seq(Bloque) /\ nuevo \in [1..(m * BLOCK_SIZE) -> Palabra]
    BY <1>4, <1>6, <1>7, <1>8 DEF Tipos
  <2>2. \A i, j \in 1..Len(ds) : ds[i] = ds[j] => i = j
    BY <1>6
  <2> DEFINE final == EscribirBuffer(bloques, ds, nuevo)
  <2>3. /\ final \in ArchivoDeBloques
        /\ \A k \in 1..Len(ds), j \in 1..BLOCK_SIZE :
              final[ds[k]][j] = nuevo[(k - 1) * BLOCK_SIZE + j]
        /\ \A x \in Bloque : (\A k \in 1..Len(ds) : ds[k] # x) => final[x] = bloques[x]
    BY <2>1, <2>2, EscribeBuffer
  <2>. QED
    BY <1>5, <2>3
<1>10. datos \in Seq(Palabra) /\ Len(datos) = tam /\ \A i \in 1..tam : datos[i] = dato
  <2>1. dato \in Palabra
    BY DEF Palabra
  <2>. QED
    BY <1>1, <2>1
<1> HIDE DEF datos
<1>11. traslado' \in Traslado /\ traslado'.archivo = f /\ traslado' # SinTraslado
       /\ traslado'.op = "F_WRITE" /\ traslado'.puntero = p /\ traslado'.datos = datos
  <2>1. f \in Archivo
    BY DEF Tipos
  <2>. QED
    BY <1>1, <1>5, <1>10, <2>1 DEF Traslado, SinTraslado
<1>12. danio' \in Corruptos \cup {"ninguno", "fuga"}
       /\ (danio' \notin Corruptos => danio' = danio /\ n # 0)
  BY <1>3, <1>5 DEF TrasAcceso, Corruptos, Tipos
<1>13. Tipos'
  BY <1>2, <1>5, <1>9, <1>11, <1>12 DEF Tipos
<1>14. ASSUME danio' \notin Corruptos
       PROVE  /\ Sano' /\ Mapa' = Mapa /\ TrasladoFiel'
              /\ \A h \in DOMAIN lista_fcb : \A k \in Lugares(lista_fcb[h]) :
                    h # f \/ k = -1 => bloques'[Mapa[h][k]] = bloques[Mapa[h][k]]
  <2>1. n > 0 /\ danio' = danio
    BY <1>3, <1>12, <1>14
  <2>2. ASSUME NEW h \in DOMAIN lista_fcb, NEW k \in Lugares(lista_fcb[h]), h # f \/ k = -1
        PROVE  bloques'[Mapa[h][k]] = bloques[Mapa[h][k]]
    <3>1. Mapa[h][k] \in Bloque
      BY BloquesDelMapa
    <3>2. ASSUME NEW i \in 1..Len(ds)
          PROVE  ds[i] # Mapa[h][k]
      <4>1. i - 1 \in Lugares(lista_fcb[f]) /\ ds[i] = Mapa[f][i - 1] /\ i - 1 # -1
        BY <1>6, <2>1, <3>2
      <4>. QED
        BY <2>2, <4>1, LugaresDistintos
    <3>. QED
      BY <1>9, <3>1, <3>2
  <2>3. Sano' /\ Mapa' = Mapa
    <3>1. \A h \in DOMAIN lista_fcb : Asignados(lista_fcb[h]) > 1 =>
             bloques'[Mapa[h][-1]] = bloques[Mapa[h][-1]]
      <4>1. ASSUME NEW h \in DOMAIN lista_fcb, Asignados(lista_fcb[h]) > 1
            PROVE  -1 \in Lugares(lista_fcb[h])
        BY <4>1, LugaresDe DEF Tipos
      <4>. QED
        BY <2>2, <4>1
    <3>. QED
      BY <1>2, <1>5, <2>1, <3>1, SinPedidoMismoMapa
  <2> DEFINE d == Contenido(f)'
  <2>4. /\ d \in Seq(Palabra) /\ Len(d) = n * BLOCK_SIZE
        /\ \A k \in 0..(n - 1) : \A j \in 1..BLOCK_SIZE :
              d[k * BLOCK_SIZE + j] = bloques'[Mapa[f][k]][j]
    BY <1>5, <1>13, <2>3, ContenidoDelArchivoSig
  <2> HIDE DEF d
  <2>5. m = n
    BY <1>3, <2>1 DEF m
  <2>6. ASSUME NEW i \in 1..tam, p + i <= BLOCK_SIZE \/ tam > BLOCK_SIZE
        PROVE  d[p + i] = dato
    <3>1. p + i \in (p + 1)..(p + tam)
      BY <1>1
    <3>2. p + i \in 1..(n * BLOCK_SIZE) /\ nuevo[p + i] = dato
      BY <1>7, <2>5, <3>1
    <3>3. PICK k \in 0..(n - 1), j \in 1..BLOCK_SIZE : p + i = k * BLOCK_SIZE + j
      <4> HIDE DEF n
      <4>. QED
        BY <1>3, <3>2, PosicionEnBloque
    <3>4. k + 1 \in 1..Len(ds)
      <4>1. CASE tam > BLOCK_SIZE
        <5>1. cant > 1
          BY <1>1, <4>1, MasDeUnBloque DEF cant
        <5>2. Len(ds) = n
          <6>1. CASE n > 1
            BY <1>6, <5>1, <6>1
          <6>2. CASE ~(n > 1)
            BY <1>3, <1>6, <2>1, <6>2
          <6>. QED
            BY <6>1, <6>2
        <5>. QED
          BY <1>3, <3>3, <5>2
      <4>2. CASE p + i <= BLOCK_SIZE
        <5> DEFINE u == k * BLOCK_SIZE
        <5>1. u + j <= BLOCK_SIZE /\ u \in Nat
          <6>1. p + i <= BLOCK_SIZE
            BY <4>2
          <6>2. k \in Nat
            BY <1>3
          <6>. QED
            BY <1>1, <3>3, <6>1, <6>2, Division
        <5> HIDE DEF u
        <5>2. u < BLOCK_SIZE
          BY <1>1, <5>1
        <5>3. k < 1
          <6>1. k * BLOCK_SIZE < 1 * BLOCK_SIZE
            BY <1>1, <5>2 DEF u
          <6>2. k \in Nat
            BY <1>3
          <6>. QED
            BY <1>1, <6>1, <6>2, DivisionOrden
        <5>. QED
          BY <1>3, <1>6, <1>8, <5>3
      <4>. QED
        BY <2>6, <4>1, <4>2
    <3>5. (k + 1) - 1 = k /\ ds[k + 1] = Mapa[f][k]
      <4>1. (k + 1) - 1 = k
        BY <1>3
      <4>. QED
        BY <1>6, <2>1, <3>4, <4>1
    <3>6. bloques'[ds[k + 1]][j] = nuevo[k * BLOCK_SIZE + j]
      BY <1>9, <3>4, <3>5
    <3>. QED
      BY <2>4, <3>2, <3>3, <3>5, <3>6
  <2>7. ASSUME NEW i \in DOMAIN traslado'.datos, Servida(traslado, i)'
        PROVE  i \in 1..tam /\ (p + i <= BLOCK_SIZE \/ tam > BLOCK_SIZE)
    BY <1>10, <1>11, <2>7 DEF Servida
  <2>8. \A i \in DOMAIN traslado'.datos :
           Servida(traslado, i)' => traslado'.datos[i] = Contenido(f)'[p + i]
    BY <1>10, <1>11, <2>6, <2>7 DEF d
  <2>9. TrasladoFiel'
    BY <1>10, <1>11, <2>8 DEF TrasladoFiel
  <2>. QED
    BY <2>2, <2>3, <2>9
<1>. QED
  BY <1>5, <1>11, <1>13, <1>14

-----------------------------------------------------------------------------
(* The inductive invariant *)

\* There are no files at the start.
LEMMA InvFileSystemInit == Init => InvFileSystem /\ TrasladoFiel
<1> SUFFICES ASSUME Init
             PROVE  InvFileSystem /\ TrasladoFiel
  OBVIOUS
<1>1. /\ ocupados = {} /\ bloques = [b \in Bloque |-> BloqueDe(0)]
      /\ DOMAIN lista_fcb = {} /\ fcb_en_disco = lista_fcb
      /\ pedido = SinPedido /\ traslado = SinTraslado /\ danio = "ninguno"
  BY DEF Init
<1>2. bloques \in ArchivoDeBloques
  BY <1>1, Escrito DEF ArchivoDeBloques
<1>3. Tipos
  BY <1>1, <1>2 DEF Tipos
<1>4. DOMAIN Mapa = {}
  BY <1>1, MapaPuntual
<1>5. Sano
  BY <1>1, <1>4 DEF Sano, Repartidos, Reservados, SinFugas
<1>6. TrasladoFiel
  BY <1>1 DEF TrasladoFiel
<1>. QED
  BY <1>3, <1>5, <1>6 DEF InvFileSystem

\* A step of a request moves no words between a file and Memoria.
LEMMA SinTrasladoFiel ==
    ASSUME Tipos, pedido # SinPedido, traslado' = traslado
    PROVE  TrasladoFiel'
  BY DEF Tipos, TrasladoFiel

\* Every step keeps the inductive invariant, and F_READ and F_WRITE move the right words.
LEMMA InvFileSystemNext ==
    InvFileSystem /\ TrasladoFiel /\ [Next]_vars => InvFileSystem' /\ TrasladoFiel'
<1> SUFFICES ASSUME Tipos, danio \notin Corruptos => Sano, TrasladoFiel, [Next]_vars
             PROVE  Tipos' /\ (danio' \notin Corruptos => Sano') /\ TrasladoFiel'
  BY DEF InvFileSystem
<1>1. ASSUME NEW f \in Archivo, CrearArchivo(f)
      PROVE  Tipos' /\ (danio' \notin Corruptos => Sano') /\ TrasladoFiel'
  <2>1. Sano /\ traslado' = SinTraslado
    BY <1>1 DEF CrearArchivo, Atiende
  <2>. QED
    BY <1>1, <2>1, SanoCrear DEF TrasladoFiel
<1>2. ASSUME NEW f \in DOMAIN lista_fcb, NEW t \in Tamanios, TruncarArchivo(f, t)
      PROVE  Tipos' /\ (danio' \notin Corruptos => Sano') /\ TrasladoFiel'
  <2>1. Sano /\ traslado' = SinTraslado
    BY <1>2 DEF TruncarArchivo, Atiende
  <2>. QED
    BY <1>2, <2>1, SanoTruncar DEF TrasladoFiel
<1>3. ASSUME NEW f \in DOMAIN lista_fcb, NEW a \in Accesos, NEW g \in Dato,
             LeerArchivo(f, a[1], a[2], BloqueDe(g))
      PROVE  Tipos' /\ (danio' \notin Corruptos => Sano') /\ TrasladoFiel'
  <2>1. Sano
    BY <1>3 DEF LeerArchivo, Atiende
  <2>2. Tipos' /\ (danio' \notin Corruptos => Sano' /\ TrasladoFiel')
    BY <1>3, <2>1, SanoLeer
  <2>. QED
    BY <2>2 DEF TrasladoFiel
<1>4. ASSUME NEW f \in DOMAIN lista_fcb, NEW a \in Accesos, NEW g \in Dato, NEW dato \in Dato,
             EscribirArchivo(f, a[1], a[2], dato, BloqueDe(g))
      PROVE  Tipos' /\ (danio' \notin Corruptos => Sano') /\ TrasladoFiel'
  <2>1. Sano
    BY <1>4 DEF EscribirArchivo, Atiende
  <2>2. Tipos' /\ (danio' \notin Corruptos => Sano' /\ TrasladoFiel')
    BY <1>4, <2>1, SanoEscribir
  <2>. QED
    BY <2>2 DEF TrasladoFiel
<1>5. PICK f : f = pedido.archivo
  OBVIOUS
<1>6. CASE AumentarDirecto
  <2>1. pedido # SinPedido /\ traslado' = traslado /\ (danio' \notin Corruptos => danio' = danio)
    BY <1>6 DEF AumentarDirecto, EnFase, Corruptos
  <2>2. danio' \notin Corruptos => Sano'
    BY <1>5, <1>6, <2>1, SanoAumentarDirecto
  <2>. QED
    BY <1>6, <2>1, <2>2, TiposAumentarDirecto, SinTrasladoFiel
<1>7. CASE AumentarIndirecto
  <2>1. pedido # SinPedido /\ traslado' = traslado
    BY <1>7 DEF AumentarIndirecto, EnFase
  <2>2. danio' \notin Corruptos => danio' = danio
    BY <1>7 DEF AumentarIndirecto, Corruptos
  <2>3. danio' \notin Corruptos => Sano'
    BY <1>5, <1>7, <2>2, SanoAumentarIndirecto
  <2>. QED
    BY <1>7, <2>1, <2>3, TiposAumentarIndirecto, SinTrasladoFiel
<1>8. CASE SincronizarPunteros
  <2>1. pedido # SinPedido /\ traslado' = traslado /\ danio' = danio
    BY <1>8 DEF SincronizarPunteros, EnFase
  <2>2. danio' \notin Corruptos => Sano'
    BY <1>5, <1>8, <2>1, SanoSincronizar
  <2>. QED
    BY <1>8, <2>1, <2>2, TiposSincronizar, SinTrasladoFiel
<1>9. CASE DisminuirUnBloque
  <2>1. pedido # SinPedido /\ traslado' = traslado /\ pedido.fase = "disminuir"
    BY <1>9 DEF DisminuirUnBloque, EnFase
  <2>2. Sano
    BY <2>1 DEF Tipos
  <2>. QED
    BY <1>5, <1>9, <2>1, <2>2, SanoDisminuir, SinTrasladoFiel
<1>10. CASE ActualizarFcb
  <2>1. pedido # SinPedido /\ traslado' = traslado /\ danio' = danio
    BY <1>10 DEF ActualizarFcb, EnFase
  <2>2. danio' \notin Corruptos => Sano'
    BY <1>10, <2>1, SanoActualizar
  <2>. QED
    BY <1>10, <2>1, <2>2, TiposActualizar, SinTrasladoFiel
<1>11. CASE Caida
  <2>1. pedido # SinPedido /\ traslado' = traslado /\ danio \notin Corruptos
    BY <1>11 DEF Caida, Corruptos
  <2>2. danio' \notin Corruptos => Sano'
    BY <1>11, <2>1, SanoCaida
  <2>. QED
    BY <1>11, <2>1, <2>2, TiposCaida, SinTrasladoFiel
<1>12. CASE UNCHANGED vars
  <2>1. /\ ocupados' = ocupados /\ bloques' = bloques /\ fcb_en_disco' = fcb_en_disco
        /\ lista_fcb' = lista_fcb /\ pedido' = pedido /\ traslado' = traslado /\ danio' = danio
    BY <1>12 DEF vars, disco
  <2>2. Tipos'
    BY <2>1 DEF Tipos
  <2>3. ASSUME danio' \notin Corruptos
        PROVE  Sano'
    <3>1. Sano
      BY <2>1, <2>3
    <3>2. \A g \in DOMAIN lista_fcb : Punteros(g)' = Punteros(g)
      BY <2>1 DEF Punteros, EnCurso, PunterosIndirectos
    <3>3. \A g \in DOMAIN lista_fcb : ~Pedida(g)' => fcb_en_disco'[g] = lista_fcb[g]
      BY <2>1, <3>1 DEF Sano, Pedida
    <3>4. Mapa' = Mapa
      BY <2>1 DEF Mapa, Punteros, EnCurso, PunterosIndirectos
    <3>5. pedido' # SinPedido => PedidoBien'
      BY <2>1, <3>1, <3>4 DEF Sano, PedidoBien, PunterosIndirectos
    <3>. QED
      BY <2>1, <3>1, <3>2, <3>3, <3>5, MismoMapa
  <2>4. TrasladoFiel'
    BY <2>1 DEF TrasladoFiel, Servida, Contenido, Punteros, EnCurso, PunterosIndirectos
  <2>. QED
    BY <2>2, <2>3, <2>4
<1>. QED
  BY <1>1, <1>2, <1>3, <1>4, <1>6, <1>7, <1>8, <1>9, <1>10, <1>11, <1>12 DEF Next

\* The inductive invariant holds in every state.
THEOREM InvFileSystemSiempre == Spec => [](InvFileSystem /\ TrasladoFiel)
<1>. QED
  BY InvFileSystemInit, InvFileSystemNext, PTL DEF Spec

\* The bitmap, the blocks and the FCBs have their types, and every size is a number of
\* blocks, whatever the requests and even after the disk is not what the code believes.
THEOREM TipoFileSystemSiempre == Spec => []TipoFileSystem
<1>1. InvFileSystem => TipoFileSystem
  <2> SUFFICES ASSUME Tipos
               PROVE  TipoFileSystem
    BY DEF InvFileSystem
  <2>1. ASSUME NEW b \in Bloque
        PROVE  Len(bloques[b]) = BLOCK_SIZE /\ ToSet(bloques[b]) \subseteq Palabra
    <3>1. bloques[b] \in [1..BLOCK_SIZE -> Palabra] /\ BLOCK_SIZE \in Nat
      BY FileSystemAssumption DEF Tipos, ArchivoDeBloques
    <3>2. Len(bloques[b]) = BLOCK_SIZE
      BY <3>1
    <3>3. ToSet(bloques[b]) \subseteq Palabra
      BY <3>1 DEF ToSet
    <3>. QED
      BY <3>2, <3>3
  <2>2. \A f \in DOMAIN lista_fcb : lista_fcb[f] \in Fcb /\ lista_fcb[f].tamanio % BLOCK_SIZE = 0
    BY TamanioDe DEF Tipos, FcbEntero
  <2>3. \A f \in DOMAIN fcb_en_disco : fcb_en_disco[f] \in Fcb
    BY DEF Tipos, FcbEntero
  <2>. QED
    BY <2>1, <2>2, <2>3 DEF Tipos, TipoFileSystem
<1>. QED
  BY <1>1, InvFileSystemSiempre, PTL

\* Of every F_READ and F_WRITE the buffer covers, the words in the first block of the file
\* are the ones sent to Memoria, or got from it.  So are the words past the first block,
\* when a file that does not have exactly two blocks is read, and when more words than a
\* block holds are written.  Nothing is said of the others (Servida).
THEOREM TrasladoFielSiempre == Spec => []TrasladoFiel
<1>. QED
  BY InvFileSystemSiempre, PTL

-----------------------------------------------------------------------------
(* The uses of the blocks *)

\* Uses of different blocks are as many as the blocks.
LEMMA UsosDistintos ==
    ASSUME NEW usos, \A u \in usos : u[3] \in Bloque,
           \A u, w \in usos : u[3] = w[3] => u = w
    PROVE  SinCompartir(usos)
<1> DEFINE T == BloquesUsados(usos)
           F == [u \in usos |-> u[3]]
<1>1. IsFiniteSet(T)
  <2>1. T \subseteq Bloque
    BY DEF BloquesUsados
  <2>2. IsFiniteSet(Bloque)
    BY FileSystemAssumption, FS_Interval DEF Bloque
  <2>. QED
    BY <2>1, <2>2, FS_Subset
<1>2. F \in [usos -> T] /\ \A t \in T : \E u \in usos : F[u] = t
  BY DEF BloquesUsados
<1>3. F \in Injection(usos, T)
  <2>1. \A u, w \in DOMAIN F : F[u] = F[w] => u = w
    OBVIOUS
  <2>. QED
    BY <1>2, <2>1 DEF Injection, IsInjective
<1>4. F \in Surjection(usos, T)
  BY <1>2 DEF Surjection
<1> HIDE DEF F, T
<1>5. Cardinality(usos) = Cardinality(T)
  BY <1>1, <1>3, <1>4, FS_Injection
<1>. QED
  BY <1>5 DEF SinCompartir, T

\* The blocks of an FCB with their places.
LEMMA BloquesDeUnFcb ==
    ASSUME NEW fcb, NEW ps, BienFormado(fcb, ps), NEW u
    PROVE  u \in BloquesDe(fcb, ps) <=> \E k \in Lugares(fcb) : u = <<k, BloqueEn(fcb, ps, k)>>
<1> DEFINE n == Asignados(fcb)
<1>1. FcbEntero(fcb) /\ n \in Nat /\ ps \in Seq(Bloque) /\ (fcb.tamanio > 0 <=> n > 0)
  <2>1. FcbEntero(fcb)
    BY DEF BienFormado
  <2>. QED
    BY <2>1, TamanioDe DEF BienFormado
<1>2. /\ n <= 1 => fcb.indirecto = NoPuntero /\ Len(ps) = 0
      /\ n > 1 => fcb.indirecto # NoPuntero /\ Len(ps) = n - 1
  BY DEF BienFormado
<1>3. \A k : k \in Lugares(fcb) <=> (k \in 0..(n - 1)) \/ (k = -1 /\ n > 1)
  BY <1>1, LugaresDe
<1>4. u \in BloquesDe(fcb, ps) <=>
         \/ fcb.tamanio > 0 /\ u = <<0, fcb.directo>>
         \/ fcb.indirecto # NoPuntero /\ u = <<-1, fcb.indirecto>>
         \/ \E i \in DOMAIN ps : u = <<i, ps[i]>>
  BY DEF BloquesDe
<1>5. DOMAIN ps = 1..Len(ps) /\ Len(ps) \in Nat
  BY <1>1
<1> HIDE DEF n
<1>6. ASSUME u \in BloquesDe(fcb, ps)
      PROVE  \E k \in Lugares(fcb) : u = <<k, BloqueEn(fcb, ps, k)>>
  <2>1. CASE fcb.tamanio > 0 /\ u = <<0, fcb.directo>>
    <3>1. 0 \in Lugares(fcb)
      BY <1>1, <1>3, <2>1
    <3>. QED
      BY <2>1, <3>1 DEF BloqueEn
  <2>2. CASE fcb.indirecto # NoPuntero /\ u = <<-1, fcb.indirecto>>
    <3>1. -1 \in Lugares(fcb)
      BY <1>1, <1>2, <1>3, <2>2
    <3>. QED
      BY <2>2, <3>1 DEF BloqueEn
  <2>3. CASE \E i \in DOMAIN ps : u = <<i, ps[i]>>
    <3>1. PICK i \in 1..Len(ps) : u = <<i, ps[i]>>
      BY <1>5, <2>3
    <3>2. i \in Lugares(fcb) /\ i # 0 /\ i # -1
      BY <1>1, <1>2, <1>3, <1>5
    <3>. QED
      BY <3>1, <3>2 DEF BloqueEn
  <2>. QED
    BY <1>4, <1>6, <2>1, <2>2, <2>3
<1>7. ASSUME NEW k \in Lugares(fcb), u = <<k, BloqueEn(fcb, ps, k)>>
      PROVE  u \in BloquesDe(fcb, ps)
  <2>1. CASE k = 0
    <3>1. n > 0
      BY <1>1, <1>3, <2>1
    <3>. QED
      BY <1>1, <1>4, <1>7, <2>1, <3>1 DEF BloqueEn
  <2>2. CASE k = -1
    <3>1. n > 1
      BY <1>1, <1>3, <2>2
    <3>. QED
      BY <1>2, <1>4, <1>7, <2>2, <3>1 DEF BloqueEn
  <2>3. CASE k # 0 /\ k # -1
    <3>1. k \in 1..Len(ps)
      BY <1>1, <1>2, <1>3, <2>3
    <3>. QED
      BY <1>4, <1>5, <1>7, <2>3, <3>1 DEF BloqueEn
  <2>. QED
    BY <2>1, <2>2, <2>3
<1>. QED
  BY <1>6, <1>7

\* Some uses of the map: FCBs fcbs with pointers Q give blocks of the map in their places.
UsosDelMapa(fcbs, Q, usos) ==
    /\ DOMAIN fcbs = DOMAIN lista_fcb
    /\ usos = UNION {{<<f, u[1], u[2]>> : u \in BloquesDe(fcbs[f], Q[f])} : f \in DOMAIN fcbs}
    /\ \A f \in DOMAIN fcbs :
          /\ BienFormado(fcbs[f], Q[f])
          /\ \A k \in Lugares(fcbs[f]) :
                k \in Lugares(lista_fcb[f]) /\ BloqueEn(fcbs[f], Q[f], k) = Mapa[f][k]

\* Those uses share no block and are reserved.
LEMMA UsosBien ==
    ASSUME Tipos, Sano, NEW fcbs, NEW Q, NEW usos, UsosDelMapa(fcbs, Q, usos)
    PROVE  /\ SinCompartir(usos)
           /\ BloquesUsados(usos) \subseteq ocupados
           /\ \A f \in DOMAIN fcbs : \A k \in Lugares(fcbs[f]) : Mapa[f][k] \in BloquesUsados(usos)
<1> USE DEF UsosDelMapa
<1>1. ASSUME NEW w \in usos
      PROVE  \E f \in DOMAIN lista_fcb : \E k \in Lugares(lista_fcb[f]) : w = <<f, k, Mapa[f][k]>>
  <2>1. PICK f \in DOMAIN fcbs : w \in {<<f, u[1], u[2]>> : u \in BloquesDe(fcbs[f], Q[f])}
    OBVIOUS
  <2>2. PICK u \in BloquesDe(fcbs[f], Q[f]) : w = <<f, u[1], u[2]>>
    BY <2>1
  <2>3. BienFormado(fcbs[f], Q[f])
    OBVIOUS
  <2>4. PICK k \in Lugares(fcbs[f]) : u = <<k, BloqueEn(fcbs[f], Q[f], k)>>
    BY <2>2, <2>3, BloquesDeUnFcb
  <2>5. k \in Lugares(lista_fcb[f]) /\ w = <<f, k, Mapa[f][k]>>
    BY <2>2, <2>4
  <2>. QED
    BY <2>5
<1>2. \A w \in usos : w[3] \in Bloque /\ w[3] \in ocupados
  <2>1. ASSUME NEW w \in usos
        PROVE  w[3] \in Bloque /\ w[3] \in ocupados
    <3>1. PICK f \in DOMAIN lista_fcb : \E k \in Lugares(lista_fcb[f]) : w = <<f, k, Mapa[f][k]>>
      BY <1>1
    <3>2. PICK k \in Lugares(lista_fcb[f]) : w = <<f, k, Mapa[f][k]>>
      BY <3>1
    <3>3. Mapa[f][k] \in Bloque /\ Mapa[f][k] \in ocupados
      BY BloquesDelMapa
    <3>. QED
      BY <3>2, <3>3
  <2>. QED
    BY <2>1
<1>3. \A v, w \in usos : v[3] = w[3] => v = w
  <2>1. ASSUME NEW v \in usos, NEW w \in usos, v[3] = w[3]
        PROVE  v = w
    <3>1. PICK f \in DOMAIN lista_fcb : \E k \in Lugares(lista_fcb[f]) : v = <<f, k, Mapa[f][k]>>
      BY <1>1
    <3>2. PICK j \in Lugares(lista_fcb[f]) : v = <<f, j, Mapa[f][j]>>
      BY <3>1
    <3>3. PICK g \in DOMAIN lista_fcb : \E k \in Lugares(lista_fcb[g]) : w = <<g, k, Mapa[g][k]>>
      BY <1>1
    <3>4. PICK k \in Lugares(lista_fcb[g]) : w = <<g, k, Mapa[g][k]>>
      BY <3>3
    <3>5. Mapa[f][j] = Mapa[g][k]
      BY <2>1, <3>2, <3>4
    <3>6. f = g /\ j = k
      BY <3>5, LugaresDistintos
    <3>. QED
      BY <3>2, <3>4, <3>6
  <2>. QED
    BY <2>1
<1>4. ASSUME NEW f \in DOMAIN fcbs, NEW k \in Lugares(fcbs[f])
      PROVE  Mapa[f][k] \in BloquesUsados(usos)
  <2> DEFINE u == <<k, BloqueEn(fcbs[f], Q[f], k)>>
             w == <<f, u[1], u[2]>>
  <2>1. BienFormado(fcbs[f], Q[f])
    OBVIOUS
  <2>2. u \in BloquesDe(fcbs[f], Q[f])
    BY <2>1, BloquesDeUnFcb
  <2>3. w \in usos
    BY <2>2
  <2>4. w[3] = Mapa[f][k]
    OBVIOUS
  <2> HIDE DEF w
  <2>. QED
    BY <2>3, <2>4 DEF BloquesUsados
<1>5. SinCompartir(usos)
  BY <1>2, <1>3, UsosDistintos
<1>6. BloquesUsados(usos) \subseteq ocupados
  BY <1>2 DEF BloquesUsados
<1>. QED
  BY <1>4, <1>5, <1>6

\* While the disk is what the code believes, at every step of every request no block is in
\* two places, every block of a file is reserved in the bitmap, the pointers are as many as
\* the size says and no block is reserved for nobody unless the process stopped before.
THEOREM BitmapExactoSiempre == Spec => []BitmapExacto
<1>1. InvFileSystem => BitmapExacto
  <2> SUFFICES ASSUME Tipos, Sano, danio \notin Corruptos
               PROVE  BitmapExacto
    BY DEF InvFileSystem, BitmapExacto
  <2> DEFINE Q == [f \in DOMAIN lista_fcb |-> Punteros(f)]
             usos == UsosEnMemoria
  <2>1. \A f \in DOMAIN lista_fcb :
           /\ BienFormado(lista_fcb[f], Q[f])
           /\ \A k \in Lugares(lista_fcb[f]) : BloqueEn(lista_fcb[f], Q[f], k) = Mapa[f][k]
    BY MapaPuntual DEF Sano
  <2>2. usos = UNION {{<<f, u[1], u[2]>> : u \in BloquesDe(lista_fcb[f], Q[f])} :
                         f \in DOMAIN lista_fcb}
    <3>1. usos = UNION {{<<f, u[1], u[2]>> : u \in BloquesDe(lista_fcb[f], Punteros(f))} :
                           f \in DOMAIN lista_fcb}
      BY DEF UsosEnMemoria, Usos
    <3>2. \A f \in DOMAIN lista_fcb : Q[f] = Punteros(f)
      OBVIOUS
    <3> HIDE DEF Q, usos
    <3>. QED
      BY <3>1, <3>2
  <2> HIDE DEF Q
  <2>3. UsosDelMapa(lista_fcb, Q, usos)
    BY <2>1, <2>2 DEF UsosDelMapa
  <2> HIDE DEF usos
  <2>4. /\ SinCompartir(usos)
        /\ BloquesUsados(usos) \subseteq ocupados
        /\ \A f \in DOMAIN lista_fcb : \A k \in Lugares(lista_fcb[f]) :
              Mapa[f][k] \in BloquesUsados(usos)
    BY <2>3, UsosBien
  <2>5. ASSUME danio = "ninguno"
        PROVE  ocupados = BloquesUsados(usos)
    <3>1. ASSUME NEW b \in ocupados
          PROVE  b \in BloquesUsados(usos)
      <4>1. SinFugas(Mapa, ocupados)
        BY <2>5 DEF Sano
      <4>2. PICK f \in DOMAIN Mapa : \E k \in DOMAIN Mapa[f] : b = Mapa[f][k]
        BY <4>1 DEF SinFugas
      <4>3. PICK k \in DOMAIN Mapa[f] : b = Mapa[f][k]
        BY <4>2
      <4>4. f \in DOMAIN lista_fcb /\ k \in Lugares(lista_fcb[f])
        BY MapaPuntual
      <4>. QED
        BY <2>4, <4>3, <4>4
    <3>. QED
      BY <2>4, <3>1
  <2>6. ASSUME NEW f \in DOMAIN lista_fcb
        PROVE  Asignados(lista_fcb[f]) = Len(Punteros(f)) + IF lista_fcb[f].tamanio > 0 THEN 1 ELSE 0
    <3> DEFINE fcb == lista_fcb[f]
               n == Asignados(fcb)
               l == Len(Punteros(f))
    <3>1. BienFormado(fcb, Punteros(f))
      BY DEF Sano
    <3>2. n \in Nat /\ (fcb.tamanio > 0 <=> n > 0)
      BY <3>1, TamanioDe DEF BienFormado
    <3>3. (n <= 1 => l = 0) /\ (n > 1 => l = n - 1)
      BY <3>1 DEF BienFormado
    <3> HIDE DEF fcb, n, l
    <3>4. n = l + IF fcb.tamanio > 0 THEN 1 ELSE 0
      BY <3>2, <3>3
    <3>. QED
      BY <3>4 DEF fcb, n, l
  <2>. QED
    BY <2>4, <2>5, <2>6 DEF BitmapExacto, usos
<1>. QED
  BY <1>1, InvFileSystemSiempre, PTL

\* In every state in which no file is shrinking, what the disk gives each file is its own
\* and is reserved: the process may stop there.
THEOREM ReinicioSeguroSiempre == Spec => []ReinicioSeguro
<1>1. InvFileSystem => ReinicioSeguro
  <2> SUFFICES ASSUME Tipos, Sano, danio \notin Corruptos, ~(pedido # SinPedido /\ pedido.reduce)
               PROVE  ReinicioSeguro
    BY DEF InvFileSystem, ReinicioSeguro
  <2> DEFINE Q == [f \in DOMAIN fcb_en_disco |-> PunterosIndirectos(fcb_en_disco[f])]
             usos == UsosEnDisco
  <2>0. DOMAIN fcb_en_disco = DOMAIN lista_fcb
    BY DEF Tipos
  <2>1. ASSUME NEW f \in DOMAIN fcb_en_disco
        PROVE  /\ BienFormado(fcb_en_disco[f], Q[f])
               /\ \A k \in Lugares(fcb_en_disco[f]) :
                     /\ k \in Lugares(lista_fcb[f])
                     /\ BloqueEn(fcb_en_disco[f], Q[f], k) = Mapa[f][k]
    <3>1. CASE Pedida(f)
      <4>1. PedidoBien /\ pedido.archivo = f /\ ~pedido.reduce
        BY <3>1 DEF Pedida, Sano
      <4>. QED
        BY <4>1 DEF PedidoBien
    <3>2. CASE ~Pedida(f)
      <4>1. fcb_en_disco[f] = lista_fcb[f]
        BY <2>0, <3>2 DEF Sano
      <4>2. Q[f] = Punteros(f)
        BY <3>2, <4>1, PunterosPuntual DEF Pedida, EnCurso
      <4>3. BienFormado(lista_fcb[f], Punteros(f))
        BY <2>0 DEF Sano
      <4>. QED
        BY <2>0, <4>1, <4>2, <4>3, MapaPuntual
    <3>. QED
      BY <3>1, <3>2
  <2>2. usos = UNION {{<<f, u[1], u[2]>> : u \in BloquesDe(fcb_en_disco[f], Q[f])} :
                         f \in DOMAIN fcb_en_disco}
    <3>1. usos = UNION {{<<f, u[1], u[2]>> :
                            u \in BloquesDe(fcb_en_disco[f], PunterosIndirectos(fcb_en_disco[f]))} :
                           f \in DOMAIN fcb_en_disco}
      BY DEF UsosEnDisco, Usos
    <3>2. \A f \in DOMAIN fcb_en_disco : Q[f] = PunterosIndirectos(fcb_en_disco[f])
      OBVIOUS
    <3> HIDE DEF Q, usos
    <3>. QED
      BY <3>1, <3>2
  <2> HIDE DEF Q
  <2>3. UsosDelMapa(fcb_en_disco, Q, usos)
    BY <2>0, <2>1, <2>2 DEF UsosDelMapa
  <2> HIDE DEF usos
  <2>4. SinCompartir(usos) /\ BloquesUsados(usos) \subseteq ocupados
    BY <2>3, UsosBien
  <2>. QED
    BY <2>4 DEF ReinicioSeguro, usos
<1>. QED
  BY <1>1, InvFileSystemSiempre, PTL

-----------------------------------------------------------------------------
(* What the steps do to the words of the files *)

\* A file whose first blocks stay has a prefix of its words.
LEMMA AlMenguar ==
    ASSUME Tipos, Sano, Tipos', Sano', NEW f \in DOMAIN lista_fcb, f \in DOMAIN lista_fcb',
           Asignados(lista_fcb'[f]) <= Asignados(lista_fcb[f]),
           \A k \in 0..(Asignados(lista_fcb'[f]) - 1) :
              bloques'[Mapa'[f][k]] = bloques[Mapa[f][k]]
    PROVE  /\ IsPrefix(Contenido(f)', Contenido(f))
           /\ Asignados(lista_fcb'[f]) = Asignados(lista_fcb[f]) => Contenido(f)' = Contenido(f)
<1> DEFINE n == Asignados(lista_fcb[f])
           m == Asignados(lista_fcb'[f])
           c == Contenido(f)
           d == Contenido(f)'
<1>1. n \in Nat /\ m \in Nat
  BY TamanioDe DEF Tipos
<1>2. /\ c \in Seq(Palabra) /\ Len(c) = n * BLOCK_SIZE
      /\ \A k \in 0..(n - 1) : \A j \in 1..BLOCK_SIZE :
            c[k * BLOCK_SIZE + j] = bloques[Mapa[f][k]][j]
  BY ContenidoDelArchivo
<1>3. /\ d \in Seq(Palabra) /\ Len(d) = m * BLOCK_SIZE
      /\ \A k \in 0..(m - 1) : \A j \in 1..BLOCK_SIZE :
            d[k * BLOCK_SIZE + j] = bloques'[Mapa'[f][k]][j]
  BY ContenidoDelArchivoSig
<1>4. \A k \in 0..(m - 1) : bloques'[Mapa'[f][k]] = bloques[Mapa[f][k]]
  OBVIOUS
<1>5. m <= n
  OBVIOUS
<1> HIDE DEF n, m, c, d
<1>6. \A k \in 0..(m - 1), j \in 1..BLOCK_SIZE :
         d[k * BLOCK_SIZE + j] = c[k * BLOCK_SIZE + j]
  <2>1. \A k \in 0..(m - 1) : k \in 0..(n - 1)
    BY <1>1, <1>5
  <2>. QED
    BY <1>2, <1>3, <1>4, <2>1
<1>7. IsPrefix(d, c) /\ (m = n => d = c)
  <2>1. MismoComienzo(d, c, m)
    BY <1>6 DEF MismoComienzo
  <2>. QED
    BY <1>1, <1>2, <1>3, <1>5, <2>1, Prefijo
<1>. QED
  BY <1>7 DEF n, m, c, d

\* A file that keeps its blocks and gets others has its words and then theirs.
LEMMA AlCrecer ==
    ASSUME Tipos, Sano, Tipos', Sano', NEW f \in DOMAIN lista_fcb, f \in DOMAIN lista_fcb',
           Asignados(lista_fcb[f]) <= Asignados(lista_fcb'[f]),
           \A k \in 0..(Asignados(lista_fcb[f]) - 1) :
              bloques'[Mapa'[f][k]] = bloques[Mapa[f][k]],
           \A k \in Asignados(lista_fcb[f])..(Asignados(lista_fcb'[f]) - 1) :
              bloques'[Mapa'[f][k]] = BloqueDe(0)
    PROVE  /\ IsPrefix(Contenido(f), Contenido(f)')
           /\ \A i \in (Len(Contenido(f)) + 1)..Len(Contenido(f)') : Contenido(f)'[i] = 0
<1> DEFINE n == Asignados(lista_fcb[f])
           m == Asignados(lista_fcb'[f])
           c == Contenido(f)
           d == Contenido(f)'
<1>1. n \in Nat /\ m \in Nat
  BY TamanioDe DEF Tipos
<1>2. /\ c \in Seq(Palabra) /\ Len(c) = n * BLOCK_SIZE
      /\ \A k \in 0..(n - 1) : \A j \in 1..BLOCK_SIZE :
            c[k * BLOCK_SIZE + j] = bloques[Mapa[f][k]][j]
  BY ContenidoDelArchivo
<1>3. /\ d \in Seq(Palabra) /\ Len(d) = m * BLOCK_SIZE
      /\ \A k \in 0..(m - 1) : \A j \in 1..BLOCK_SIZE :
            d[k * BLOCK_SIZE + j] = bloques'[Mapa'[f][k]][j]
  BY ContenidoDelArchivoSig
<1>4. /\ \A k \in 0..(n - 1) : bloques'[Mapa'[f][k]] = bloques[Mapa[f][k]]
      /\ \A k \in n..(m - 1) : bloques'[Mapa'[f][k]] = BloqueDe(0)
  OBVIOUS
<1>5. n <= m
  OBVIOUS
<1> HIDE DEF n, m, c, d
<1>6. \A k \in 0..(n - 1), j \in 1..BLOCK_SIZE :
         c[k * BLOCK_SIZE + j] = d[k * BLOCK_SIZE + j]
  <2>1. \A k \in 0..(n - 1) : k \in 0..(m - 1)
    BY <1>1, <1>5
  <2>. QED
    BY <1>2, <1>3, <1>4, <2>1
<1>7. \A k \in n..(m - 1), j \in 1..BLOCK_SIZE : d[k * BLOCK_SIZE + j] = 0
  <2>1. \A j \in 1..BLOCK_SIZE : BloqueDe(0)[j] = 0
    BY DEF BloqueDe
  <2>2. ASSUME NEW k \in n..(m - 1), NEW j \in 1..BLOCK_SIZE
        PROVE  d[k * BLOCK_SIZE + j] = 0
    <3>1. k \in 0..(m - 1)
      BY <1>1
    <3>2. bloques'[Mapa'[f][k]] = BloqueDe(0)
      BY <1>4
    <3>3. d[k * BLOCK_SIZE + j] = bloques'[Mapa'[f][k]][j]
      BY <1>3, <3>1
    <3>. QED
      BY <2>1, <3>2, <3>3
  <2>. QED
    BY <2>2
<1>8. IsPrefix(c, d) /\ \A i \in (Len(c) + 1)..Len(d) : d[i] = 0
  <2>1. MismoComienzo(c, d, n)
    BY <1>6 DEF MismoComienzo
  <2>. QED
    BY <1>1, <1>2, <1>3, <1>5, <1>7, <2>1, Prefijo
<1>. QED
  BY <1>8 DEF c, d

\* A disk that is not what the code believes never becomes so again.
LEMMA DanioPermanece ==
    ASSUME Tipos, Next, danio' \notin Corruptos
    PROVE  danio \notin Corruptos
<1>1. CASE \E f \in Archivo :
              \/ CrearArchivo(f)
              \/ f \in DOMAIN lista_fcb /\ \E t \in Tamanios : TruncarArchivo(f, t)
              \/ /\ f \in DOMAIN lista_fcb
                 /\ \E a \in Accesos, g \in Dato :
                       \/ LeerArchivo(f, a[1], a[2], BloqueDe(g))
                       \/ \E dato \in Dato \ {0} :
                             EscribirArchivo(f, a[1], a[2], dato, BloqueDe(g))
  BY <1>1 DEF CrearArchivo, TruncarArchivo, LeerArchivo, EscribirArchivo, Atiende
<1>2. CASE AumentarDirecto
  BY <1>2 DEF AumentarDirecto, Corruptos
<1>3. CASE AumentarIndirecto
  BY <1>3 DEF AumentarIndirecto, Corruptos
<1>4. CASE SincronizarPunteros \/ DisminuirUnBloque \/ ActualizarFcb
  BY <1>4 DEF SincronizarPunteros, DisminuirUnBloque, ActualizarFcb
<1>5. CASE Caida
  BY <1>5 DEF Caida, Corruptos
<1>. QED
  BY <1>1, <1>2, <1>3, <1>4, <1>5 DEF Next

\* The requests are served one at a time, and the steps of one are about its file.
LEMMA PasoDePedido ==
    ASSUME Next, pedido # SinPedido
    PROVE  \/ AumentarDirecto \/ AumentarIndirecto \/ SincronizarPunteros
           \/ DisminuirUnBloque \/ ActualizarFcb \/ Caida
<1>1. ~Atiende
  BY DEF Atiende
<1>. QED
  BY <1>1 DEF Next, CrearArchivo, TruncarArchivo, LeerArchivo, EscribirArchivo

\* What a step leaves in its place: the file has as many blocks, the same ones, with the
\* same words.
Queda(g) ==
    /\ g \in DOMAIN lista_fcb'
    /\ Asignados(lista_fcb'[g]) = Asignados(lista_fcb[g])
    /\ \A k \in 0..(Asignados(lista_fcb[g]) - 1) : bloques'[Mapa'[g][k]] = bloques[Mapa[g][k]]

\* The steps of a request leave the other files in their place.
LEMMA PedidoAjeno ==
    ASSUME Tipos, Sano, Next, danio' \notin Corruptos, pedido # SinPedido,
           NEW g \in DOMAIN lista_fcb, ~Pedida(g)
    PROVE  Queda(g)
<1> DEFINE n == Asignados(lista_fcb[g])
<1>1. PICK f : f = pedido.archivo
  OBVIOUS
<1>2. g # f
  BY <1>1 DEF Pedida
<1>3. n \in Nat /\ FcbEntero(lista_fcb[g])
  BY TamanioDe DEF Tipos
<1>4. \A k \in 0..(n - 1) : k \in Lugares(lista_fcb[g]) /\ Mapa[g][k] \in ocupados
  BY <1>3, LugaresDe, BloquesDelMapa
<1>5. CASE AumentarDirecto \/ AumentarIndirecto
  <2>1. Crece(f)
    BY <1>1, <1>5, SanoAumentarDirecto, SanoAumentarIndirecto
  <2>2. /\ g \in DOMAIN lista_fcb' /\ Asignados(lista_fcb'[g]) = n
        /\ \A k \in Lugares(lista_fcb[g]) : Mapa'[g][k] = Mapa[g][k]
        /\ \A x \in ocupados : bloques'[x] = bloques[x]
    <3>1. /\ DOMAIN lista_fcb' = DOMAIN lista_fcb
          /\ \A x \in ocupados : bloques'[x] = bloques[x]
          /\ Asignados(lista_fcb'[g]) = n + (IF g = f THEN 1 ELSE 0)
          /\ \A k \in Lugares(lista_fcb[g]) : Mapa'[g][k] = Mapa[g][k]
      BY <2>1 DEF Crece
    <3>2. n + (IF g = f THEN 1 ELSE 0) = n
      <4> HIDE DEF n
      <4>. QED
        BY <1>2, <1>3
    <3>. QED
      BY <3>1, <3>2
  <2>. QED
    BY <1>4, <2>2 DEF Queda
<1>6. CASE SincronizarPunteros
  <2>1. /\ Mapa' = Mapa
        /\ \A k \in Lugares(lista_fcb[g]) : bloques'[Mapa[g][k]] = bloques[Mapa[g][k]]
    BY <1>1, <1>2, <1>6, SanoSincronizar
  <2>2. lista_fcb' = lista_fcb
    BY <1>6 DEF SincronizarPunteros
  <2>. QED
    BY <1>4, <2>1, <2>2 DEF Queda
<1>7. CASE DisminuirUnBloque \/ Caida
  <2>1. Mengua
    BY <1>1, <1>7, SanoDisminuir, SanoCaida
  <2>2. g \in DOMAIN lista_fcb' /\ lista_fcb'[g] = lista_fcb[g]
    <3>1. CASE DisminuirUnBloque
      BY <1>1, <1>2, <3>1 DEF DisminuirUnBloque
    <3>2. CASE Caida
      <4>1. lista_fcb' = fcb_en_disco /\ fcb_en_disco[g] = lista_fcb[g]
        BY <3>2 DEF Caida, Sano
      <4>. QED
        BY <4>1 DEF Tipos
    <3>. QED
      BY <1>7, <3>1, <3>2
  <2>. QED
    BY <1>4, <2>1, <2>2 DEF Queda, Mengua
<1>8. CASE ActualizarFcb
  <2>1. Mapa' = Mapa /\ lista_fcb' = lista_fcb /\ bloques' = bloques
    BY <1>8, SanoActualizar DEF ActualizarFcb
  <2>. QED
    BY <2>1 DEF Queda
<1>. QED
  BY <1>5, <1>6, <1>7, <1>8, PasoDePedido

\* The other requests leave in its place every file that F_WRITE has not written.
LEMMA NoEscrita ==
    ASSUME Tipos, Sano, Next, danio' \notin Corruptos, pedido = SinPedido,
           NEW g \in DOMAIN lista_fcb, ~Escrita(g)'
    PROVE  Queda(g)
<1> DEFINE n == Asignados(lista_fcb[g])
<1>3. n \in Nat /\ FcbEntero(lista_fcb[g])
  BY TamanioDe DEF Tipos
<1>4. \A k \in 0..(n - 1) : k \in Lugares(lista_fcb[g])
  BY <1>3, LugaresDe
<1>5. ASSUME NEW f \in Archivo, CrearArchivo(f)
      PROVE  Queda(g)
  <2>1. /\ g \in DOMAIN lista_fcb' /\ lista_fcb'[g] = lista_fcb[g]
        /\ \A k \in Lugares(lista_fcb[g]) : Mapa'[g][k] = Mapa[g][k]
    BY <1>5, SanoCrear
  <2>2. bloques' = bloques
    BY <1>5 DEF CrearArchivo
  <2>. QED
    BY <1>4, <2>1, <2>2 DEF Queda
<1>6. ASSUME NEW f \in DOMAIN lista_fcb, NEW t \in Tamanios, TruncarArchivo(f, t)
      PROVE  Queda(g)
  BY <1>6, SanoTruncar DEF Queda
<1>7. ASSUME NEW f \in DOMAIN lista_fcb, NEW a \in Accesos, NEW w \in Dato,
             LeerArchivo(f, a[1], a[2], BloqueDe(w))
      PROVE  Queda(g)
  BY <1>7, SanoLeer DEF Queda
<1>8. ASSUME NEW f \in DOMAIN lista_fcb, NEW a \in Accesos, NEW w \in Dato, NEW dato \in Dato,
             EscribirArchivo(f, a[1], a[2], dato, BloqueDe(w))
      PROVE  Queda(g)
  <2>1. /\ lista_fcb' = lista_fcb /\ traslado' # SinTraslado /\ traslado'.archivo = f
        /\ Mapa' = Mapa
        /\ \A h \in DOMAIN lista_fcb : \A k \in Lugares(lista_fcb[h]) :
              h # f \/ k = -1 => bloques'[Mapa[h][k]] = bloques[Mapa[h][k]]
    BY <1>8, SanoEscribir
  <2>2. g # f
    BY <2>1 DEF Escrita
  <2>. QED
    BY <1>4, <2>1, <2>2 DEF Queda
<1>9. ~EnFase("aumentar", TRUE) /\ ~EnFase("aumentar", FALSE) /\ ~EnFase("disminuir", TRUE)
      /\ ~EnFase("actualizar", FALSE) /\ ~EnFase("disminuir", FALSE)
  BY DEF EnFase
<1>. QED
  BY <1>5, <1>6, <1>7, <1>8, <1>9
  DEF Next, AumentarDirecto, AumentarIndirecto, SincronizarPunteros, DisminuirUnBloque,
      ActualizarFcb, Caida

\* A step that leaves a file in its place keeps its words.
LEMMA QuedaIgual ==
    ASSUME Tipos, Sano, Tipos', Sano', NEW g \in DOMAIN lista_fcb, Queda(g)
    PROVE  Contenido(g)' = Contenido(g)
<1>1. /\ g \in DOMAIN lista_fcb' /\ Asignados(lista_fcb'[g]) = Asignados(lista_fcb[g])
      /\ \A k \in 0..(Asignados(lista_fcb'[g]) - 1) :
            bloques'[Mapa'[g][k]] = bloques[Mapa[g][k]]
  BY DEF Queda
<1>2. Asignados(lista_fcb[g]) \in Nat
  BY TamanioDe DEF Tipos
<1>3. Asignados(lista_fcb'[g]) <= Asignados(lista_fcb[g])
  BY <1>1, <1>2
<1>. QED
  BY <1>1, <1>3, AlMenguar

\* The words of a file change only while its own F_TRUNCATE is served or when F_WRITE
\* writes it, whatever is done to the other files.
THEOREM AislamientoSiempre == Spec => AislamientoDeArchivos
<1>1. InvFileSystem /\ TrasladoFiel /\ [Next]_vars =>
        [\A f \in DOMAIN lista_fcb :
            danio' \notin Corruptos /\ ~Pedida(f) /\ ~Escrita(f)' => Contenido(f)' = Contenido(f)]_vars
  <2> SUFFICES ASSUME InvFileSystem, TrasladoFiel, Next, NEW f \in DOMAIN lista_fcb,
                      danio' \notin Corruptos, ~Pedida(f), ~Escrita(f)'
               PROVE  Contenido(f)' = Contenido(f)
    OBVIOUS
  <2>1. Tipos /\ Sano /\ Tipos' /\ Sano'
    <3>1. Tipos /\ danio \notin Corruptos
      BY DanioPermanece DEF InvFileSystem
    <3>2. InvFileSystem'
      BY InvFileSystemNext
    <3>. QED
      BY <3>1, <3>2 DEF InvFileSystem
  <2>2. Queda(f)
    <3>1. CASE pedido = SinPedido
      BY <2>1, <3>1, NoEscrita
    <3>2. CASE pedido # SinPedido
      BY <2>1, <3>2, PedidoAjeno
    <3>. QED
      BY <3>1, <3>2
  <2>. QED
    BY <2>1, <2>2, QuedaIgual
<1>. QED
  BY <1>1, InvFileSystemSiempre, PTL DEF Spec, AislamientoDeArchivos

\* The words of the file whose F_TRUNCATE is served: a growing file keeps its words and has
\* zeros after them, a shrinking one keeps the first, and so does one that was growing when
\* the process stopped.
THEOREM TruncarConservaSiempre == Spec => TruncarConserva
<1>1. InvFileSystem /\ TrasladoFiel /\ [Next]_vars =>
        [\A f \in DOMAIN lista_fcb :
            LET antes == Contenido(f)
                despues == Contenido(f)'
            IN  danio' \notin Corruptos /\ Pedida(f) =>
                   \/ /\ pedido.reduce \/ lista_fcb' = fcb_en_disco
                      /\ IsPrefix(despues, antes)
                   \/ /\ ~pedido.reduce
                      /\ IsPrefix(antes, despues)
                      /\ \A i \in (Len(antes) + 1)..Len(despues) : despues[i] = 0]_vars
  <2> SUFFICES ASSUME InvFileSystem, TrasladoFiel, Next, NEW f \in DOMAIN lista_fcb,
                      danio' \notin Corruptos, Pedida(f)
               PROVE  \/ /\ pedido.reduce \/ lista_fcb' = fcb_en_disco
                         /\ IsPrefix(Contenido(f)', Contenido(f))
                      \/ /\ ~pedido.reduce
                         /\ IsPrefix(Contenido(f), Contenido(f)')
                         /\ \A i \in (Len(Contenido(f)) + 1)..Len(Contenido(f)') :
                               Contenido(f)'[i] = 0
    OBVIOUS
  <2>1. Tipos /\ Sano /\ Tipos' /\ Sano'
    <3>1. Tipos /\ danio \notin Corruptos
      BY DanioPermanece DEF InvFileSystem
    <3>2. InvFileSystem'
      BY InvFileSystemNext
    <3>. QED
      BY <3>1, <3>2 DEF InvFileSystem
  <2> DEFINE n == Asignados(lista_fcb[f])
             m == Asignados(lista_fcb'[f])
             Alarga == /\ IsPrefix(Contenido(f), Contenido(f)')
                       /\ \A i \in (Len(Contenido(f)) + 1)..Len(Contenido(f)') :
                             Contenido(f)'[i] = 0
  <2>2. pedido # SinPedido /\ f = pedido.archivo
    BY DEF Pedida
  <2>3. n \in Nat /\ FcbEntero(lista_fcb[f])
    BY <2>1, TamanioDe DEF Tipos
  <2>4. \A k \in 0..(n - 1) : k \in Lugares(lista_fcb[f]) /\ Mapa[f][k] \in ocupados
    BY <2>1, <2>3, LugaresDe, BloquesDelMapa
  <2>5. ASSUME f \in DOMAIN lista_fcb', m = n,
               \A k \in 0..(n - 1) : bloques'[Mapa'[f][k]] = bloques[Mapa[f][k]]
        PROVE  IsPrefix(Contenido(f)', Contenido(f)) /\ Alarga
    <3>1. m <= n /\ n <= m
      BY <2>3, <2>5
    <3>2. \A k \in n..(m - 1) : bloques'[Mapa'[f][k]] = BloqueDe(0)
      BY <2>3, <2>5
    <3>. QED
      BY <2>1, <2>5, <3>1, <3>2, AlMenguar, AlCrecer
  <2>6. CASE AumentarDirecto \/ AumentarIndirecto
    <3>1. Crece(f)
      BY <2>1, <2>2, <2>6, SanoAumentarDirecto, SanoAumentarIndirecto
    <3>2. ~pedido.reduce
      BY <2>1, <2>2, <2>6 DEF AumentarDirecto, AumentarIndirecto, EnFase, Tipos
    <3>3. /\ f \in DOMAIN lista_fcb' /\ m = n + 1
          /\ \A k \in 0..(n - 1) : bloques'[Mapa'[f][k]] = bloques[Mapa[f][k]]
          /\ bloques'[Mapa'[f][n]] = BloqueDe(0)
      BY <2>4, <3>1 DEF Crece
    <3>4. n <= m /\ \A k \in n..(m - 1) : bloques'[Mapa'[f][k]] = BloqueDe(0)
      BY <2>3, <3>3
    <3>5. Alarga
      BY <2>1, <3>3, <3>4, AlCrecer
    <3>. QED
      BY <3>2, <3>5
  <2>7. CASE SincronizarPunteros
    <3>1. /\ Mapa' = Mapa /\ lista_fcb' = lista_fcb
          /\ \A k \in Lugares(lista_fcb[f]) : k # -1 => bloques'[Mapa[f][k]] = bloques[Mapa[f][k]]
      BY <2>1, <2>2, <2>7, SanoSincronizar DEF SincronizarPunteros
    <3>2. ~pedido.reduce
      BY <2>1, <2>2, <2>7 DEF SincronizarPunteros, EnFase, Tipos
    <3>3. m = n /\ f \in DOMAIN lista_fcb'
      BY <3>1
    <3>4. \A k \in 0..(n - 1) : bloques'[Mapa'[f][k]] = bloques[Mapa[f][k]]
      BY <2>3, <2>4, <3>1
    <3>. QED
      BY <2>5, <3>2, <3>3, <3>4
  <2>8. CASE ActualizarFcb
    <3>1. Mapa' = Mapa /\ lista_fcb' = lista_fcb /\ bloques' = bloques
      BY <2>1, <2>8, SanoActualizar DEF ActualizarFcb
    <3>. QED
      BY <2>5, <3>1
  <2>9. CASE DisminuirUnBloque \/ Caida
    <3>1. Mengua
      BY <2>1, <2>2, <2>9, SanoDisminuir, SanoCaida
    <3>2. pedido.reduce \/ lista_fcb' = fcb_en_disco
      BY <2>1, <2>2, <2>9 DEF DisminuirUnBloque, Caida, EnFase, Tipos
    <3>3. f \in DOMAIN lista_fcb' /\ m <= n /\ bloques' = bloques
          /\ \A k \in Lugares(lista_fcb'[f]) : Mapa'[f][k] = Mapa[f][k]
      BY <3>1 DEF Mengua
    <3>4. \A k \in 0..(m - 1) : k \in Lugares(lista_fcb'[f])
      <4>1. FcbEntero(lista_fcb'[f])
        BY <2>1, <3>3 DEF Tipos
      <4>. QED
        BY <4>1, LugaresDe
    <3>5. IsPrefix(Contenido(f)', Contenido(f))
      BY <2>1, <3>3, <3>4, AlMenguar
    <3>. QED
      BY <3>2, <3>5
  <2>. QED
    BY <2>2, <2>6, <2>7, <2>8, <2>9, PasoDePedido
<1>. QED
  BY <1>1, InvFileSystemSiempre, PTL DEF Spec, TruncarConserva
=============================================================================

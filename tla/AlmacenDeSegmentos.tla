------------------------- MODULE AlmacenDeSegmentos -------------------------
(***************************************************************************)
(* What Memoria promises to the processes, without addresses, holes or     *)
(* lists: each segment keeps the bytes its owners wrote in it, a process   *)
(* reaches its own segments and the shared segment 0, and nothing else     *)
(* moves them.  Compaction cannot be seen.                                 *)
(***************************************************************************)
EXTENDS Naturals

CONSTANTS Pid,          \* the processes
          Descriptor,   \* the names of the segments
          Compartido,   \* the name of segment 0
          SegmentoId,   \* the ids a process may give to its segments
          Tamanios,     \* the sizes a process may ask for
          TAM_SEGMENTO_0,
          Byte          \* the values of a byte

VARIABLES almacen,      \* the live segments: id, owners and contents
          procesos      \* the processes that have a table

almacenVars == <<almacen, procesos>>

Contenidos(n) == [0..(n - 1) -> Byte]
Propios(p) == {d \in DOMAIN almacen : d # Compartido /\ p \in almacen[d].duenos}

AbrirTabla(p) ==
    /\ p \notin procesos
    /\ procesos' = procesos \cup {p}
    /\ almacen' = [almacen EXCEPT ![Compartido].duenos = @ \cup {p}]

CerrarTabla(p) ==
    /\ p \in procesos
    /\ procesos' = procesos \ {p}
    /\ almacen' = [d \in DOMAIN almacen \ Propios(p) |->
                      [almacen[d] EXCEPT !.duenos = @ \ {p}]]

\* The bytes of a new segment are whatever its last owner left.
CrearSegmentoDe(p, id, n) ==
    /\ p \in procesos
    /\ \E d \in Descriptor \ DOMAIN almacen, c \in Contenidos(n) :
          almacen' = [e \in DOMAIN almacen \cup {d} |->
                         IF e = d THEN [id |-> id, duenos |-> {p}, contenido |-> c]
                                  ELSE almacen[e]]
    /\ UNCHANGED procesos

EliminarSegmentoDe(p, d) ==
    /\ d \in Propios(p)
    /\ almacen' = [e \in DOMAIN almacen \ {d} |-> almacen[e]]
    /\ UNCHANGED procesos

EscribirEn(p, d, k, b) ==
    /\ p \in almacen[d].duenos
    /\ k \in DOMAIN almacen[d].contenido
    /\ almacen' = [almacen EXCEPT ![d].contenido[k] = b]
    /\ UNCHANGED procesos

InitAlmacen ==
    /\ procesos = {}
    /\ \E c \in Contenidos(TAM_SEGMENTO_0) :
          almacen = [d \in {Compartido} |-> [id |-> 0, duenos |-> {}, contenido |-> c]]

NextAlmacen ==
    \E p \in Pid :
        \/ AbrirTabla(p)
        \/ CerrarTabla(p)
        \/ \E id \in SegmentoId, n \in Tamanios : CrearSegmentoDe(p, id, n)
        \/ \E d \in DOMAIN almacen : \/ EliminarSegmentoDe(p, d)
                                     \/ \E k \in DOMAIN almacen[d].contenido, b \in Byte :
                                            EscribirEn(p, d, k, b)

SpecAlmacen == InitAlmacen /\ [][NextAlmacen]_almacenVars

=============================================================================

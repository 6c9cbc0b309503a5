---------------------------- MODULE CicloDeVida -----------------------------
(***************************************************************************)
(* What the scheduler of the Kernel promises, without queues, semaphores   *)
(* or threads: the five-state life cycle of a process, one process at a    *)
(* time in EXEC, and no more processes admitted than the degree of         *)
(* multiprogramming, where a finished process gives its place back only    *)
(* when its console has been served.                                       *)
(***************************************************************************)
EXTENDS Naturals, FiniteSets

CONSTANTS Proc, GRADO_MAX

VARIABLES estado,       \* the state of each process
          lugares       \* the places handed back so far

ciclo == <<estado, lugares>>

EstadosDelCiclo == {"SIN_CREAR", "NEW", "READY", "EXEC", "BLOCK", "BLOCK_RECURSO", "EXIT"}

EnEstado(e) == {p \in Proc : estado[p] = e}
Admitidos == {p \in Proc : estado[p] \notin {"SIN_CREAR", "NEW"}}

Cambiar(p, desde, hacia) ==
    /\ estado[p] \in desde
    /\ estado' = [estado EXCEPT ![p] = hacia]
    /\ UNCHANGED lugares

Crear(p) == Cambiar(p, {"SIN_CREAR"}, "NEW")

Admitir(p) ==
    /\ Cardinality(Admitidos) - lugares < GRADO_MAX
    /\ Cambiar(p, {"NEW"}, "READY")

Despachar(p) ==
    /\ EnEstado("EXEC") = {}
    /\ Cambiar(p, {"READY"}, "EXEC")

Dejar(p, e) == Cambiar(p, {"EXEC"}, e)

Despertar(p) == Cambiar(p, {"BLOCK", "BLOCK_RECURSO"}, "READY")

DevolverLugar ==
    /\ lugares < Cardinality(EnEstado("EXIT"))
    /\ lugares' = lugares + 1
    /\ UNCHANGED estado

InitCiclo ==
    /\ estado = [p \in Proc |-> "SIN_CREAR"]
    /\ lugares = 0

NextCiclo ==
    \/ \E p \in Proc : \/ Crear(p)
                       \/ Admitir(p)
                       \/ Despachar(p)
                       \/ \E e \in {"READY", "BLOCK", "BLOCK_RECURSO", "EXIT"} : Dejar(p, e)
                       \/ Despertar(p)
    \/ DevolverLugar

SpecCiclo == InitCiclo /\ [][NextCiclo]_ciclo

=============================================================================

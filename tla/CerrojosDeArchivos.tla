------------------------- MODULE CerrojosDeArchivos -------------------------
(***************************************************************************)
(* What F_OPEN and F_CLOSE promise, without threads, queues or a socket:   *)
(* a file has at most one owner; who opens a file that has one waits; the  *)
(* owner that closes it hands it to the one that has waited longest.       *)
(***************************************************************************)
EXTENDS Sequences

CONSTANTS Proc, NoProc, Archivo

VARIABLES duenio, espera
vars == <<duenio, espera>>

EnFila(f) == {espera[f][i] : i \in DOMAIN espera[f]}
NadaEspera(p) == \A f \in Archivo : p \notin EnFila(f)

Init == /\ duenio = [f \in Archivo |-> NoProc]
        /\ espera = [f \in Archivo |-> <<>>]

Toma(p, f) ==
    /\ duenio[f] = NoProc
    /\ NadaEspera(p)
    /\ duenio' = [duenio EXCEPT ![f] = p]
    /\ UNCHANGED espera

Espera(p, f) ==
    /\ duenio[f] \notin {NoProc, p}
    /\ NadaEspera(p)
    /\ espera' = [espera EXCEPT ![f] = Append(@, p)]
    /\ UNCHANGED duenio

\* The owner itself is not waiting for another file when it closes this one.
Entrega(f) ==
    /\ duenio[f] # NoProc
    /\ NadaEspera(duenio[f])
    /\ IF espera[f] = <<>>
       THEN duenio' = [duenio EXCEPT ![f] = NoProc] /\ UNCHANGED espera
       ELSE /\ duenio' = [duenio EXCEPT ![f] = Head(espera[f])]
            /\ espera' = [espera EXCEPT ![f] = Tail(@)]

Next == \E f \in Archivo : Entrega(f) \/ \E p \in Proc : Toma(p, f) \/ Espera(p, f)

SpecCerrojos == Init /\ [][Next]_vars

=============================================================================

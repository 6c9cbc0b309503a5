--------------------------- MODULE CerrojosProofs ---------------------------
(***************************************************************************)
(* What the locks of CerrojosDeArchivos guarantee to whoever uses them, for*)
(* any number of processes and files.  ArchivosAbiertos implements them, so*)
(* as long as nothing has gone wrong it holds of its open-file table.      *)
(***************************************************************************)
EXTENDS CerrojosDeArchivos, Integers, TLAPS

TipoCerrojos ==
    /\ duenio \in [Archivo -> Proc \cup {NoProc}]
    /\ espera \in [Archivo -> Seq(Proc)]

\* Nobody waits for a file that nobody has.
NadieEsperaUnoLibre ==
    \A f \in Archivo : duenio[f] = NoProc => espera[f] = <<>>

\* A process waits for one file, in one place of its queue.
UnaSolaEspera ==
    \A f, g \in Archivo :
        \A i \in DOMAIN espera[f], j \in DOMAIN espera[g] :
            espera[f][i] = espera[g][j] => f = g /\ i = j

\* Nobody waits for a file it has.
DuenioNoEspera ==
    \A f \in Archivo : duenio[f] \notin EnFila(f)

CerrojosInv ==
    /\ TipoCerrojos
    /\ NadieEsperaUnoLibre
    /\ UnaSolaEspera
    /\ DuenioNoEspera

LEMMA InitCerrojos == Init => CerrojosInv
BY DEF Init, CerrojosInv, TipoCerrojos, NadieEsperaUnoLibre, UnaSolaEspera, DuenioNoEspera, EnFila

\* A file nobody has gets an owner who waits for nothing.
LEMMA PasoToma ==
    ASSUME NoProc \notin Proc, CerrojosInv, NEW p \in Proc, NEW f \in Archivo, Toma(p, f)
    PROVE  CerrojosInv'
<1>1. TipoCerrojos'
  BY DEF Toma, CerrojosInv, TipoCerrojos
<1>2. NadieEsperaUnoLibre' /\ UnaSolaEspera'
  BY DEF Toma, CerrojosInv, TipoCerrojos, NadieEsperaUnoLibre, UnaSolaEspera
<1>3. DuenioNoEspera'
  BY DEF Toma, CerrojosInv, TipoCerrojos, DuenioNoEspera, NadaEspera, EnFila
<1>. QED
  BY <1>1, <1>2, <1>3 DEF CerrojosInv

\* Who waits for nothing goes to the end of the queue of a file another one has.
LEMMA PasoEspera ==
    ASSUME NoProc \notin Proc, CerrojosInv, NEW p \in Proc, NEW f \in Archivo, Espera(p, f)
    PROVE  CerrojosInv'
<1> DEFINE n == Len(espera[f])
<1>1. /\ espera[f] \in Seq(Proc)
      /\ espera' = [espera EXCEPT ![f] = Append(@, p)]
      /\ duenio' = duenio
      /\ \A g \in Archivo : \A i \in DOMAIN espera[g] : espera[g][i] # p
  BY DEF Espera, CerrojosInv, TipoCerrojos, NadaEspera, EnFila
<1>2. /\ DOMAIN espera'[f] = 1..(n + 1)
      /\ DOMAIN espera[f] = 1..n /\ n \in Nat
      /\ espera'[f][n + 1] = p
      /\ \A i \in 1..n : espera'[f][i] = espera[f][i]
      /\ \A g \in Archivo \ {f} : espera'[g] = espera[g]
  BY <1>1 DEF CerrojosInv, TipoCerrojos
<1>3. TipoCerrojos'
  BY <1>1 DEF CerrojosInv, TipoCerrojos
<1>4. NadieEsperaUnoLibre'
  BY <1>1, <1>2 DEF Espera, CerrojosInv, NadieEsperaUnoLibre
<1>5. UnaSolaEspera'
  BY <1>1, <1>2 DEF CerrojosInv, UnaSolaEspera
<1>6. DuenioNoEspera'
  BY <1>1, <1>2 DEF Espera, CerrojosInv, DuenioNoEspera, EnFila
<1>. QED
  BY <1>3, <1>4, <1>5, <1>6 DEF CerrojosInv

\* The file goes to the head of its queue, or to nobody if there is none.
LEMMA PasoEntrega ==
    ASSUME NoProc \notin Proc, CerrojosInv, NEW f \in Archivo, Entrega(f)
    PROVE  CerrojosInv'
<1>1. CASE espera[f] = <<>>
  <2>1. duenio' = [duenio EXCEPT ![f] = NoProc] /\ espera' = espera
    BY <1>1 DEF Entrega
  <2>. QED
    BY <1>1, <2>1 DEF CerrojosInv, TipoCerrojos, NadieEsperaUnoLibre, UnaSolaEspera,
                      DuenioNoEspera, EnFila
<1>2. CASE espera[f] # <<>>
  <2> DEFINE n == Len(espera[f])
  <2>1. /\ espera[f] \in Seq(Proc)
        /\ duenio' = [duenio EXCEPT ![f] = Head(espera[f])]
        /\ espera' = [espera EXCEPT ![f] = Tail(@)]
    BY <1>2 DEF Entrega, CerrojosInv, TipoCerrojos
  <2>2. /\ n \in Nat \ {0}
        /\ DOMAIN espera[f] = 1..n
        /\ duenio'[f] = espera[f][1] /\ duenio'[f] \in Proc
        /\ DOMAIN espera'[f] = 1..(n - 1)
        /\ \A i \in 1..(n - 1) : espera'[f][i] = espera[f][i + 1]
        /\ \A g \in Archivo \ {f} : espera'[g] = espera[g] /\ duenio'[g] = duenio[g]
    BY <1>2, <2>1 DEF CerrojosInv, TipoCerrojos
  <2>3. TipoCerrojos'
    <3>1. Tail(espera[f]) \in Seq(Proc)
      BY <1>2, <2>1
    <3>2. Head(espera[f]) \in Proc
      BY <1>2, <2>1
    <3>. QED
      BY <2>1, <3>1, <3>2 DEF CerrojosInv, TipoCerrojos
  <2>4. NadieEsperaUnoLibre'
    BY <2>2 DEF CerrojosInv, NadieEsperaUnoLibre
  <2> DEFINE antes(g, i) == IF g = f THEN i + 1 ELSE i
  <2>5. \A g \in Archivo : \A i \in DOMAIN espera'[g] :
           antes(g, i) \in DOMAIN espera[g] /\ espera'[g][i] = espera[g][antes(g, i)]
    BY <2>2
  <2>6. UnaSolaEspera'
    <3> SUFFICES ASSUME NEW g \in Archivo, NEW h \in Archivo,
                        NEW i \in DOMAIN espera'[g], NEW j \in DOMAIN espera'[h],
                        espera'[g][i] = espera'[h][j]
                 PROVE  g = h /\ i = j
      BY DEF UnaSolaEspera
    <3>1. g = h /\ antes(g, i) = antes(h, j)
      BY <2>5 DEF CerrojosInv, UnaSolaEspera
    <3>. QED
      BY <2>2, <3>1
  <2>7. DuenioNoEspera'
    <3> SUFFICES ASSUME NEW g \in Archivo, NEW i \in DOMAIN espera'[g]
                 PROVE  espera'[g][i] # duenio'[g]
      BY DEF DuenioNoEspera, EnFila
    <3>1. CASE g = f
      <4>1. espera[f][i + 1] # espera[f][1]
        BY <2>2, <3>1 DEF CerrojosInv, UnaSolaEspera
      <4>. QED
        BY <2>2, <3>1, <4>1
    <3>2. CASE g # f
      BY <2>2, <3>2 DEF CerrojosInv, DuenioNoEspera, EnFila
    <3>. QED
      BY <3>1, <3>2
  <2>. QED
    BY <2>3, <2>4, <2>6, <2>7 DEF CerrojosInv
<1>. QED
  BY <1>1, <1>2

\* A process that waits for a file waits for one that somebody else has, in one place,
\* and for no other: what EjecutarFClose and EjecutarFOpenAbierto rely on.
THEOREM FilasConsistentes == ASSUME NoProc \notin Proc PROVE SpecCerrojos => []CerrojosInv
<1>1. CerrojosInv /\ [Next]_vars => CerrojosInv'
  <2>. SUFFICES ASSUME CerrojosInv, [Next]_vars PROVE CerrojosInv'
    OBVIOUS
  <2>1. CASE Next
    BY <2>1, PasoToma, PasoEspera, PasoEntrega DEF Next
  <2>2. CASE UNCHANGED vars
    BY <2>2 DEF vars, CerrojosInv, TipoCerrojos, NadieEsperaUnoLibre, UnaSolaEspera,
                DuenioNoEspera, EnFila
  <2>. QED
    BY <2>1, <2>2
<1>. QED
  BY <1>1, InitCerrojos, PTL DEF SpecCerrojos

=============================================================================

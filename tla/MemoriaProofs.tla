--------------------------- MODULE MemoriaProofs ----------------------------
(***************************************************************************)
(* What Memoria promises, for every size of the memory, of segment 0 and   *)
(* of the requests, and for any number of processes and segments.          *)
(*                                                                         *)
(* InvMemoria is the inductive invariant.  Particion is its first half:    *)
(* holes in order and apart, segments apart, and an address in a hole      *)
(* exactly when it is in no segment; it is said of any list of holes and   *)
(* any set of segments, so that the lemmas on freeing a segment, filling   *)
(* a hole and sliding a segment apply in the middle of a request too.      *)
(* TablasBien is its second half: the list of live segments and the tables *)
(* of the processes are about the same segments.                           *)
(*                                                                         *)
(* A request that frees a table or compacts walks a list; Pliegue and      *)
(* PliegueDentro, of Pliegues, carry a fact along a FoldLeft from one      *)
(* element to the next.                                                    *)
(***************************************************************************)
EXTENDS Memoria, Pliegues, FiniteSetTheorems, FunctionTheorems, SequenceTheorems

-----------------------------------------------------------------------------
(* Sequences *)

\* InsertAt makes room for one.
LEMMA InsertAtProperties ==
    ASSUME NEW S, NEW s \in Seq(S), NEW k \in 1..(Len(s) + 1), NEW e \in S
    PROVE  /\ InsertAt(s, k, e) \in Seq(S)
           /\ Len(InsertAt(s, k, e)) = Len(s) + 1
           /\ \A i \in 1..(Len(s) + 1) :
                 InsertAt(s, k, e)[i] = IF i < k THEN s[i] ELSE IF i = k THEN e ELSE s[i - 1]
<1> DEFINE a == SubSeq(s, 1, k - 1)
           b == SubSeq(s, k, Len(s))
           m == <<e>>
<1>1. Len(s) \in Nat /\ \A i \in 1..Len(s) : s[i] \in S
  BY LenProperties, ElementOfSeq
<1>2. /\ a \in Seq(S) /\ Len(a) = k - 1
      /\ \A i \in 1..(k - 1) : a[i] = s[i]
  <2>1. /\ 1 \in Int /\ k - 1 \in Int
        /\ \A i \in 1..(k - 1) : s[i] \in S
    BY <1>1
  <2>2. /\ a \in Seq(S)
        /\ Len(a) = IF 1 <= k - 1 THEN k - 1 - 1 + 1 ELSE 0
        /\ \A i \in 1..(k - 1 - 1 + 1) : a[i] = s[1 + i - 1]
    BY <2>1, SubSeqProperties
  <2>. QED
    BY <1>1, <2>2
<1>3. /\ b \in Seq(S) /\ Len(b) = Len(s) - k + 1
      /\ \A i \in 1..(Len(s) - k + 1) : b[i] = s[k + i - 1]
  <2>1. /\ k \in Int /\ Len(s) \in Int
        /\ \A i \in k..Len(s) : s[i] \in S
    BY <1>1
  <2>2. /\ b \in Seq(S)
        /\ Len(b) = IF k <= Len(s) THEN Len(s) - k + 1 ELSE 0
        /\ \A i \in 1..(Len(s) - k + 1) : b[i] = s[k + i - 1]
    BY <2>1, SubSeqProperties
  <2>. QED
    BY <1>1, <2>2
<1>4. m \in Seq(S) /\ Len(m) = 1 /\ m[1] = e
  OBVIOUS
<1> HIDE DEF a, b, m
<1> DEFINE c == a \o m
<1>5. /\ c \in Seq(S)
      /\ Len(c) = k
      /\ \A i \in 1..k : c[i] = IF i < k THEN s[i] ELSE e
  <2>1. /\ c \in Seq(S)
        /\ Len(c) = Len(a) + Len(m)
        /\ \A i \in 1..(Len(a) + Len(m)) :
              c[i] = IF i <= Len(a) THEN a[i] ELSE m[i - Len(a)]
    BY <1>2, <1>4, ConcatProperties
  <2>2. Len(a) + Len(m) = k
    BY <1>1, <1>2, <1>4
  <2>3. ASSUME NEW i \in 1..k
        PROVE  c[i] = IF i < k THEN s[i] ELSE e
    <3>1. CASE i < k
      BY <1>1, <1>2, <2>1, <2>2, <3>1
    <3>2. CASE i = k
      <4>1. i - Len(a) = 1 /\ ~(i <= Len(a))
        BY <1>1, <1>2, <3>2
      <4>. QED
        BY <1>4, <2>1, <2>2, <3>2, <4>1
    <3>3. i < k \/ i = k
      BY <1>1
    <3>. QED
      BY <3>1, <3>2, <3>3
  <2>. QED
    BY <2>1, <2>2, <2>3
<1> HIDE DEF c
<1>6. /\ c \o b \in Seq(S)
      /\ Len(c \o b) = Len(s) + 1
      /\ \A i \in 1..(Len(s) + 1) :
            (c \o b)[i] = IF i <= k THEN c[i] ELSE b[i - k]
  <2>1. /\ c \o b \in Seq(S)
        /\ Len(c \o b) = Len(c) + Len(b)
        /\ \A i \in 1..(Len(c) + Len(b)) :
              (c \o b)[i] = IF i <= Len(c) THEN c[i]
                                                       ELSE b[i - Len(c)]
    BY <1>3, <1>5, ConcatProperties
  <2>2. Len(c) = k /\ k + Len(b) = Len(s) + 1
    BY <1>1, <1>3, <1>5
  <2>3. \A i \in 1..(k + Len(b)) :
           (c \o b)[i] = IF i <= k THEN c[i] ELSE b[i - k]
    BY <2>1, <2>2
  <2>. QED
    BY <2>1, <2>2, <2>3
<1>7. InsertAt(s, k, e) = c \o b
  BY DEF InsertAt, a, b, m, c
<1>8. ASSUME NEW i \in 1..(Len(s) + 1)
      PROVE  (c \o b)[i] = IF i < k THEN s[i] ELSE IF i = k THEN e ELSE s[i - 1]
  <2>1. CASE i <= k
    <3>1. i \in 1..k /\ (c \o b)[i] = c[i]
      BY <1>1, <1>6, <2>1
    <3>2. c[i] = IF i < k THEN s[i] ELSE e
      BY <1>5, <3>1
    <3>. QED
      BY <3>1, <3>2
  <2>2. CASE ~(i <= k)
    <3>1. i - k \in 1..(Len(s) - k + 1) /\ k + (i - k) - 1 = i - 1
      BY <1>1, <2>2
    <3>2. b[i - k] = s[k + (i - k) - 1] /\ (c \o b)[i] = b[i - k]
      BY <1>3, <1>6, <2>2, <3>1
    <3>. QED
      BY <1>1, <2>2, <3>1, <3>2
  <2>. QED
    BY <2>1, <2>2
<1>. QED
  BY <1>6, <1>7, <1>8

\* What SelectInSeq returns, whatever the test was.
LEMMA PrimeroDe ==
    ASSUME NEW n \in Nat, NEW I \in SUBSET (1..n), NEW k,
           k = IF I # {} THEN Min(I) ELSE 0
    PROVE  /\ k \in 0..n
           /\ k = 0 <=> I = {}
           /\ k # 0 => k \in I /\ \A i \in I : k <= i
<1>1. CASE I = {}
  BY <1>1
<1>2. CASE I # {}
  <2>1. I \subseteq Nat
    OBVIOUS
  <2>2. Min(I) \in I /\ \A i \in I : Min(I) <= i
    BY <1>2, <2>1, MinimoDe
  <2>3. k = Min(I)
    BY <1>2
  <2>4. k \in I /\ \A i \in I : k <= i
    BY <2>2, <2>3
  <2>5. k \in 1..n /\ k \in 0..n /\ k # 0
    BY <2>4
  <2>. QED
    BY <1>2, <2>4, <2>5
<1>. QED
  BY <1>1, <1>2

-----------------------------------------------------------------------------
(* The list of holes *)

EnHueco(a, huecos) ==
    \E i \in 1..Len(huecos) : huecos[i].inicio <= a /\ a <= huecos[i].fin

\* In order, none empty, no two of them touching.
HuecosBien(huecos) ==
    /\ huecos \in Seq(Hueco)
    /\ \A i \in 1..Len(huecos) : huecos[i].inicio <= huecos[i].fin
    /\ \A i, j \in 1..Len(huecos) : i < j => huecos[i].fin + 1 < huecos[j].inicio

\* The numbers of a list of holes.
LEMMA NumerosDeHuecos ==
    ASSUME NEW huecos \in Seq(Hueco)
    PROVE  /\ Len(huecos) \in Nat /\ DOMAIN huecos = 1..Len(huecos)
           /\ \A i \in 1..Len(huecos) : /\ huecos[i] \in Hueco
                                        /\ huecos[i].inicio \in Nat /\ huecos[i].fin \in Nat
                                        /\ huecos[i].inicio < TAM_MEMORIA
                                        /\ huecos[i].fin < TAM_MEMORIA
<1>1. Len(huecos) \in Nat /\ \A i \in 1..Len(huecos) : huecos[i] \in Hueco
  BY LenProperties, ElementOfSeq
<1>2. DOMAIN huecos = 1..Len(huecos)
  BY LenProperties
<1>3. ASSUME NEW h \in Hueco
      PROVE  /\ h.inicio \in Nat /\ h.fin \in Nat
             /\ h.inicio < TAM_MEMORIA /\ h.fin < TAM_MEMORIA
  BY MemoriaAssumption DEF Hueco, Direccion
<1>. QED
  BY <1>1, <1>2, <1>3

\* A hole can be moved as long as it stays clear of its neighbours.
LEMMA ReemplazaHueco ==
    ASSUME NEW huecos, HuecosBien(huecos), NEW k \in 1..Len(huecos),
           NEW x \in Direccion, NEW y \in Direccion, x <= y,
           \A i \in 1..Len(huecos) : i < k => huecos[i].fin + 1 < x,
           \A i \in 1..Len(huecos) : k < i => y + 1 < huecos[i].inicio
    PROVE  LET otros == ReplaceAt(huecos, k, [inicio |-> x, fin |-> y])
           IN  /\ HuecosBien(otros) /\ Len(otros) = Len(huecos)
               /\ \A i \in 1..Len(huecos) :
                     otros[i] = IF i = k THEN [inicio |-> x, fin |-> y] ELSE huecos[i]
               /\ \A a \in Direccion : EnHueco(a, otros) <=>
                     \/ x <= a /\ a <= y
                     \/ \E i \in 1..Len(huecos) :
                           i # k /\ huecos[i].inicio <= a /\ a <= huecos[i].fin
<1> DEFINE h == [inicio |-> x, fin |-> y]
           otros == ReplaceAt(huecos, k, h)
<1>1. huecos \in Seq(Hueco) /\ h \in Hueco /\ h.inicio = x /\ h.fin = y
  BY DEF HuecosBien, Hueco
<1>2. /\ otros \in Seq(Hueco) /\ Len(otros) = Len(huecos)
      /\ \A i \in 1..Len(huecos) : otros[i] = IF i = k THEN h ELSE huecos[i]
  BY <1>1, ExceptSeq DEF ReplaceAt
<1>3. /\ Len(huecos) \in Nat /\ x \in Nat /\ y \in Nat
      /\ \A i \in 1..Len(huecos) : huecos[i].inicio \in Nat /\ huecos[i].fin \in Nat
  BY <1>1, NumerosDeHuecos DEF Direccion
<1> HIDE DEF otros, h
<1>4. ASSUME NEW i \in 1..Len(otros)
      PROVE  otros[i].inicio <= otros[i].fin
  BY <1>1, <1>2 DEF HuecosBien
<1>5. ASSUME NEW i \in 1..Len(otros), NEW j \in 1..Len(otros), i < j
      PROVE  otros[i].fin + 1 < otros[j].inicio
  <2>1. CASE i = k
    BY <1>1, <1>2, <1>5, <2>1
  <2>2. CASE j = k
    BY <1>1, <1>2, <1>5, <2>2
  <2>3. CASE i # k /\ j # k
    BY <1>1, <1>2, <1>5, <2>3 DEF HuecosBien
  <2>. QED
    BY <2>1, <2>2, <2>3
<1>6. HuecosBien(otros)
  BY <1>2, <1>4, <1>5 DEF HuecosBien
<1>7. ASSUME NEW a \in Direccion
      PROVE  EnHueco(a, otros) <=>
                \/ x <= a /\ a <= y
                \/ \E i \in 1..Len(huecos) :
                      i # k /\ huecos[i].inicio <= a /\ a <= huecos[i].fin
  <2>1. ASSUME x <= a /\ a <= y
        PROVE  EnHueco(a, otros)
    BY <1>1, <1>2, <2>1 DEF EnHueco
  <2>2. ASSUME NEW i \in 1..Len(huecos), i # k, huecos[i].inicio <= a, a <= huecos[i].fin
        PROVE  EnHueco(a, otros)
    BY <1>2, <2>2 DEF EnHueco
  <2>3. ASSUME EnHueco(a, otros)
        PROVE  \/ x <= a /\ a <= y
               \/ \E i \in 1..Len(huecos) :
                     i # k /\ huecos[i].inicio <= a /\ a <= huecos[i].fin
    <3>1. PICK i \in 1..Len(otros) : otros[i].inicio <= a /\ a <= otros[i].fin
      BY <2>3 DEF EnHueco
    <3>. QED
      BY <1>1, <1>2, <3>1
  <2>. QED
    BY <2>1, <2>2, <2>3
<1>. QED
  BY <1>2, <1>6, <1>7 DEF otros, h

\* A hole that leaves the list takes its addresses only.
LEMMA SacaHueco ==
    ASSUME NEW huecos, HuecosBien(huecos), NEW k \in 1..Len(huecos)
    PROVE  LET otros == RemoveAt(huecos, k)
           IN  /\ HuecosBien(otros) /\ Len(otros) = Len(huecos) - 1
               /\ \A i \in 1..(Len(huecos) - 1) :
                     otros[i] = IF i < k THEN huecos[i] ELSE huecos[i + 1]
               /\ \A a \in Direccion : EnHueco(a, otros) <=>
                     \E i \in 1..Len(huecos) :
                         i # k /\ huecos[i].inicio <= a /\ a <= huecos[i].fin
<1> DEFINE otros == RemoveAt(huecos, k)
<1>1. huecos \in Seq(Hueco)
  BY DEF HuecosBien
<1>2. /\ otros \in Seq(Hueco) /\ Len(otros) = Len(huecos) - 1
      /\ \A i \in 1..(Len(huecos) - 1) :
            otros[i] = IF i < k THEN huecos[i] ELSE huecos[i + 1]
  BY <1>1, RemoveAtProperties
<1>3. Len(huecos) \in Nat
  BY <1>1, NumerosDeHuecos
<1> HIDE DEF otros
<1>4. ASSUME NEW i \in 1..Len(otros)
      PROVE  otros[i].inicio <= otros[i].fin
  <2>1. i \in 1..Len(huecos) /\ i + 1 \in 1..Len(huecos) /\ i \in 1..(Len(huecos) - 1)
    BY <1>2, <1>3
  <2>. QED
    BY <1>2, <2>1 DEF HuecosBien
<1>5. ASSUME NEW i \in 1..Len(otros), NEW j \in 1..Len(otros), i < j
      PROVE  otros[i].fin + 1 < otros[j].inicio
  <2> DEFINE ii == IF i < k THEN i ELSE i + 1
             jj == IF j < k THEN j ELSE j + 1
  <2>1. /\ ii \in 1..Len(huecos) /\ jj \in 1..Len(huecos) /\ ii < jj
        /\ i \in 1..(Len(huecos) - 1) /\ j \in 1..(Len(huecos) - 1)
    BY <1>2, <1>3, <1>5
  <2>2. otros[i] = huecos[ii] /\ otros[j] = huecos[jj]
    BY <1>2, <2>1
  <2> HIDE DEF ii, jj
  <2>. QED
    BY <2>1, <2>2 DEF HuecosBien
<1>6. HuecosBien(otros)
  BY <1>2, <1>4, <1>5 DEF HuecosBien
<1>7. ASSUME NEW a \in Direccion
      PROVE  EnHueco(a, otros) <=> \E i \in 1..Len(huecos) :
                                      i # k /\ huecos[i].inicio <= a /\ a <= huecos[i].fin
  <2>1. ASSUME NEW i \in 1..Len(huecos), i # k, huecos[i].inicio <= a, a <= huecos[i].fin
        PROVE  EnHueco(a, otros)
    <3> DEFINE ii == IF i < k THEN i ELSE i - 1
    <3>1. /\ ii \in 1..Len(otros) /\ ii \in 1..(Len(huecos) - 1)
          /\ IF ii < k THEN ii = i ELSE ii + 1 = i
      BY <1>2, <1>3, <2>1
    <3> HIDE DEF ii
    <3>2. otros[ii] = huecos[i]
      BY <1>2, <3>1
    <3>. QED
      BY <2>1, <3>1, <3>2 DEF EnHueco
  <2>2. ASSUME EnHueco(a, otros)
        PROVE  \E i \in 1..Len(huecos) : i # k /\ huecos[i].inicio <= a /\ a <= huecos[i].fin
    <3>1. PICK i \in 1..Len(otros) : otros[i].inicio <= a /\ a <= otros[i].fin
      BY <2>2 DEF EnHueco
    <3> DEFINE ii == IF i < k THEN i ELSE i + 1
    <3>2. ii \in 1..Len(huecos) /\ ii # k /\ i \in 1..(Len(huecos) - 1)
      BY <1>2, <1>3
    <3>3. otros[i] = huecos[ii]
      BY <1>2, <3>2
    <3> HIDE DEF ii
    <3>. QED
      BY <3>1, <3>2, <3>3
  <2>. QED
    BY <2>1, <2>2
<1>. QED
  BY <1>2, <1>6, <1>7 DEF otros

\* The two searches by position: the hole on the right and the one on the left.
LEMMA BuscaHuecos ==
    ASSUME NEW huecos \in Seq(Hueco), NEW x
    PROVE  /\ LET k == HuecoPorInicio(huecos, x)
              IN  /\ k \in 0..Len(huecos)
                  /\ k # 0 => huecos[k].inicio = x
                  /\ k = 0 => \A i \in 1..Len(huecos) : huecos[i].inicio # x
           /\ LET k == HuecoPorLimite(huecos, x)
              IN  /\ k \in 0..Len(huecos)
                  /\ k # 0 => huecos[k].fin + 1 = x
                  /\ k = 0 => \A i \in 1..Len(huecos) : huecos[i].fin + 1 # x
<1> DEFINE n == Len(huecos)
           I == {i \in 1..n : huecos[i].inicio = x}
           J == {i \in 1..n : huecos[i].fin + 1 = x}
           k == HuecoPorInicio(huecos, x)
           l == HuecoPorLimite(huecos, x)
<1>1. n \in Nat
  BY LenProperties
<1>2. k = IF I # {} THEN Min(I) ELSE 0
  BY DEF HuecoPorInicio, SelectInSeq
<1>3. l = IF J # {} THEN Min(J) ELSE 0
  BY DEF HuecoPorLimite, SelectInSeq
<1>4. I \in SUBSET (1..n) /\ J \in SUBSET (1..n)
  OBVIOUS
<1> HIDE DEF I, J, k, l, n
<1>5. /\ k \in 0..n
      /\ k = 0 <=> I = {}
      /\ k # 0 => k \in I /\ \A i \in I : k <= i
  BY <1>1, <1>2, <1>4, PrimeroDe
<1>6. /\ l \in 0..n
      /\ l = 0 <=> J = {}
      /\ l # 0 => l \in J /\ \A i \in J : l <= i
  BY <1>1, <1>3, <1>4, PrimeroDe
<1>7. /\ k # 0 => huecos[k].inicio = x
      /\ k = 0 => \A i \in 1..n : huecos[i].inicio # x
  BY <1>5 DEF I
<1>8. /\ l # 0 => huecos[l].fin + 1 = x
      /\ l = 0 => \A i \in 1..n : huecos[i].fin + 1 # x
  BY <1>6 DEF J
<1>. QED
  BY <1>5, <1>6, <1>7, <1>8 DEF k, l, n

\* A new hole goes where the order puts it.
LEMMA CreaHueco ==
    ASSUME NEW huecos, HuecosBien(huecos), NEW x \in Direccion, NEW y \in Direccion, x <= y,
           \A i \in 1..Len(huecos) : huecos[i].fin + 1 < x \/ y + 1 < huecos[i].inicio
    PROVE  LET otros == CrearHueco(huecos, x, y)
           IN  /\ HuecosBien(otros)
               /\ \A a \in Direccion :
                     EnHueco(a, otros) <=> EnHueco(a, huecos) \/ (x <= a /\ a <= y)
<1> DEFINE n == Len(huecos)
           I == {i \in 1..n : huecos[i].inicio >= x}
           k == IF I # {} THEN Min(I) ELSE 0
           j == IF k = 0 THEN n + 1 ELSE k
           h == [inicio |-> x, fin |-> y]
           otros == InsertAt(huecos, j, h)
<1>1. /\ huecos \in Seq(Hueco) /\ h \in Hueco /\ h.inicio = x /\ h.fin = y
      /\ x \in Nat /\ y \in Nat
  BY DEF HuecosBien, Hueco, Direccion
<1>2. /\ n \in Nat
      /\ \A i \in 1..n : huecos[i].inicio \in Nat /\ huecos[i].fin \in Nat
  BY <1>1, NumerosDeHuecos
<1>3. CrearHueco(huecos, x, y) = otros
  BY DEF CrearHueco, SelectInSeq
<1>4. /\ k \in 0..n
      /\ k = 0 <=> I = {}
      /\ k # 0 => k \in I /\ \A i \in I : k <= i
  <2>1. I \in SUBSET (1..n)
    OBVIOUS
  <2> HIDE DEF I, n
  <2>. QED
    BY <1>2, <2>1, PrimeroDe
<1> HIDE DEF k
<1>5. /\ j \in 1..(n + 1)
      /\ \A i \in 1..n : i < j => huecos[i].inicio < x
      /\ \A i \in 1..n : i >= j => huecos[i].inicio >= x
  <2>1. CASE k = 0
    BY <1>1, <1>2, <1>4, <2>1
  <2>2. CASE k # 0
    <3>1. k \in 1..n /\ huecos[k].inicio >= x /\ j = k
      BY <1>4, <2>2
    <3>2. ASSUME NEW i \in 1..n, i < k
          PROVE  huecos[i].inicio < x
      <4>1. i \notin I
        BY <1>4, <2>2, <3>1, <3>2
      <4>. QED
        BY <1>1, <1>2, <4>1
    <3>3. ASSUME NEW i \in 1..n, i > k
          PROVE  huecos[i].inicio >= x
      <4>1. huecos[k].fin + 1 < huecos[i].inicio /\ huecos[k].inicio <= huecos[k].fin
        BY <3>1, <3>3 DEF HuecosBien
      <4>. QED
        BY <1>1, <1>2, <3>1, <4>1
    <3>. QED
      BY <1>2, <3>1, <3>2, <3>3
  <2>. QED
    BY <2>1, <2>2
<1> HIDE DEF j, h, I
<1>6. /\ otros \in Seq(Hueco) /\ Len(otros) = n + 1
      /\ \A i \in 1..(n + 1) : otros[i] = IF i < j THEN huecos[i]
                                          ELSE IF i = j THEN h ELSE huecos[i - 1]
  BY <1>1, <1>5, InsertAtProperties
<1>7. /\ \A i \in 1..n : i < j => huecos[i].fin + 1 < x
      /\ \A i \in 1..n : i >= j => y + 1 < huecos[i].inicio
  <2>1. \A i \in 1..n : huecos[i].inicio <= huecos[i].fin
    BY DEF HuecosBien
  <2>2. ASSUME NEW i \in 1..n, i < j
        PROVE  huecos[i].fin + 1 < x
    BY <1>1, <1>2, <1>5, <2>1, <2>2
  <2>3. ASSUME NEW i \in 1..n, i >= j
        PROVE  y + 1 < huecos[i].inicio
    BY <1>1, <1>2, <1>5, <2>1, <2>3
  <2>. QED
    BY <2>2, <2>3
<1> HIDE DEF otros
<1>8. ASSUME NEW i \in 1..(n + 1)
      PROVE  otros[i].inicio <= otros[i].fin
  <2>1. CASE i = j
    BY <1>1, <1>6, <2>1
  <2>2. CASE i < j
    <3>1. i \in 1..n
      BY <1>2, <1>5, <2>2
    <3>. QED
      BY <1>6, <2>2, <3>1 DEF HuecosBien
  <2>3. CASE i > j
    <3>1. i - 1 \in 1..n /\ ~(i < j) /\ i # j
      BY <1>2, <1>5, <2>3
    <3>. QED
      BY <1>6, <2>3, <3>1 DEF HuecosBien
  <2>. QED
    BY <1>2, <1>5, <2>1, <2>2, <2>3
<1>9. ASSUME NEW i \in 1..(n + 1), NEW m \in 1..(n + 1), i < m
      PROVE  otros[i].fin + 1 < otros[m].inicio
  <2> DEFINE ii == IF i < j THEN i ELSE i - 1
             mm == IF m < j THEN m ELSE m - 1
  <2>1. CASE i = j
    <3>1. mm \in 1..n /\ mm >= j /\ ~(m < j) /\ m # j /\ mm = m - 1
      BY <1>2, <1>5, <1>9, <2>1
    <3>2. otros[m] = huecos[mm] /\ otros[i] = h
      BY <1>6, <2>1, <3>1
    <3>. QED
      BY <1>1, <1>7, <3>1, <3>2
  <2>2. CASE m = j
    <3>1. ii \in 1..n /\ ii < j /\ i < j /\ ii = i
      BY <1>2, <1>5, <1>9, <2>2
    <3>2. otros[i] = huecos[ii] /\ otros[m] = h
      BY <1>6, <2>2, <3>1
    <3>. QED
      BY <1>1, <1>7, <3>1, <3>2
  <2>3. CASE i # j /\ m # j
    <3>1. ii \in 1..n /\ mm \in 1..n /\ ii < mm
      BY <1>2, <1>5, <1>9, <2>3
    <3>2. otros[i] = huecos[ii] /\ otros[m] = huecos[mm]
      BY <1>6, <2>3
    <3> HIDE DEF ii, mm
    <3>. QED
      BY <3>1, <3>2 DEF HuecosBien
  <2>. QED
    BY <2>1, <2>2, <2>3
<1>10. HuecosBien(otros)
  BY <1>6, <1>8, <1>9 DEF HuecosBien
<1>11. ASSUME NEW a \in Direccion
       PROVE  EnHueco(a, otros) <=> EnHueco(a, huecos) \/ (x <= a /\ a <= y)
  <2>1. ASSUME EnHueco(a, huecos)
        PROVE  EnHueco(a, otros)
    <3>1. PICK i \in 1..n : huecos[i].inicio <= a /\ a <= huecos[i].fin
      BY <2>1 DEF EnHueco
    <3> DEFINE ii == IF i < j THEN i ELSE i + 1
    <3>2. /\ ii \in 1..(n + 1)
          /\ ii < j => ii = i
          /\ ~(ii < j) => ii # j /\ ii - 1 = i
      BY <1>2, <1>5
    <3> HIDE DEF ii
    <3>3. otros[ii] = huecos[i]
      BY <1>6, <3>2
    <3>. QED
      BY <1>6, <3>1, <3>2, <3>3 DEF EnHueco
  <2>2. ASSUME x <= a /\ a <= y
        PROVE  EnHueco(a, otros)
    <3>1. otros[j] = h
      BY <1>2, <1>5, <1>6
    <3>. QED
      BY <1>1, <1>5, <1>6, <2>2, <3>1 DEF EnHueco
  <2>3. ASSUME EnHueco(a, otros)
        PROVE  EnHueco(a, huecos) \/ (x <= a /\ a <= y)
    <3>1. PICK i \in 1..(n + 1) : otros[i].inicio <= a /\ a <= otros[i].fin
      BY <1>6, <2>3 DEF EnHueco
    <3>2. CASE i = j
      BY <1>1, <1>6, <3>1, <3>2
    <3>3. CASE i # j
      <4> DEFINE ii == IF i < j THEN i ELSE i - 1
      <4>1. ii \in 1..n
        BY <1>2, <1>5, <3>3
      <4>2. otros[i] = huecos[ii]
        BY <1>6, <3>3
      <4> HIDE DEF ii
      <4>. QED
        BY <3>1, <4>1, <4>2 DEF EnHueco
    <3>. QED
      BY <3>2, <3>3
  <2>. QED
    BY <2>1, <2>2, <2>3
<1>. QED
  BY <1>3, <1>10, <1>11

\* Freed space: addresses that no hole has.
SinHuecoEn(huecos, inicio, tam) ==
    /\ inicio \in Nat /\ tam \in Nat /\ tam > 0
    /\ inicio + tam - 1 \in Direccion
    /\ \A i \in 1..Len(huecos) : huecos[i].fin < inicio \/ inicio + tam <= huecos[i].inicio

\* consolidar_huecos_contiguos adds the freed addresses to the list and leaves no two
\* holes touching.
THEOREM ConsolidaHuecos ==
    ASSUME NEW huecos, HuecosBien(huecos), NEW inicio, NEW tam,
           SinHuecoEn(huecos, inicio, tam)
    PROVE  LET otros == ConsolidarHuecos(huecos, inicio, tam)
           IN  /\ HuecosBien(otros)
               /\ \A a \in Direccion : EnHueco(a, otros) <=>
                     EnHueco(a, huecos) \/ (inicio <= a /\ a < inicio + tam)
<1> DEFINE n == Len(huecos)
           fin == inicio + tam - 1
           der == HuecoPorInicio(huecos, inicio + tam)
           izq == HuecoPorLimite(huecos, inicio)
           otros == ConsolidarHuecos(huecos, inicio, tam)
<1>1. /\ n \in Nat
      /\ \A i \in 1..n : /\ huecos[i].inicio \in Nat /\ huecos[i].fin \in Nat
                         /\ huecos[i].inicio <= huecos[i].fin
  <2>1. huecos \in Seq(Hueco)
    BY DEF HuecosBien
  <2>2. \A i \in 1..n : huecos[i].inicio <= huecos[i].fin
    BY DEF HuecosBien
  <2>. QED
    BY <2>1, <2>2, NumerosDeHuecos
<1>0. /\ huecos \in Seq(Hueco)
      /\ \A i \in 1..n : huecos[i].inicio \in Direccion /\ huecos[i].fin \in Direccion
  <2>1. huecos \in Seq(Hueco)
    BY DEF HuecosBien
  <2>. QED
    BY <2>1, NumerosDeHuecos DEF Hueco
<1>2. /\ inicio \in Nat /\ tam \in Nat /\ tam > 0
      /\ inicio \in Direccion /\ fin \in Direccion /\ fin \in Nat /\ inicio <= fin
  BY MemoriaAssumption DEF Direccion, SinHuecoEn
<1>3. /\ der \in 0..n
      /\ der # 0 => huecos[der].inicio = inicio + tam
      /\ der = 0 => \A i \in 1..n : huecos[i].inicio # inicio + tam
      /\ izq \in 0..n
      /\ izq # 0 => huecos[izq].fin + 1 = inicio
      /\ izq = 0 => \A i \in 1..n : huecos[i].fin + 1 # inicio
  BY <1>0, BuscaHuecos
<1>4. \A i, j \in 1..n : i < j => huecos[i].fin + 1 < huecos[j].inicio
  BY DEF HuecosBien
<1>5. \A i \in 1..n : huecos[i].fin < inicio \/ inicio + tam <= huecos[i].inicio
  BY DEF SinHuecoEn
<1>6. otros = CASE izq # 0 /\ der # 0 ->
                      RemoveAt(ActualizarHueco(huecos, izq, huecos[izq].inicio,
                                               huecos[der].fin), der)
                [] izq # 0 /\ der = 0 ->
                      ActualizarHueco(huecos, izq, huecos[izq].inicio, huecos[izq].fin + tam)
                [] izq = 0 /\ der # 0 ->
                      ActualizarHueco(huecos, der, inicio, huecos[der].fin)
                [] izq = 0 /\ der = 0 -> CrearHueco(huecos, inicio, fin)
  BY DEF ConsolidarHuecos
<1> HIDE DEF otros, der, izq, n
<1>7. CASE izq = 0 /\ der = 0
  <2>1. otros = CrearHueco(huecos, inicio, fin)
    BY <1>6, <1>7
  <2>2. \A i \in 1..n : huecos[i].fin + 1 < inicio \/ fin + 1 < huecos[i].inicio
    <3>1. \A i \in 1..n : huecos[i].inicio # inicio + tam /\ huecos[i].fin + 1 # inicio
      BY <1>3, <1>7
    <3>. QED
      BY <1>1, <1>2, <1>5, <3>1
  <2>3. /\ HuecosBien(otros)
        /\ \A a \in Direccion :
              EnHueco(a, otros) <=> EnHueco(a, huecos) \/ (inicio <= a /\ a <= fin)
    BY <1>2, <2>1, <2>2, CreaHueco DEF n
  <2>. QED
    BY <1>2, <2>3 DEF otros, Direccion
<1>8. CASE izq # 0 /\ der = 0
  <2> DEFINE y == huecos[izq].fin + tam
             x == huecos[izq].inicio
  <2>9. /\ izq \in 1..n /\ huecos[izq].fin + 1 = inicio
        /\ \A i \in 1..n : huecos[i].inicio # inicio + tam
    BY <1>1, <1>3, <1>8
  <2>1. /\ izq \in 1..n /\ y = fin /\ y \in Direccion /\ x \in Direccion /\ x <= y
        /\ x \in Nat /\ y \in Nat
    <3>1. /\ huecos[izq].inicio \in Nat /\ huecos[izq].fin \in Nat
          /\ huecos[izq].inicio <= huecos[izq].fin /\ huecos[izq].inicio \in Direccion
      BY <1>0, <1>1, <2>9
    <3>2. y = fin
      BY <1>2, <2>9, <3>1
    <3>. QED
      BY <1>2, <2>9, <3>1, <3>2
  <2>2. otros = ReplaceAt(huecos, izq, [inicio |-> x, fin |-> y])
    BY <1>6, <1>8, <2>1 DEF ActualizarHueco
  <2>3. ASSUME NEW i \in 1..n, i < izq
        PROVE  huecos[i].fin + 1 < x
    BY <1>4, <2>1, <2>3
  <2>4. ASSUME NEW i \in 1..n, izq < i
        PROVE  y + 1 < huecos[i].inicio
    <3>1. huecos[izq].fin + 1 < huecos[i].inicio
      BY <1>4, <2>1, <2>4
    <3>2. /\ huecos[i].inicio \in Nat /\ huecos[i].fin \in Nat
          /\ huecos[i].inicio <= huecos[i].fin /\ huecos[i].inicio # inicio + tam
          /\ huecos[i].fin < inicio \/ inicio + tam <= huecos[i].inicio
      BY <1>1, <1>5, <2>9
    <3>. QED
      BY <1>2, <2>1, <2>9, <3>1, <3>2
  <2> HIDE DEF x, y
  <2>5. /\ HuecosBien(otros)
        /\ \A a \in Direccion : EnHueco(a, otros) <=>
              \/ x <= a /\ a <= y
              \/ \E i \in 1..n : i # izq /\ huecos[i].inicio <= a /\ a <= huecos[i].fin
    <3>1. izq \in 1..Len(huecos)
      BY <2>1 DEF n
    <3>2. /\ \A i \in 1..Len(huecos) : i < izq => huecos[i].fin + 1 < x
          /\ \A i \in 1..Len(huecos) : izq < i => y + 1 < huecos[i].inicio
      BY <2>3, <2>4 DEF n
    <3>. QED
      BY <1>2, <2>1, <2>2, <3>1, <3>2, ReemplazaHueco DEF n
  <2>6. ASSUME NEW a \in Direccion
        PROVE  EnHueco(a, otros) <=> EnHueco(a, huecos) \/ (inicio <= a /\ a < inicio + tam)
    <3>2. /\ a \in Nat /\ huecos[izq].inicio \in Nat /\ huecos[izq].fin \in Nat
          /\ huecos[izq].inicio <= huecos[izq].fin
      BY <1>1, <2>9 DEF Direccion
    <3>3. y = inicio + tam - 1 /\ x = huecos[izq].inicio /\ huecos[izq].fin + 1 = inicio
      BY <2>1, <2>9 DEF x
    <3>1. x <= a /\ a <= y <=> \/ huecos[izq].inicio <= a /\ a <= huecos[izq].fin
                               \/ inicio <= a /\ a < inicio + tam
      BY <1>2, <3>2, <3>3
    <3>. QED
      BY <2>1, <2>5, <3>1 DEF EnHueco, n
  <2>. QED
    BY <2>5, <2>6 DEF otros
<1>9. CASE izq = 0 /\ der # 0
  <2> DEFINE y == huecos[der].fin
  <2>9. /\ der \in 1..n /\ huecos[der].inicio = inicio + tam
        /\ \A i \in 1..n : huecos[i].fin + 1 # inicio
    BY <1>1, <1>3, <1>9
  <2>1. /\ der \in 1..n /\ y \in Direccion /\ inicio <= y /\ y \in Nat
        /\ huecos[der].inicio <= y
    BY <1>0, <1>2, <1>1, <2>9
  <2>2. otros = ReplaceAt(huecos, der, [inicio |-> inicio, fin |-> y])
    BY <1>2, <1>6, <1>9, <2>1 DEF ActualizarHueco
  <2>3. ASSUME NEW i \in 1..n, i < der
        PROVE  huecos[i].fin + 1 < inicio
    <3>1. huecos[i].fin + 1 < inicio + tam
      BY <1>4, <2>3, <2>9
    <3>2. /\ huecos[i].inicio \in Nat /\ huecos[i].fin \in Nat
          /\ huecos[i].inicio <= huecos[i].fin /\ huecos[i].fin + 1 # inicio
          /\ huecos[i].fin < inicio \/ inicio + tam <= huecos[i].inicio
      BY <1>1, <1>5, <2>9
    <3>. QED
      BY <1>2, <3>1, <3>2
  <2>4. ASSUME NEW i \in 1..n, der < i
        PROVE  y + 1 < huecos[i].inicio
    BY <1>4, <2>1, <2>4
  <2> HIDE DEF y
  <2>5. /\ HuecosBien(otros)
        /\ \A a \in Direccion : EnHueco(a, otros) <=>
              \/ inicio <= a /\ a <= y
              \/ \E i \in 1..n : i # der /\ huecos[i].inicio <= a /\ a <= huecos[i].fin
    <3>1. der \in 1..Len(huecos)
      BY <2>1 DEF n
    <3>2. /\ \A i \in 1..Len(huecos) : i < der => huecos[i].fin + 1 < inicio
          /\ \A i \in 1..Len(huecos) : der < i => y + 1 < huecos[i].inicio
      BY <2>3, <2>4 DEF n
    <3>3. inicio \in Direccion /\ y \in Direccion /\ inicio <= y
      BY <1>2, <2>1
    <3>. QED
      BY <2>2, <3>1, <3>2, <3>3, ReemplazaHueco DEF n
  <2>6. ASSUME NEW a \in Direccion
        PROVE  EnHueco(a, otros) <=> EnHueco(a, huecos) \/ (inicio <= a /\ a < inicio + tam)
    <3>2. a \in Nat /\ huecos[der].fin \in Nat /\ huecos[der].inicio <= huecos[der].fin
      BY <1>1, <2>9 DEF Direccion
    <3>1. inicio <= a /\ a <= y <=> \/ huecos[der].inicio <= a /\ a <= huecos[der].fin
                                    \/ inicio <= a /\ a < inicio + tam
      BY <1>2, <2>9, <3>2 DEF y
    <3>. QED
      BY <2>1, <2>5, <3>1 DEF EnHueco, n
  <2>. QED
    BY <2>5, <2>6 DEF otros
<1>10. CASE izq # 0 /\ der # 0
  <2> DEFINE x == huecos[izq].inicio
             y == huecos[der].fin
  <2>12. /\ izq \in 1..n /\ huecos[izq].fin + 1 = inicio
         /\ der \in 1..n /\ huecos[der].inicio = inicio + tam
    BY <1>1, <1>3, <1>10
  <2>13. /\ huecos[izq].inicio \in Nat /\ huecos[izq].fin \in Nat
         /\ huecos[der].inicio \in Nat /\ huecos[der].fin \in Nat
         /\ huecos[izq].inicio <= huecos[izq].fin /\ huecos[der].inicio <= huecos[der].fin
    BY <1>1, <2>12
  <2>1. /\ izq \in 1..n /\ der \in 1..n
        /\ x \in Direccion /\ y \in Direccion /\ x <= y /\ x \in Nat /\ y \in Nat
        /\ huecos[izq].fin < huecos[der].inicio
    <3>1. x \in Direccion /\ y \in Direccion
      BY <1>0, <2>12
    <3>2. /\ x <= y /\ x \in Nat /\ y \in Nat
          /\ huecos[izq].fin < huecos[der].inicio
      BY <1>2, <2>12, <2>13
    <3>. QED
      BY <2>12, <3>1, <3>2
  <2>2. izq < der
    <3>1. CASE der < izq
      <4>1. huecos[der].fin + 1 < huecos[izq].inicio
        BY <1>4, <2>12, <3>1
      <4>. QED
        BY <1>2, <2>12, <2>13, <4>1
    <3>2. CASE der = izq
      BY <1>2, <2>12, <2>13, <3>2
    <3>. QED
      BY <1>1, <2>12, <3>1, <3>2
  <2>3. der = izq + 1
    <3> SUFFICES ASSUME izq + 1 < der
                 PROVE  FALSE
      BY <1>1, <2>1, <2>2
    <3> DEFINE m == izq + 1
    <3>1. m \in 1..n /\ izq < m /\ m < der
      BY <1>1, <2>1
    <3> HIDE DEF m
    <3>2. /\ huecos[izq].fin + 1 < huecos[m].inicio
          /\ huecos[m].fin + 1 < huecos[der].inicio
      BY <1>4, <2>1, <3>1
    <3>3. /\ huecos[m].inicio \in Nat /\ huecos[m].fin \in Nat
          /\ huecos[m].inicio <= huecos[m].fin
          /\ huecos[m].fin < inicio \/ inicio + tam <= huecos[m].inicio
      BY <1>1, <1>2, <1>5, <3>1
    <3>. QED
      BY <1>2, <2>12, <3>2, <3>3
  <2> DEFINE medio == ReplaceAt(huecos, izq, [inicio |-> x, fin |-> y])
  <2>4. otros = RemoveAt(medio, der)
    BY <1>6, <1>10, <2>1 DEF ActualizarHueco
  <2> DEFINE h == [inicio |-> x, fin |-> y]
  <2>5. /\ h \in Hueco /\ medio \in Seq(Hueco) /\ Len(medio) = n
        /\ \A i \in 1..n : medio[i] = IF i = izq THEN h ELSE huecos[i]
        /\ h.inicio = x /\ h.fin = y
    <3>1. h \in Hueco /\ h.inicio = x /\ h.fin = y
      BY <2>1 DEF Hueco
    <3> HIDE DEF h
    <3>. QED
      BY <1>0, <2>1, <3>1, ExceptSeq DEF ReplaceAt, n, h
  <2> HIDE DEF medio, h, x, y
  <2>6. /\ otros \in Seq(Hueco) /\ Len(otros) = n - 1
        /\ \A i \in 1..(n - 1) : otros[i] = IF i < der THEN medio[i] ELSE medio[i + 1]
    BY <2>1, <2>4, <2>5, RemoveAtProperties
  <2>7. \A i \in 1..(n - 1) :
           otros[i] = IF i < izq THEN huecos[i] ELSE IF i = izq THEN h ELSE huecos[i + 1]
    <3> TAKE i \in 1..(n - 1)
    <3>1. i \in 1..n /\ i + 1 \in 1..n
      BY <1>1
    <3>2. CASE i < der
      BY <2>1, <2>3, <2>5, <2>6, <3>1, <3>2
    <3>3. CASE ~(i < der)
      <4>1. i + 1 # izq /\ ~(i < izq) /\ i # izq
        BY <1>1, <2>1, <2>3, <3>3
      <4>. QED
        BY <2>5, <2>6, <3>1, <3>3, <4>1
    <3>. QED
      BY <3>2, <3>3
  <2>8. ASSUME NEW i \in 1..(n - 1)
        PROVE  otros[i].inicio <= otros[i].fin
    <3>1. i \in 1..n /\ i + 1 \in 1..n
      BY <1>1
    <3>. QED
      BY <1>1, <2>1, <2>5, <2>7, <3>1
  <2>9. ASSUME NEW i \in 1..(n - 1), NEW j \in 1..(n - 1), i < j
        PROVE  otros[i].fin + 1 < otros[j].inicio
    <3>1. i \in 1..n /\ i + 1 \in 1..n /\ j \in 1..n /\ j + 1 \in 1..n
      BY <1>1
    <3>2. CASE i = izq
      <4>1. otros[i] = h /\ otros[j] = huecos[j + 1] /\ der < j + 1
        BY <1>1, <2>1, <2>3, <2>7, <2>9, <3>2
      <4>2. huecos[der].fin + 1 < huecos[j + 1].inicio
        BY <1>4, <2>1, <3>1, <4>1
      <4>. QED
        BY <2>5, <4>1, <4>2 DEF y
    <3>3. CASE j = izq
      <4>1. otros[j] = h /\ otros[i] = huecos[i] /\ i < izq
        BY <1>1, <2>1, <2>7, <2>9, <3>3
      <4>2. huecos[i].fin + 1 < huecos[izq].inicio
        BY <1>4, <2>1, <3>1, <4>1
      <4>. QED
        BY <2>5, <4>1, <4>2 DEF x
    <3>4. CASE i # izq /\ j # izq
      <4> DEFINE ii == IF i < izq THEN i ELSE i + 1
                 jj == IF j < izq THEN j ELSE j + 1
      <4>1. ii \in 1..n /\ jj \in 1..n /\ ii < jj
        BY <1>1, <2>1, <2>9, <3>1, <3>4
      <4>2. otros[i] = huecos[ii] /\ otros[j] = huecos[jj]
        BY <2>7, <3>4
      <4> HIDE DEF ii, jj
      <4>. QED
        BY <1>4, <4>1, <4>2
    <3>. QED
      BY <3>2, <3>3, <3>4
  <2>10. HuecosBien(otros)
    BY <2>6, <2>8, <2>9 DEF HuecosBien
  <2>11. ASSUME NEW a \in Direccion
         PROVE  EnHueco(a, otros) <=>
                   EnHueco(a, huecos) \/ (inicio <= a /\ a < inicio + tam)
    <3>1. a \in Nat
      BY DEF Direccion
    <3>2. x <= a /\ a <= y <=> \/ huecos[izq].inicio <= a /\ a <= huecos[izq].fin
                               \/ huecos[der].inicio <= a /\ a <= huecos[der].fin
                               \/ inicio <= a /\ a < inicio + tam
      BY <1>2, <2>12, <2>13, <3>1 DEF x, y
    <3>3. ASSUME x <= a /\ a <= y
          PROVE  EnHueco(a, otros)
      <4>1. izq \in 1..(n - 1) /\ otros[izq] = h
        BY <1>1, <2>1, <2>3, <2>7
      <4>. QED
        BY <2>5, <2>6, <3>3, <4>1 DEF EnHueco
    <3>4. ASSUME NEW i \in 1..n, huecos[i].inicio <= a, a <= huecos[i].fin
          PROVE  EnHueco(a, otros)
      <4>1. CASE i = izq \/ i = der
        BY <3>2, <3>3, <3>4, <4>1
      <4>2. CASE i # izq /\ i # der
        <5> DEFINE ii == IF i < izq THEN i ELSE i - 1
        <5>1. /\ ii \in 1..(n - 1) /\ ii # izq
              /\ ii < izq => ii = i
              /\ ~(ii < izq) => ii + 1 = i
          BY <1>1, <2>1, <2>3, <4>2
        <5> HIDE DEF ii
        <5>2. otros[ii] = huecos[i]
          BY <2>7, <5>1
        <5>. QED
          BY <2>6, <3>4, <5>1, <5>2 DEF EnHueco
      <4>. QED
        BY <4>1, <4>2
    <3>5. ASSUME EnHueco(a, otros)
          PROVE  EnHueco(a, huecos) \/ (x <= a /\ a <= y)
      <4>1. PICK i \in 1..(n - 1) : otros[i].inicio <= a /\ a <= otros[i].fin
        BY <2>6, <3>5 DEF EnHueco
      <4>2. i \in 1..n /\ i + 1 \in 1..n
        BY <1>1
      <4>3. CASE i = izq
        BY <2>5, <2>7, <4>1, <4>3
      <4>4. CASE i < izq
        BY <2>7, <4>1, <4>2, <4>4 DEF EnHueco, n
      <4>5. CASE i # izq /\ ~(i < izq)
        BY <2>7, <4>1, <4>2, <4>5 DEF EnHueco, n
      <4>. QED
        BY <4>3, <4>4, <4>5
    <3>. QED
      BY <2>1, <3>2, <3>3, <3>4, <3>5 DEF EnHueco, n
  <2>. QED
    BY <2>10, <2>11 DEF otros
<1>. QED
  BY <1>7, <1>8, <1>9, <1>10

-----------------------------------------------------------------------------
(* Holes and segments: the space is divided among them *)

Dentro(s, a) == s.inicio <= a /\ a < s.inicio + s.tam_segmento
Aparte(s, t) == \/ s.inicio + s.tam_segmento <= t.inicio
                \/ t.inicio + t.tam_segmento <= s.inicio

\* The segments of V, each inside the memory and none over another.
SegmentosBien(S, V) ==
    /\ \A d \in V : S[d] \in Segmento /\ S[d].inicio + S[d].tam_segmento <= TAM_MEMORIA
    /\ \A d, e \in V : d # e => Aparte(S[d], S[e])

\* What no segment of V has is in the holes, and nothing else is.
Particion(H, S, V) ==
    /\ HuecosBien(H)
    /\ SegmentosBien(S, V)
    /\ \A a \in Direccion : EnHueco(a, H) <=> \A d \in V : ~Dentro(S[d], a)

\* The numbers of a segment.
LEMMA NumerosDeSegmento ==
    ASSUME NEW s \in Segmento
    PROVE  /\ s.inicio \in Nat /\ s.inicio \in Direccion
           /\ s.tam_segmento \in Nat /\ s.tam_segmento > 0
           /\ s.tam_segmento \in 1..TAM_MEMORIA
  BY MemoriaAssumption DEF Segmento, Direccion

\* The space that a segment of V leaves is clear of the holes.
LEMMA SinHuecoEnSegmento ==
    ASSUME NEW H, NEW S, NEW V, Particion(H, S, V), NEW d \in V
    PROVE  SinHuecoEn(H, S[d].inicio, S[d].tam_segmento)
<1> DEFINE ini == S[d].inicio
           tam == S[d].tam_segmento
<1>1. /\ ini \in Nat /\ tam \in Nat /\ tam > 0 /\ ini + tam <= TAM_MEMORIA
      /\ ini + tam - 1 \in Direccion
  <2>1. S[d] \in Segmento /\ ini + tam <= TAM_MEMORIA
    BY DEF Particion, SegmentosBien
  <2>2. ini \in Nat /\ tam \in Nat /\ tam > 0
    BY <2>1, NumerosDeSegmento
  <2> HIDE DEF ini, tam
  <2>. QED
    BY <2>1, <2>2, MemoriaAssumption DEF Direccion
<1>2. HuecosBien(H) /\ H \in Seq(Hueco)
  BY DEF Particion, HuecosBien
<1>3. ASSUME NEW i \in 1..Len(H), ~(H[i].fin < ini), ~(ini + tam <= H[i].inicio)
      PROVE  FALSE
  <2> DEFINE a == IF ini <= H[i].inicio THEN H[i].inicio ELSE ini
  <2>1. /\ H[i].inicio \in Nat /\ H[i].fin \in Nat /\ H[i].inicio <= H[i].fin
        /\ H[i].fin < TAM_MEMORIA
    BY <1>2, NumerosDeHuecos DEF HuecosBien
  <2> HIDE DEF ini, tam
  <2>2. /\ a \in Direccion /\ H[i].inicio <= a /\ a <= H[i].fin
        /\ ini <= a /\ a < ini + tam
    <3>1. TAM_MEMORIA \in Nat
      BY MemoriaAssumption
    <3>2. CASE ini <= H[i].inicio
      <4>1. a = H[i].inicio
        BY <3>2
      <4>. QED
        BY <1>1, <1>3, <2>1, <3>1, <3>2, <4>1 DEF Direccion
    <3>3. CASE ~(ini <= H[i].inicio)
      <4>1. a = ini
        BY <3>3
      <4>. QED
        BY <1>1, <1>3, <2>1, <3>1, <3>3, <4>1 DEF Direccion
    <3>. QED
      BY <3>2, <3>3
  <2>3. EnHueco(a, H) /\ Dentro(S[d], a)
    BY <2>2 DEF EnHueco, Dentro, ini, tam
  <2>. QED
    BY <2>2, <2>3 DEF Particion
<1> HIDE DEF ini, tam
<1>4. \A i \in 1..Len(H) : H[i].fin < ini \/ ini + tam <= H[i].inicio
  BY <1>3
<1>. QED
  BY <1>1, <1>4 DEF SinHuecoEn, ini, tam

\* A segment that is freed becomes a hole, joined with those at its sides.
LEMMA LiberaSegmento ==
    ASSUME NEW H, NEW S, NEW V, Particion(H, S, V), NEW d \in V
    PROVE  Particion(ConsolidarHuecos(H, S[d].inicio, S[d].tam_segmento), S, V \ {d})
<1> DEFINE ini == S[d].inicio
           tam == S[d].tam_segmento
           otros == ConsolidarHuecos(H, ini, tam)
<1>1. SinHuecoEn(H, ini, tam) /\ HuecosBien(H)
  BY SinHuecoEnSegmento DEF Particion
<1>2. /\ HuecosBien(otros)
      /\ \A a \in Direccion :
            EnHueco(a, otros) <=> EnHueco(a, H) \/ (ini <= a /\ a < ini + tam)
  <2> HIDE DEF ini, tam
  <2>. QED
    BY <1>1, ConsolidaHuecos
<1>3. SegmentosBien(S, V \ {d})
  BY DEF Particion, SegmentosBien
<1>4. ASSUME NEW a \in Direccion
      PROVE  EnHueco(a, otros) <=> \A e \in V \ {d} : ~Dentro(S[e], a)
  <2>1. EnHueco(a, H) <=> \A e \in V : ~Dentro(S[e], a)
    BY DEF Particion
  <2>2. ASSUME NEW e \in V, e # d, Dentro(S[d], a)
        PROVE  ~Dentro(S[e], a)
    <3>1. S[d] \in Segmento /\ S[e] \in Segmento /\ Aparte(S[d], S[e])
      BY <2>2 DEF Particion, SegmentosBien
    <3>2. /\ S[d].inicio \in Nat /\ S[d].tam_segmento \in Nat
          /\ S[e].inicio \in Nat /\ S[e].tam_segmento \in Nat
      BY <3>1, NumerosDeSegmento
    <3>3. a \in Nat
      BY DEF Direccion
    <3>. QED
      BY <2>2, <3>1, <3>2, <3>3 DEF Aparte, Dentro
  <2>3. EnHueco(a, otros) <=> EnHueco(a, H) \/ Dentro(S[d], a)
    BY <1>2 DEF Dentro
  <2>. QED
    BY <2>1, <2>2, <2>3
<1>. QED
  BY <1>2, <1>3, <1>4 DEF Particion

\* A new segment at the start of a hole where it fits takes its bytes from it.
LEMMA OcupaHueco ==
    ASSUME NEW H, NEW S, NEW V, Particion(H, S, V), NEW k \in 1..Len(H),
           NEW tam \in Nat \ {0}, TamanioHueco(H[k]) >= tam,
           NEW d, d \notin V, NEW T,
           \A e \in V : T[e] = S[e],
           T[d] \in Segmento, T[d].inicio = H[k].inicio, T[d].tam_segmento = tam
    PROVE  Particion(ActualizarHueco(H, k, H[k].inicio + tam, H[k].fin), T, V \cup {d})
<1> DEFINE base == H[k].inicio
           fin == H[k].fin
           otros == ActualizarHueco(H, k, base + tam, fin)
<1>1. /\ HuecosBien(H) /\ SegmentosBien(S, V) /\ H \in Seq(Hueco)
      /\ \A a \in Direccion : EnHueco(a, H) <=> \A e \in V : ~Dentro(S[e], a)
  BY DEF Particion, HuecosBien
<1>2. /\ Len(H) \in Nat
      /\ \A i \in 1..Len(H) : /\ H[i].inicio \in Nat /\ H[i].fin \in Nat
                              /\ H[i].inicio <= H[i].fin /\ H[i].fin < TAM_MEMORIA
  BY <1>1, NumerosDeHuecos DEF HuecosBien
<1>3. \A i, j \in 1..Len(H) : i < j => H[i].fin + 1 < H[j].inicio
  BY <1>1 DEF HuecosBien
<1>4. /\ base \in Nat /\ fin \in Nat /\ tam \in Nat /\ tam > 0
      /\ base + tam - 1 <= fin /\ fin < TAM_MEMORIA
  BY <1>2 DEF TamanioHueco
<1>5. /\ HuecosBien(otros)
      /\ \A a \in Direccion : EnHueco(a, otros) <=>
            \/ base + tam <= a /\ a <= fin
            \/ \E i \in 1..Len(H) : i # k /\ H[i].inicio <= a /\ a <= H[i].fin
  <2>1. CASE base + tam > fin
    <3>1. otros = RemoveAt(H, k)
      BY <2>1 DEF ActualizarHueco
    <3>2. \A a \in Direccion : ~(base + tam <= a /\ a <= fin)
      <4> HIDE DEF base, fin
      <4>. QED
        BY <1>4, <2>1 DEF Direccion
    <3> HIDE DEF base, fin, otros
    <3>. QED
      BY <1>1, <3>1, <3>2, SacaHueco
  <2>2. CASE ~(base + tam > fin)
    <3>1. otros = ReplaceAt(H, k, [inicio |-> base + tam, fin |-> fin])
      BY <2>2 DEF ActualizarHueco
    <3>2. /\ base + tam \in Direccion /\ fin \in Direccion /\ base + tam <= fin
      BY <1>4, <2>2, MemoriaAssumption DEF Direccion
    <3>3. ASSUME NEW i \in 1..Len(H), i < k
          PROVE  H[i].fin + 1 < base + tam
      BY <1>2, <1>3, <1>4, <3>3
    <3>4. ASSUME NEW i \in 1..Len(H), k < i
          PROVE  fin + 1 < H[i].inicio
      BY <1>3, <3>4
    <3> HIDE DEF base, fin, otros
    <3>. QED
      BY <1>1, <3>1, <3>2, <3>3, <3>4, ReemplazaHueco
  <2>. QED
    BY <2>1, <2>2
<1>6. ASSUME NEW e \in V
      PROVE  Aparte(S[e], T[d])
  <2>1. /\ S[e] \in Segmento /\ S[e].inicio \in Nat /\ S[e].tam_segmento \in Nat
        /\ S[e].tam_segmento > 0 /\ S[e].inicio + S[e].tam_segmento <= TAM_MEMORIA
    BY <1>1, NumerosDeSegmento DEF SegmentosBien
  <2> SUFFICES ASSUME S[e].inicio + S[e].tam_segmento > base,
                      base + tam > S[e].inicio
               PROVE  FALSE
    BY <1>4, <2>1 DEF Aparte
  <2> DEFINE a == IF base <= S[e].inicio THEN S[e].inicio ELSE base
  <2>2. /\ a \in Direccion /\ base <= a /\ a <= fin
        /\ S[e].inicio <= a /\ a < S[e].inicio + S[e].tam_segmento
    BY <1>4, <2>1, MemoriaAssumption DEF Direccion
  <2>3. EnHueco(a, H) /\ Dentro(S[e], a)
    BY <2>2 DEF EnHueco, Dentro
  <2>. QED
    BY <1>1, <2>2, <2>3
<1>7. SegmentosBien(T, V \cup {d})
  <2>1. T[d].inicio + T[d].tam_segmento <= TAM_MEMORIA
    BY <1>4, MemoriaAssumption
  <2>2. \A e \in V \cup {d} :
           T[e] \in Segmento /\ T[e].inicio + T[e].tam_segmento <= TAM_MEMORIA
    BY <1>1, <2>1 DEF SegmentosBien
  <2>3. \A e, f \in V : e # f => Aparte(T[e], T[f])
    BY <1>1 DEF SegmentosBien
  <2>4. \A e \in V : Aparte(T[e], T[d]) /\ Aparte(T[d], T[e])
    <3>1. \A e \in V : Aparte(T[d], S[e])
      BY <1>6 DEF Aparte
    <3>. QED
      BY <1>6, <3>1
  <2>. QED
    BY <2>2, <2>3, <2>4 DEF SegmentosBien
<1>8. ASSUME NEW a \in Direccion
      PROVE  EnHueco(a, otros) <=> \A e \in V \cup {d} : ~Dentro(T[e], a)
  <2>1. a \in Nat
    BY DEF Direccion
  <2>2. (\A e \in V \cup {d} : ~Dentro(T[e], a)) <=> EnHueco(a, H) /\ ~Dentro(T[d], a)
    <3>1. \A e \in V : Dentro(T[e], a) <=> Dentro(S[e], a)
      BY DEF Dentro
    <3>. QED
      BY <1>1, <3>1
  <2>3. Dentro(T[d], a) <=> base <= a /\ a < base + tam
    BY DEF Dentro
  <2>4. ASSUME EnHueco(a, otros)
        PROVE  EnHueco(a, H) /\ ~Dentro(T[d], a)
    <3>1. CASE base + tam <= a /\ a <= fin
      <4>1. base <= a /\ ~(a < base + tam)
        BY <1>4, <2>1, <3>1
      <4>. QED
        BY <2>3, <3>1, <4>1 DEF EnHueco
    <3>2. CASE \E i \in 1..Len(H) : i # k /\ H[i].inicio <= a /\ a <= H[i].fin
      <4>1. PICK i \in 1..Len(H) : i # k /\ H[i].inicio <= a /\ a <= H[i].fin
        BY <3>2
      <4>2. H[i].fin + 1 < base \/ fin + 1 < H[i].inicio
        <5>1. i < k \/ k < i
          BY <1>2, <4>1
        <5>. QED
          BY <1>3, <5>1
      <4>3. H[i].inicio \in Nat /\ H[i].fin \in Nat
        BY <1>2
      <4>4. ~(base <= a /\ a < base + tam)
        <5> HIDE DEF base, fin
        <5>. QED
          BY <1>4, <2>1, <4>1, <4>2, <4>3
      <4>. QED
        BY <2>3, <4>1, <4>4 DEF EnHueco
    <3>. QED
      BY <1>5, <2>4, <3>1, <3>2
  <2>5. ASSUME EnHueco(a, H), ~Dentro(T[d], a)
        PROVE  EnHueco(a, otros)
    <3>1. PICK i \in 1..Len(H) : H[i].inicio <= a /\ a <= H[i].fin
      BY <2>5 DEF EnHueco
    <3>2. CASE i = k
      <4>1. base + tam <= a /\ a <= fin
        BY <1>4, <2>1, <2>3, <2>5, <3>1, <3>2
      <4>. QED
        BY <1>5, <4>1
    <3>3. CASE i # k
      BY <1>5, <3>1, <3>3
    <3>. QED
      BY <3>2, <3>3
  <2>. QED
    BY <2>2, <2>4, <2>5
<1>. QED
  BY <1>5, <1>7, <1>8 DEF Particion

-----------------------------------------------------------------------------
(* Compaction moves one segment at a time *)

Espacio(V) == [huecos : Seq(Hueco), segmento : [V -> Segmento], bytes : [Direccion -> Byte]]

\* The bytes of the segments of V are the same, wherever they are.
MismosDatos(esp, otro, V) ==
    /\ \A e \in V : /\ otro.segmento[e].segmento_id = esp.segmento[e].segmento_id
                    /\ otro.segmento[e].tam_segmento = esp.segmento[e].tam_segmento
    /\ \A e \in V : \A k \in 0..(esp.segmento[e].tam_segmento - 1) :
          otro.bytes[otro.segmento[e].inicio + k] = esp.bytes[esp.segmento[e].inicio + k]

\* A segment that slides over the hole before it leaves the hole after it.
LEMMA Intercambio ==
    ASSUME NEW H, NEW S, NEW V, Particion(H, S, V), NEW d \in V,
           NEW k \in 1..Len(H), H[k].fin + 1 = S[d].inicio,
           NEW T, \A e \in V : e # d => T[e] = S[e],
           T[d] \in Segmento, T[d].inicio = S[d].inicio - TamanioHueco(H[k]),
           T[d].tam_segmento = S[d].tam_segmento
    PROVE  /\ Particion(ConsolidarHuecos(RemoveAt(H, k), T[d].inicio + T[d].tam_segmento,
                                         TamanioHueco(H[k])), T, V)
           /\ \A e \in V : e # d => Aparte(T[d], S[e])
<1> DEFINE otros == RemoveAt(H, k)
           tam == TamanioHueco(H[k])
           base == H[k].inicio
           ini == S[d].inicio
           lon == S[d].tam_segmento
           nuevos == ConsolidarHuecos(otros, base + lon, tam)
<1>1. /\ HuecosBien(H) /\ SegmentosBien(S, V) /\ H \in Seq(Hueco)
      /\ \A a \in Direccion : EnHueco(a, H) <=> \A e \in V : ~Dentro(S[e], a)
  BY DEF Particion, HuecosBien
<1>2. /\ Len(H) \in Nat
      /\ \A i \in 1..Len(H) : /\ H[i].inicio \in Nat /\ H[i].fin \in Nat
                              /\ H[i].inicio <= H[i].fin /\ H[i].fin < TAM_MEMORIA
  BY <1>1, NumerosDeHuecos DEF HuecosBien
<1>3. \A i, j \in 1..Len(H) : i < j => H[i].fin + 1 < H[j].inicio
  BY <1>1 DEF HuecosBien
<1>4. /\ base \in Nat /\ ini \in Nat /\ lon \in Nat /\ lon > 0 /\ tam \in Nat /\ tam > 0
      /\ base + tam = ini /\ ini + lon <= TAM_MEMORIA
      /\ H[k].fin = ini - 1
  <2>1. S[d] \in Segmento /\ ini + lon <= TAM_MEMORIA
    BY <1>1 DEF SegmentosBien
  <2>2. ini \in Nat /\ lon \in Nat /\ lon > 0
    BY <2>1, NumerosDeSegmento
  <2>3. base \in Nat /\ H[k].fin \in Nat /\ base <= H[k].fin /\ tam = H[k].fin - base + 1
    BY <1>2 DEF TamanioHueco
  <2>4. H[k].fin + 1 = ini
    OBVIOUS
  <2> HIDE DEF base, ini, lon, tam
  <2>. QED
    BY <2>1, <2>2, <2>3, <2>4
<1>5. T[d].inicio = base /\ T[d].tam_segmento = lon
  <2>1. T[d].inicio = ini - tam
    OBVIOUS
  <2> HIDE DEF base, ini, lon, tam
  <2>. QED
    BY <1>4, <2>1 DEF lon
<1>6. /\ HuecosBien(otros)
      /\ \A a \in Direccion : EnHueco(a, otros) <=>
            \E i \in 1..Len(H) : i # k /\ H[i].inicio <= a /\ a <= H[i].fin
  <2> HIDE DEF tam, base, ini, lon
  <2>. QED
    BY <1>1, SacaHueco
\* The hole k against the others, and against the segments.
<1>7. ASSUME NEW a \in Direccion
      PROVE  /\ EnHueco(a, H) <=> EnHueco(a, otros) \/ (base <= a /\ a < ini)
             /\ EnHueco(a, otros) => ~(base <= a /\ a < ini)
  <2>0. a \in Nat
    BY DEF Direccion
  <2>1. (base <= a /\ a < ini) <=> (H[k].inicio <= a /\ a <= H[k].fin)
    <3>1. H[k].inicio = base /\ H[k].fin = ini - 1
      BY <1>4
    <3> HIDE DEF base, ini
    <3>. QED
      BY <1>4, <2>0, <3>1
  <2>2. ASSUME NEW i \in 1..Len(H), i # k, H[i].inicio <= a, a <= H[i].fin
        PROVE  ~(H[k].inicio <= a /\ a <= H[k].fin)
    <3>1. i < k \/ k < i
      BY <1>2, <2>2
    <3>2. H[i].fin + 1 < H[k].inicio \/ H[k].fin + 1 < H[i].inicio
      BY <1>3, <3>1
    <3>3. /\ H[i].inicio \in Nat /\ H[i].fin \in Nat
          /\ H[k].inicio \in Nat /\ H[k].fin \in Nat
      BY <1>2
    <3>. QED
      BY <2>0, <2>2, <3>2, <3>3
  <2> HIDE DEF base, ini, otros
  <2>. QED
    BY <1>6, <2>1, <2>2 DEF EnHueco
<1>8. \A a \in Direccion : a < TAM_MEMORIA /\ a \in Nat
  BY MemoriaAssumption DEF Direccion
<1>9. \A a \in Nat : a < TAM_MEMORIA => a \in Direccion
  BY MemoriaAssumption DEF Direccion
<1>10. ASSUME NEW e \in V, e # d
       PROVE  /\ Aparte(T[d], S[e]) /\ Aparte(S[d], S[e])
              /\ S[e].inicio \in Nat /\ S[e].tam_segmento \in Nat
  <2>1. /\ S[e] \in Segmento /\ S[e].inicio + S[e].tam_segmento <= TAM_MEMORIA
        /\ Aparte(S[d], S[e])
    BY <1>1, <1>10 DEF SegmentosBien
  <2>2. /\ S[e].inicio \in Nat /\ S[e].tam_segmento \in Nat /\ S[e].tam_segmento > 0
    BY <2>1, NumerosDeSegmento
  <2> DEFINE ie == S[e].inicio
             le == S[e].tam_segmento
             a == ie + le - 1
  <2>3. ini + lon <= ie \/ ie + le <= ini
    BY <2>1 DEF Aparte
  <2>4. ie \in Nat /\ le \in Nat /\ le > 0 /\ ie + le <= TAM_MEMORIA
    BY <2>1, <2>2
  <2>5. a >= ie /\ a < ie + le => Dentro(S[e], a)
    BY DEF Dentro
  <2> HIDE DEF ie, le, base, ini, lon, tam
  <2>6. base + lon <= ie \/ ie + le <= base
    <3> SUFFICES ASSUME ~(base + lon <= ie), ~(ie + le <= base)
                 PROVE  FALSE
      OBVIOUS
    <3>1. ie + le <= ini
      BY <1>4, <2>3, <2>4
    <3>2. a \in Nat /\ a < TAM_MEMORIA /\ base <= a /\ a < ini /\ a >= ie /\ a < ie + le
      <4>1. TAM_MEMORIA \in Nat
        BY MemoriaAssumption
      <4>. QED
        BY <1>4, <2>4, <3>1, <4>1
    <3> HIDE DEF a
    <3>3. a \in Direccion /\ Dentro(S[e], a) /\ EnHueco(a, H)
      BY <1>7, <1>9, <2>5, <3>2
    <3>. QED
      BY <1>1, <3>3
  <2>7. Aparte(T[d], S[e])
    BY <1>5, <2>6 DEF Aparte, ie, le
  <2>. QED
    BY <2>1, <2>2, <2>7
<1>11. SinHuecoEn(otros, base + lon, tam)
  <2>1. /\ base + lon \in Nat /\ tam \in Nat /\ tam > 0 /\ base + lon + tam - 1 \in Direccion
        /\ base + lon + tam = ini + lon
    <3> HIDE DEF base, ini, lon, tam, otros
    <3>. QED
      BY <1>4, MemoriaAssumption DEF Direccion
  <2>2. /\ otros \in Seq(Hueco)
        /\ \A i \in 1..Len(otros) : otros[i].inicio <= otros[i].fin
    BY <1>6 DEF HuecosBien
  <2>3. /\ Len(otros) \in Nat
        /\ \A i \in 1..Len(otros) : /\ otros[i].inicio \in Nat /\ otros[i].fin \in Nat
                                    /\ otros[i].fin < TAM_MEMORIA
    <3> HIDE DEF otros
    <3>. QED
      BY <2>2, NumerosDeHuecos
  <2>4. \A a \in Direccion : Dentro(S[d], a) <=> ini <= a /\ a < ini + lon
    BY DEF Dentro
  <2> HIDE DEF base, ini, lon, tam, otros
  <2>5. ASSUME NEW i \in 1..Len(otros),
               ~(otros[i].fin < base + lon), ~(base + lon + tam <= otros[i].inicio)
        PROVE  FALSE
    <3> DEFINE a == IF base + lon <= otros[i].inicio THEN otros[i].inicio ELSE base + lon
    <3>1. /\ a \in Nat /\ a < TAM_MEMORIA /\ base <= a /\ a < ini + lon
          /\ otros[i].inicio <= a /\ a <= otros[i].fin
      <4>1. TAM_MEMORIA \in Nat /\ otros[i].inicio <= otros[i].fin
        BY <2>2, MemoriaAssumption
      <4>. QED
        BY <1>4, <2>1, <2>3, <2>5, <4>1
    <3> HIDE DEF a
    <3>2. a \in Direccion /\ EnHueco(a, otros)
      BY <1>9, <3>1 DEF EnHueco
    <3>3. ~(base <= a /\ a < ini) /\ EnHueco(a, H)
      BY <1>7, <3>2
    <3>4. Dentro(S[d], a)
      BY <1>4, <2>4, <3>1, <3>2, <3>3
    <3>. QED
      BY <1>1, <3>2, <3>3, <3>4
  <2>6. \A i \in 1..Len(otros) :
           otros[i].fin < base + lon \/ base + lon + tam <= otros[i].inicio
    BY <2>5
  <2>. QED
    BY <2>1, <2>6 DEF SinHuecoEn
<1>12. /\ HuecosBien(nuevos)
       /\ \A a \in Direccion : EnHueco(a, nuevos) <=>
             EnHueco(a, otros) \/ (base + lon <= a /\ a < base + lon + tam)
  <2> HIDE DEF base, lon, tam, otros
  <2>. QED
    BY <1>6, <1>11, ConsolidaHuecos
<1>13. SegmentosBien(T, V)
  <2>1. T[d].inicio + T[d].tam_segmento <= TAM_MEMORIA
    <3> HIDE DEF base, ini, lon, tam
    <3>. QED
      BY <1>4, <1>5, MemoriaAssumption
  <2>2. \A e \in V : T[e] \in Segmento /\ T[e].inicio + T[e].tam_segmento <= TAM_MEMORIA
    BY <1>1, <2>1 DEF SegmentosBien
  <2>3. \A e, f \in V : e # f /\ e # d /\ f # d => Aparte(T[e], T[f])
    BY <1>1 DEF SegmentosBien
  <2>4. \A e \in V : e # d => Aparte(T[e], T[d]) /\ Aparte(T[d], T[e])
    <3>1. \A e \in V : e # d => Aparte(S[e], T[d]) /\ Aparte(T[d], S[e])
      BY <1>10 DEF Aparte
    <3>. QED
      BY <3>1
  <2>. QED
    BY <2>2, <2>3, <2>4 DEF SegmentosBien
<1>14. ASSUME NEW a \in Direccion
       PROVE  EnHueco(a, nuevos) <=> \A e \in V : ~Dentro(T[e], a)
  <2> DEFINE O == \A e \in V \ {d} : ~Dentro(S[e], a)
             X == base <= a /\ a < ini
             D == ini <= a /\ a < ini + lon
             E == base <= a /\ a < base + lon
             R == base + lon <= a /\ a < base + lon + tam
  <2>1. (\A e \in V : ~Dentro(T[e], a)) <=> O /\ ~E
    <3>1. Dentro(T[d], a) <=> E
      BY <1>5 DEF Dentro
    <3>2. \A e \in V \ {d} : Dentro(T[e], a) <=> Dentro(S[e], a)
      BY DEF Dentro
    <3> HIDE DEF E
    <3>. QED
      BY <3>1, <3>2
  <2>2. EnHueco(a, H) <=> O /\ ~D
    <3>1. Dentro(S[d], a) <=> D
      BY DEF Dentro
    <3> HIDE DEF D
    <3>. QED
      BY <1>1, <3>1
  <2>3. D => O
    <3>1. ASSUME NEW e \in V \ {d}, D, Dentro(S[e], a)
          PROVE  FALSE
      <4>1. /\ S[e].inicio \in Nat /\ S[e].tam_segmento \in Nat
            /\ ini + lon <= S[e].inicio \/ S[e].inicio + S[e].tam_segmento <= ini
            /\ S[e].inicio <= a /\ a < S[e].inicio + S[e].tam_segmento
        BY <1>10, <3>1 DEF Aparte, Dentro
      <4> HIDE DEF ini, lon
      <4>. QED
        BY <1>4, <1>8, <3>1, <4>1
    <3>. QED
      BY <3>1
  <2>4. /\ EnHueco(a, H) <=> EnHueco(a, otros) \/ X
        /\ EnHueco(a, otros) => ~X
    BY <1>7
  <2>5. EnHueco(a, nuevos) <=> EnHueco(a, otros) \/ R
    BY <1>12
  <2>6. (X \/ D <=> E \/ R) /\ (R => ~E)
    <3>1. a \in Nat
      BY <1>8
    <3> HIDE DEF base, ini, lon, tam
    <3>. QED
      BY <1>4, <3>1
  <2> HIDE DEF O, X, D, E, R, nuevos, otros
  <2>. QED
    BY <2>1, <2>2, <2>3, <2>4, <2>5, <2>6
<1>15. Particion(nuevos, T, V)
  BY <1>12, <1>13, <1>14 DEF Particion
<1>16. nuevos = ConsolidarHuecos(RemoveAt(H, k), T[d].inicio + T[d].tam_segmento,
                                 TamanioHueco(H[k]))
  BY <1>5
<1>. QED
  BY <1>10, <1>15, <1>16

\* A step of the compaction keeps the space divided and the bytes of every segment.
LEMMA DeslizaSegmento ==
    ASSUME NEW V, NEW esp \in Espacio(V), Particion(esp.huecos, esp.segmento, V), NEW d \in V
    PROVE  LET otro == Deslizar(esp, d)
           IN  /\ otro \in Espacio(V)
               /\ Particion(otro.huecos, otro.segmento, V)
               /\ MismosDatos(esp, otro, V)
<1> DEFINE otro == Deslizar(esp, d)
           H == esp.huecos
           S == esp.segmento
           B == esp.bytes
           k == HuecoPorLimite(H, S[d].inicio)
           tam == TamanioHueco(H[k])
           base == S[d].inicio - tam
           lon == S[d].tam_segmento
           T == [S EXCEPT ![d].inicio = base]
           C == MoverBytes(B, base, S[d].inicio, lon)
           N == ConsolidarHuecos(RemoveAt(H, k), base + lon, tam)
<1>1. /\ H \in Seq(Hueco) /\ S \in [V -> Segmento] /\ B \in [Direccion -> Byte]
      /\ HuecosBien(H) /\ SegmentosBien(S, V)
  BY DEF Espacio, Particion
<1>2. otro = IF k = 0 THEN esp ELSE [huecos |-> N, segmento |-> T, bytes |-> C]
  BY DEF Deslizar
<1>3. CASE k = 0
  <2>1. otro = esp
    BY <1>2, <1>3
  <2>2. MismosDatos(esp, esp, V)
    BY DEF MismosDatos
  <2>. QED
    BY <2>1, <2>2
<1>4. CASE k # 0
  <2>1. k \in 1..Len(H) /\ H[k].fin + 1 = S[d].inicio
    <3>1. Len(H) \in Nat
      BY <1>1, NumerosDeHuecos
    <3>2. k \in 0..Len(H) /\ H[k].fin + 1 = S[d].inicio
      <4> HIDE DEF H, S
      <4>. QED
        BY <1>1, <1>4, BuscaHuecos
    <3> HIDE DEF k, H, S
    <3>. QED
      BY <1>4, <3>1, <3>2
  <2>2. /\ S[d] \in Segmento /\ S[d].inicio \in Nat /\ lon \in Nat /\ lon > 0
        /\ S[d].inicio + lon <= TAM_MEMORIA
    <3>1. S[d] \in Segmento /\ S[d].inicio + lon <= TAM_MEMORIA
      BY <1>1 DEF SegmentosBien
    <3>. QED
      BY <3>1, NumerosDeSegmento
  <2>3. /\ base = H[k].inicio /\ base \in Nat /\ base \in Direccion
        /\ tam \in Nat /\ base + tam = S[d].inicio
    <3>1. H[k] \in Hueco /\ H[k].inicio \in Nat /\ H[k].fin \in Nat
          /\ H[k].inicio <= H[k].fin
      BY <1>1, <2>1, NumerosDeHuecos DEF HuecosBien
    <3>2. tam = H[k].fin - H[k].inicio + 1
      BY DEF TamanioHueco
    <3>3. H[k].inicio \in Direccion
      BY <3>1 DEF Hueco
    <3>4. tam \in Nat /\ base = H[k].inicio /\ base + tam = S[d].inicio
      <4> HIDE DEF H, S, k, tam
      <4>. QED
        BY <2>1, <2>2, <3>1, <3>2
    <3>. QED
      BY <3>1, <3>3, <3>4
  <2>4. /\ T \in [V -> Segmento] /\ T[d].inicio = base
        /\ T[d].tam_segmento = lon /\ T[d].segmento_id = S[d].segmento_id
        /\ \A e \in V : e # d => T[e] = S[e]
    <3>1. [S[d] EXCEPT !.inicio = base] \in Segmento
      BY <2>2, <2>3 DEF Segmento
    <3>2. T = [S EXCEPT ![d] = [S[d] EXCEPT !.inicio = base]]
      BY <1>1
    <3>3. /\ [S[d] EXCEPT !.inicio = base].inicio = base
          /\ [S[d] EXCEPT !.inicio = base].tam_segmento = lon
          /\ [S[d] EXCEPT !.inicio = base].segmento_id = S[d].segmento_id
      BY <2>2 DEF Segmento
    <3> DEFINE r == [S[d] EXCEPT !.inicio = base]
    <3>4. r \in Segmento /\ r.inicio = base /\ r.tam_segmento = lon
          /\ r.segmento_id = S[d].segmento_id /\ T = [S EXCEPT ![d] = r]
      BY <3>1, <3>2, <3>3
    <3> HIDE DEF r, base, lon, S, T
    <3>. QED
      BY <1>1, <3>4
  <2>5. Particion(N, T, V) /\ \A e \in V : e # d => Aparte(T[d], S[e])
    <3>1. T[d] \in Segmento
      BY <2>4
    <3>2. Particion(H, S, V)
      OBVIOUS
    <3>3. /\ T[d].inicio = S[d].inicio - TamanioHueco(H[k])
          /\ T[d].tam_segmento = S[d].tam_segmento
          /\ N = ConsolidarHuecos(RemoveAt(H, k), T[d].inicio + T[d].tam_segmento,
                                  TamanioHueco(H[k]))
      BY <2>4
    <3>4. \A e \in V : e # d => T[e] = S[e]
      BY <2>4
    <3> HIDE DEF H, S, k, T, N
    <3>. QED
      BY <2>1, <3>1, <3>2, <3>3, <3>4, Intercambio
  <2>6. /\ \A a \in Direccion : C[a] = IF base <= a /\ a < base + lon
                                       THEN B[a - base + S[d].inicio] ELSE B[a]
        /\ C \in [Direccion -> Byte]
    <3>1. C = [a \in Direccion |-> IF a \in base..(base + lon - 1)
                                   THEN B[a - base + S[d].inicio] ELSE B[a]]
      BY <1>1 DEF MoverBytes
    <3>2. ASSUME NEW a \in Direccion
          PROVE  /\ a \in base..(base + lon - 1) <=> base <= a /\ a < base + lon
                 /\ base <= a /\ a < base + lon => a - base + S[d].inicio \in Direccion
      <4>1. a \in Nat
        BY DEF Direccion
      <4>2. TAM_MEMORIA \in Nat
        BY MemoriaAssumption
      <4> HIDE DEF base, lon, S
      <4>. QED
        BY <2>2, <2>3, <4>1, <4>2 DEF Direccion
    <3> HIDE DEF C, base, lon, S, B
    <3>3. \A a \in Direccion : C[a] = IF base <= a /\ a < base + lon
                                      THEN B[a - base + S[d].inicio] ELSE B[a]
      BY <3>1, <3>2
    <3>4. \A a \in Direccion : C[a] \in Byte
      BY <1>1, <3>2, <3>3
    <3>. QED
      BY <3>1, <3>3, <3>4
  <2>7. /\ otro.huecos = N /\ otro.segmento = T /\ otro.bytes = C
        /\ otro = [huecos |-> N, segmento |-> T, bytes |-> C]
    BY <1>2, <1>4
  <2>8. otro \in Espacio(V)
    <3>1. N \in Seq(Hueco)
      BY <2>5 DEF Particion, HuecosBien
    <3> HIDE DEF N, T, C
    <3>. QED
      BY <2>4, <2>6, <2>7, <3>1 DEF Espacio
  <2>9. ASSUME NEW e \in V, NEW i \in 0..(S[e].tam_segmento - 1)
        PROVE  C[T[e].inicio + i] = B[S[e].inicio + i]
    <3>1. /\ S[e] \in Segmento /\ S[e].inicio \in Nat /\ S[e].tam_segmento \in Nat
          /\ S[e].inicio + S[e].tam_segmento <= TAM_MEMORIA
      <4>1. S[e] \in Segmento /\ S[e].inicio + S[e].tam_segmento <= TAM_MEMORIA
        BY <1>1 DEF SegmentosBien
      <4>. QED
        BY <4>1, NumerosDeSegmento
    <3>2. TAM_MEMORIA \in Nat /\ i \in Nat /\ i < S[e].tam_segmento
      BY <3>1, MemoriaAssumption
    <3>3. CASE e = d
      <4>1. T[e].inicio = base /\ S[e].inicio = base + tam /\ i < lon
        BY <2>3, <2>4, <3>2, <3>3
      <4>2. /\ base + i \in Direccion /\ base <= base + i /\ base + i < base + lon
            /\ base + i - base + S[d].inicio = S[e].inicio + i
        <5>1. /\ S[e].inicio = S[d].inicio /\ S[d].inicio \in Nat
              /\ S[d].inicio + lon <= TAM_MEMORIA
          BY <2>2, <3>3
        <5>2. base \in Nat /\ tam \in Nat /\ lon \in Nat /\ base + tam = S[d].inicio
          BY <2>2, <2>3
        <5> HIDE DEF base, lon, tam, S
        <5>3. base + i \in Nat /\ base + i < TAM_MEMORIA
          BY <3>2, <4>1, <5>1, <5>2
        <5>4. /\ base <= base + i /\ base + i < base + lon
              /\ base + i - base + S[d].inicio = S[e].inicio + i
          BY <3>2, <4>1, <5>1, <5>2
        <5>. QED
          BY <3>2, <5>3, <5>4 DEF Direccion
      <4> HIDE DEF base, lon, tam, S, T, C, B
      <4>3. PICK a \in Direccion : a = base + i
        BY <4>2
      <4>4. /\ base <= a /\ a < base + lon
            /\ a - base + S[d].inicio = S[e].inicio + i
        BY <2>2, <2>3, <3>1, <3>2, <4>2, <4>3
      <4>5. C[a] = B[S[e].inicio + i]
        BY <2>6, <4>4
      <4>. QED
        BY <4>1, <4>3, <4>5
    <3>4. CASE e # d
      <4>1. T[e] = S[e] /\ Aparte(T[d], S[e])
        BY <2>4, <2>5, <3>4
      <4>2. base + lon <= S[e].inicio \/ S[e].inicio + S[e].tam_segmento <= base
        BY <2>4, <4>1 DEF Aparte
      <4>3. /\ S[e].inicio + i \in Direccion
            /\ ~(base <= S[e].inicio + i /\ S[e].inicio + i < base + lon)
        <5> HIDE DEF base, lon, S
        <5>. QED
          BY <2>2, <2>3, <3>1, <3>2, <4>2 DEF Direccion
      <4> HIDE DEF base, lon, S, T, C, B
      <4>. QED
        BY <2>6, <4>1, <4>3
    <3>. QED
      BY <3>3, <3>4
  <2>10. \A e \in V : /\ T[e].segmento_id = S[e].segmento_id
                      /\ T[e].tam_segmento = S[e].tam_segmento
    BY <2>4
  <2>11. MismosDatos(esp, otro, V)
    BY <2>7, <2>9, <2>10 DEF MismosDatos
  <2>. QED
    BY <2>5, <2>7, <2>8, <2>11
<1>. QED
  BY <1>3, <1>4

-----------------------------------------------------------------------------
(* The compaction and the freeing of a table, which walk a list *)

\* What FoldLeft(Deslizar, ...) keeps: the compaction.
THEOREM Compacta ==
    ASSUME NEW V, NEW esp \in Espacio(V), Particion(esp.huecos, esp.segmento, V),
           NEW seq \in Seq(V)
    PROVE  LET final == FoldLeft(Deslizar, esp, seq)
           IN  /\ final \in Espacio(V)
               /\ Particion(final.huecos, final.segmento, V)
               /\ MismosDatos(esp, final, V)
<1> DEFINE n == Len(seq)
           X == {otro \in Espacio(V) : /\ Particion(otro.huecos, otro.segmento, V)
                                       /\ MismosDatos(esp, otro, V)}
           F == [y \in X \X (1..n) |-> Deslizar(y[1], seq[y[2]])]
           P == [s \in SUBSET (1..n) |-> X]
<1>1. n \in Nat /\ DOMAIN seq = 1..n /\ \A m \in 1..n : seq[m] \in V
  BY LenProperties, ElementOfSeq
<1>2. esp \in X
  BY DEF MismosDatos
<1>3. ASSUME NEW otro \in X, NEW d \in V
      PROVE  Deslizar(otro, d) \in X
  <2> DEFINE q == Deslizar(otro, d)
  <2>1. otro \in Espacio(V) /\ Particion(otro.huecos, otro.segmento, V) /\ MismosDatos(esp, otro, V)
    OBVIOUS
  <2>2. q \in Espacio(V) /\ Particion(q.huecos, q.segmento, V) /\ MismosDatos(otro, q, V)
    BY <2>1, DeslizaSegmento
  <2> HIDE DEF q
  <2>3. MismosDatos(esp, q, V)
    <3>1. \A e \in V : /\ q.segmento[e].segmento_id = esp.segmento[e].segmento_id
                       /\ q.segmento[e].tam_segmento = esp.segmento[e].tam_segmento
                       /\ otro.segmento[e].tam_segmento = esp.segmento[e].tam_segmento
      BY <2>1, <2>2 DEF MismosDatos
    <3>2. ASSUME NEW e \in V, NEW k \in 0..(esp.segmento[e].tam_segmento - 1)
          PROVE  q.bytes[q.segmento[e].inicio + k] = esp.bytes[esp.segmento[e].inicio + k]
      <4>1. otro.bytes[otro.segmento[e].inicio + k] = esp.bytes[esp.segmento[e].inicio + k]
        BY <2>1 DEF MismosDatos
      <4>2. k \in 0..(otro.segmento[e].tam_segmento - 1)
        BY <3>1
      <4>3. q.bytes[q.segmento[e].inicio + k] = otro.bytes[otro.segmento[e].inicio + k]
        BY <2>2, <4>2 DEF MismosDatos
      <4>. QED
        BY <4>1, <4>3
    <3>. QED
      BY <3>1, <3>2 DEF MismosDatos
  <2>. QED
    BY <2>2, <2>3 DEF q
<1> HIDE DEF X, n
<1>4. \A otro \in X, m \in 1..n : F[<<otro, m>>] = Deslizar(otro, seq[m])
  OBVIOUS
<1>5. \A s \in SUBSET (1..n) : P[s] = X
  OBVIOUS
<1> HIDE DEF F, P
<1>6. PICK g : EsPliegue(g, n, esp, F, P)
  <2>1. esp \in P[{}]
    BY <1>2, <1>5
  <2>2. ASSUME NEW m \in 1..n, NEW s \in SUBSET (1..(m - 1)), NEW x \in P[s]
        PROVE  F[<<x, m>>] \in P[s \cup {m}]
    <3>1. s \in SUBSET (1..n) /\ s \cup {m} \in SUBSET (1..n)
      BY <1>1
    <3>2. x \in X /\ P[s \cup {m}] = X
      BY <1>5, <3>1
    <3>. QED
      BY <1>1, <1>3, <1>4, <3>2
  <2>3. \A m \in 1..n : \A s \in SUBSET (1..(m - 1)) : \A x \in P[s] :
           F[<<x, m>>] \in P[s \cup {m}]
    BY <2>2
  <2>. QED
    BY <1>1, <2>1, <2>3, Pliegue
<1>7. ASSUME NEW s \in SUBSET (1..n), s # {}
      PROVE  F[<<g[s \ {Max(s)}], Max(s)>>] = Deslizar(g[s \ {Max(s)}], seq[Max(s)])
  <2>1. g[s \ {Max(s)}] \in X
    <3>1. s \ {Max(s)} \in SUBSET (1..n)
      OBVIOUS
    <3>. QED
      BY <1>5, <1>6, <3>1 DEF EsPliegue
  <2>2. Max(s) \in 1..n
    BY <1>1, <1>7, MaximoEnPosiciones
  <2>. QED
    BY <1>4, <2>1, <2>2
<1> DEFINE G(f) == f = [s \in SUBSET (1..n) |->
                          IF s = {} THEN esp ELSE Deslizar(f[s \ {Max(s)}], seq[Max(s)])]
<1>8. G(g)
  <2>1. g = [s \in SUBSET (1..n) |-> g[s]]
    BY <1>6 DEF EsPliegue
  <2>2. ASSUME NEW s \in SUBSET (1..n)
        PROVE  g[s] = IF s = {} THEN esp ELSE Deslizar(g[s \ {Max(s)}], seq[Max(s)])
    BY <1>6, <1>7 DEF EsPliegue
  <2>. QED
    BY <2>1, <2>2
<1>9. FoldLeft(Deslizar, esp, seq) = (CHOOSE f : G(f))[1..n]
  <2>1. FoldLeft(Deslizar, esp, seq) =
           (CHOOSE f : f = [s \in SUBSET DOMAIN seq |->
                             IF s = {} THEN esp
                             ELSE Deslizar(f[s \ {Max(s)}], seq[Max(s)])])[DOMAIN seq]
    BY DEF FoldLeft, MapThenFoldSet
  <2>. QED
    BY <1>1, <2>1
<1> HIDE DEF G
<1>10. PICK f : G(f) /\ FoldLeft(Deslizar, esp, seq) = f[1..n]
  BY <1>8, <1>9
<1>11. ASSUME NEW s \in SUBSET (1..n)
       PROVE  /\ s = {} => f[s] = esp
              /\ s # {} => f[s] = Deslizar(f[s \ {Max(s)}], seq[Max(s)])
  BY <1>10 DEF G
<1>12. f[1..n] \in P[1..n]
  <2>1. f[{}] \in P[{}]
    <3>1. {} \in SUBSET (1..n)
      OBVIOUS
    <3>. QED
      <4>1. P[{}] = X /\ f[{}] = esp
        BY <1>5, <1>11, <3>1, Zenon
      <4>. QED
        BY <1>2, <4>1
  <2>2. ASSUME NEW s \in SUBSET (1..n), s # {}, f[s \ {Max(s)}] \in P[s \ {Max(s)}]
        PROVE  f[s] \in P[s]
    <3>1. Max(s) \in 1..n
      BY <1>1, <2>2, MaximoEnPosiciones
    <3>2. f[s \ {Max(s)}] \in X
      <4>1. s \ {Max(s)} \in SUBSET (1..n)
        OBVIOUS
      <4>. QED
        BY <1>5, <2>2, <4>1
    <3>. QED
      BY <1>1, <1>3, <1>5, <1>11, <2>2, <3>1, <3>2
  <2>. QED
    BY <1>1, <2>1, <2>2, PliegueDentro
<1>13. FoldLeft(Deslizar, esp, seq) \in X
  BY <1>5, <1>10, <1>12
<1>. QED
  BY <1>13 DEF X

\* What liberar_huecos_ocupados leaves: only the segment 0 of the table keeps its space.
THEOREM LiberaTabla ==
    ASSUME NEW V, Particion(huecos_libres, segmento, V), NEW tabla \in Seq(V),
           \A i, j \in 1..Len(tabla) : tabla[i] = tabla[j] => i = j,
           \A i \in 1..Len(tabla) : segmento[tabla[i]].segmento_id = 0 <=> i = 1
    PROVE  Particion(HuecosLiberados(tabla), segmento,
                     V \ {tabla[i] : i \in (1..Len(tabla)) \ {1}})
<1> DEFINE n == Len(tabla)
           Op(H, d) == IF segmento[d].segmento_id = 0 THEN H
                       ELSE ConsolidarHuecos(H, segmento[d].inicio, segmento[d].tam_segmento)
           X == Seq(Hueco)
           Resto(s) == V \ {tabla[i] : i \in s \ {1}}
           F == [y \in X \X (1..n) |-> Op(y[1], tabla[y[2]])]
           P == [s \in SUBSET (1..n) |-> {H \in X : Particion(H, segmento, Resto(s))}]
<1>1. n \in Nat /\ DOMAIN tabla = 1..n /\ \A m \in 1..n : tabla[m] \in V
  BY LenProperties, ElementOfSeq
<1>2. \A s \in SUBSET (1..n) : \A H : H \in P[s] <=> H \in X /\ Particion(H, segmento, Resto(s))
  OBVIOUS
<1>3. huecos_libres \in P[{}]
  <2>1. Resto({}) = V /\ huecos_libres \in X /\ {} \in SUBSET (1..n)
    BY DEF Particion, HuecosBien
  <2> HIDE DEF P, Resto
  <2>. QED
    BY <1>2, <2>1
<1> HIDE DEF P
<1>4. ASSUME NEW s \in SUBSET (1..n), NEW m \in 1..n, m \notin s, NEW H \in P[s]
      PROVE  Op(H, tabla[m]) \in P[s \cup {m}]
  <2>1. /\ H \in X /\ Particion(H, segmento, Resto(s)) /\ s \cup {m} \in SUBSET (1..n)
        /\ segmento[tabla[m]].segmento_id = 0 <=> m = 1
    BY <1>2
  <2>2. CASE m = 1
    <3>1. Resto(s \cup {m}) = Resto(s) /\ Op(H, tabla[m]) = H
      BY <2>1, <2>2
    <3> HIDE DEF Resto, Op, X
    <3>. QED
      BY <1>2, <2>1, <3>1
  <2>3. CASE m # 1
    <3> DEFINE d == tabla[m]
               N == ConsolidarHuecos(H, segmento[d].inicio, segmento[d].tam_segmento)
    <3>1. d \in Resto(s) /\ Resto(s \cup {m}) = Resto(s) \ {d} /\ Op(H, tabla[m]) = N
      <4>1. d \in V /\ \A i \in s : tabla[i] # d
        BY <1>1, <1>4
      <4>2. d \in Resto(s)
        BY <4>1
      <4>3. Resto(s \cup {m}) = Resto(s) \ {d}
        BY <2>3
      <4>4. Op(H, tabla[m]) = N
        BY <2>1, <2>3
      <4>. QED
        BY <4>2, <4>3, <4>4
    <3>2. Particion(N, segmento, Resto(s) \ {d})
      <4> HIDE DEF Resto, d
      <4>. QED
        BY <2>1, <3>1, LiberaSegmento
    <3>3. N \in X
      BY <3>2 DEF Particion, HuecosBien
    <3> HIDE DEF N, Resto, Op, X
    <3>. QED
      BY <1>2, <2>1, <3>1, <3>2, <3>3
  <2>. QED
    BY <2>2, <2>3
<1>5. \A H \in X, m \in 1..n : F[<<H, m>>] = Op(H, tabla[m])
  OBVIOUS
<1> HIDE DEF F, Op, Resto, X
<1>6. \A s \in SUBSET (1..n) : P[s] \subseteq X
  BY <1>2
<1>7. PICK g : EsPliegue(g, n, huecos_libres, F, P)
  <2>1. ASSUME NEW m \in 1..n, NEW s \in SUBSET (1..(m - 1)), NEW H \in P[s]
        PROVE  F[<<H, m>>] \in P[s \cup {m}]
    <3>1. s \in SUBSET (1..n) /\ m \notin s
      BY <1>1
    <3>2. Op(H, tabla[m]) \in P[s \cup {m}] /\ H \in X
      BY <1>4, <1>6, <3>1
    <3>. QED
      BY <1>5, <3>2
  <2>2. \A m \in 1..n : \A s \in SUBSET (1..(m - 1)) : \A H \in P[s] :
           F[<<H, m>>] \in P[s \cup {m}]
    BY <2>1
  <2> HIDE DEF n
  <2>. QED
    BY <1>1, <1>3, <2>2, Pliegue
<1>8. ASSUME NEW s \in SUBSET (1..n), s # {}
      PROVE  /\ Max(s) \in 1..n /\ s \ {Max(s)} \in SUBSET (1..n)
             /\ Max(s) \notin s \ {Max(s)} /\ (s \ {Max(s)}) \cup {Max(s)} = s
  <2>1. Max(s) \in s
    BY <1>1, <1>8, MaximoEnPosiciones
  <2>. QED
    BY <2>1
<1> DEFINE G(f) == f = [s \in SUBSET (1..n) |->
                          IF s = {} THEN huecos_libres ELSE Op(f[s \ {Max(s)}], tabla[Max(s)])]
<1>9. G(g)
  <2>1. g = [s \in SUBSET (1..n) |-> g[s]]
    BY <1>7 DEF EsPliegue
  <2>2. ASSUME NEW s \in SUBSET (1..n)
        PROVE  g[s] = IF s = {} THEN huecos_libres ELSE Op(g[s \ {Max(s)}], tabla[Max(s)])
    <3>1. CASE s = {}
      BY <1>7, <3>1 DEF EsPliegue
    <3>2. CASE s # {}
      <4>1. g[s] = F[<<g[s \ {Max(s)}], Max(s)>>] /\ g[s \ {Max(s)}] \in X /\ Max(s) \in 1..n
        BY <1>6, <1>7, <1>8, <3>2 DEF EsPliegue
      <4>. QED
        BY <1>5, <3>2, <4>1
    <3>. QED
      BY <3>1, <3>2
  <2>. QED
    BY <2>1, <2>2
<1>10. HuecosLiberados(tabla) = (CHOOSE f : G(f))[1..n]
  <2>1. HuecosLiberados(tabla) =
           (CHOOSE f : f = [s \in SUBSET DOMAIN tabla |->
                             IF s = {} THEN huecos_libres
                             ELSE Op(f[s \ {Max(s)}], tabla[Max(s)])])[DOMAIN tabla]
    BY DEF HuecosLiberados, FoldLeft, MapThenFoldSet, Op
  <2>. QED
    BY <1>1, <2>1
<1> HIDE DEF G
<1>11. PICK f : G(f) /\ HuecosLiberados(tabla) = f[1..n]
  BY <1>9, <1>10
<1>12. ASSUME NEW s \in SUBSET (1..n)
       PROVE  /\ s = {} => f[s] = huecos_libres
              /\ s # {} => f[s] = Op(f[s \ {Max(s)}], tabla[Max(s)])
  BY <1>11 DEF G
<1>13. f[1..n] \in P[1..n]
  <2>1. f[{}] \in P[{}]
    <3>1. {} \in SUBSET (1..n)
      OBVIOUS
    <3>2. f[{}] = huecos_libres
      BY <1>12, <3>1, Zenon
    <3>. QED
      BY <1>3, <3>2
  <2>2. ASSUME NEW s \in SUBSET (1..n), s # {} /\ f[s \ {Max(s)}] \in P[s \ {Max(s)}]
        PROVE  f[s] \in P[s]
    <3>1. Op(f[s \ {Max(s)}], tabla[Max(s)]) \in P[(s \ {Max(s)}) \cup {Max(s)}]
      BY <1>4, <1>8, <2>2
    <3>. QED
      BY <1>8, <1>12, <2>2, <3>1
  <2> HIDE DEF n
  <2>. QED
    BY <1>1, <2>1, <2>2, PliegueDentro
<1>. QED
  BY <1>2, <1>11, <1>13 DEF Resto

-----------------------------------------------------------------------------
(* The list of live segments *)

\* A list without repetitions, that starts with c and has the elements of A.
Lista(r, D, c, A) ==
    /\ r \in Seq(D) /\ Len(r) > 0 /\ r[1] = c
    /\ \A i, j \in 1..Len(r) : r[i] = r[j] => i = j
    /\ A = {r[i] : i \in 1..Len(r)}

\* list_remove_element takes out one.
LEMMA SacaPrimero ==
    ASSUME NEW D, NEW r, NEW c, NEW A, Lista(r, D, c, A), NEW d, d # c
    PROVE  Lista(RemoveFirst(r, d), D, c, A \ {d})
<1> DEFINE n == Len(r)
           k == SelectInSeq(r, LAMBDA v : v = d)
           I == {i \in 1..n : r[i] = d}
           q == RemoveFirst(r, d)
<1>1. r \in Seq(D) /\ n \in Nat /\ n > 0 /\ r[1] = c
  BY LenProperties DEF Lista
<1>2. /\ \A i, j \in 1..n : r[i] = r[j] => i = j
      /\ \A x : x \in A <=> \E i \in 1..n : r[i] = x
  BY DEF Lista
<1>3. q = IF \E i \in 1..n : r[i] = d THEN RemoveAt(r, k) ELSE r
  BY DEF RemoveFirst
<1>4. k = IF I # {} THEN Min(I) ELSE 0
  BY DEF SelectInSeq
<1>5. I \in SUBSET (1..n)
  OBVIOUS
<1> HIDE DEF k, q, n
<1>6. CASE I = {}
  <2>1. q = r /\ A \ {d} = A
    BY <1>2, <1>3, <1>6
  <2>. QED
    BY <2>1 DEF q
<1>7. CASE I # {}
  <2>1. k \in I
    <3> HIDE DEF I
    <3>. QED
      BY <1>1, <1>4, <1>5, <1>7, PrimeroDe
  <2>2. k \in 1..n /\ r[k] = d /\ k # 1
    BY <1>1, <2>1
  <2>3. q = RemoveAt(r, k)
    BY <1>3, <2>2
  <2>4. /\ q \in Seq(D) /\ Len(q) = n - 1
        /\ \A i \in 1..(n - 1) : q[i] = IF i < k THEN r[i] ELSE r[i + 1]
    BY <1>1, <2>2, <2>3, RemoveAtProperties DEF n
  <2>5. n > 1 /\ k > 1 /\ 1 \in 1..(n - 1)
    BY <1>1, <2>2
  <2>6. Len(q) > 0 /\ q[1] = c
    BY <1>1, <2>4, <2>5
  <2>7. ASSUME NEW i \in 1..(n - 1), NEW j \in 1..(n - 1), q[i] = q[j]
        PROVE  i = j
    <3> DEFINE ii == IF i < k THEN i ELSE i + 1
               jj == IF j < k THEN j ELSE j + 1
    <3>1. ii \in 1..n /\ jj \in 1..n /\ (ii = jj => i = j)
      BY <1>1, <2>2
    <3>2. q[i] = r[ii] /\ q[j] = r[jj]
      BY <2>4
    <3> HIDE DEF ii, jj
    <3>. QED
      BY <1>2, <2>7, <3>1, <3>2
  <2>8. ASSUME NEW x
        PROVE  x \in A \ {d} <=> \E i \in 1..(n - 1) : q[i] = x
    <3>1. ASSUME NEW i \in 1..n, i # k
          PROVE  \E ii \in 1..(n - 1) : q[ii] = r[i]
      <4> DEFINE ii == IF i < k THEN i ELSE i - 1
      <4>1. ii \in 1..(n - 1) /\ (ii < k => ii = i) /\ (~(ii < k) => ii + 1 = i)
        BY <1>1, <2>2, <3>1
      <4> HIDE DEF ii
      <4>. QED
        BY <2>4, <4>1
    <3>2. ASSUME NEW i \in 1..(n - 1)
          PROVE  \E ii \in 1..n : ii # k /\ r[ii] = q[i]
      <4> DEFINE ii == IF i < k THEN i ELSE i + 1
      <4>1. ii \in 1..n /\ ii # k
        BY <1>1, <2>2
      <4>2. q[i] = r[ii]
        BY <2>4
      <4> HIDE DEF ii
      <4>. QED
        BY <4>1, <4>2
    <3>3. x \in A /\ x # d <=> \E i \in 1..n : i # k /\ r[i] = x
      BY <1>2, <2>2
    <3>. QED
      BY <3>1, <3>2, <3>3
  <2>9. A \ {d} = {q[i] : i \in 1..(n - 1)}
    BY <2>8
  <2>10. Lista(q, D, c, A \ {d})
    BY <2>4, <2>6, <2>7, <2>9 DEF Lista
  <2>. QED
    BY <2>10 DEF q
<1>. QED
  BY <1>6, <1>7

\* And the destruction of a table, as many as it has.
LEMMA OlvidaLista ==
    ASSUME NEW D, NEW r, NEW c, NEW A, Lista(r, D, c, A),
           NEW ds \in Seq(D), \A i \in 1..Len(ds) : ds[i] # c
    PROVE  Lista(FoldLeft(RemoveFirst, r, ds), D, c, A \ {ds[i] : i \in 1..Len(ds)})
<1> DEFINE n == Len(ds)
           Resto(s) == A \ {ds[i] : i \in s}
           F == [y \in Seq(D) \X (1..n) |-> RemoveFirst(y[1], ds[y[2]])]
           P == [s \in SUBSET (1..n) |-> {q \in Seq(D) : Lista(q, D, c, Resto(s))}]
<1>1. n \in Nat /\ DOMAIN ds = 1..n
  BY LenProperties
<1>2. \A s \in SUBSET (1..n) : \A q : q \in P[s] <=> q \in Seq(D) /\ Lista(q, D, c, Resto(s))
  OBVIOUS
<1>3. r \in P[{}]
  <2>1. Resto({}) = A /\ r \in Seq(D) /\ {} \in SUBSET (1..n)
    BY DEF Lista
  <2> HIDE DEF P, Resto
  <2>. QED
    BY <1>2, <2>1
<1> HIDE DEF P
<1>4. ASSUME NEW s \in SUBSET (1..n), NEW m \in 1..n, NEW q \in P[s]
      PROVE  RemoveFirst(q, ds[m]) \in P[s \cup {m}]
  <2> DEFINE d == ds[m]
  <2>1. /\ q \in Seq(D) /\ Lista(q, D, c, Resto(s)) /\ s \cup {m} \in SUBSET (1..n)
        /\ d # c
    BY <1>2
  <2>2. Resto(s \cup {m}) = Resto(s) \ {d}
    OBVIOUS
  <2> HIDE DEF d, Resto
  <2>3. Lista(RemoveFirst(q, d), D, c, Resto(s) \ {d})
    BY <2>1, SacaPrimero
  <2>4. RemoveFirst(q, d) \in Seq(D)
    BY <2>3 DEF Lista
  <2>. QED
    BY <1>2, <2>1, <2>2, <2>3, <2>4 DEF d
<1>5. \A q \in Seq(D), m \in 1..n : F[<<q, m>>] = RemoveFirst(q, ds[m])
  OBVIOUS
<1> HIDE DEF F, Resto
<1>6. \A s \in SUBSET (1..n) : P[s] \subseteq Seq(D)
  BY <1>2
<1>7. PICK g : EsPliegue(g, n, r, F, P)
  <2>1. ASSUME NEW m \in 1..n, NEW s \in SUBSET (1..(m - 1)), NEW q \in P[s]
        PROVE  F[<<q, m>>] \in P[s \cup {m}]
    <3>1. s \in SUBSET (1..n)
      BY <1>1
    <3>2. RemoveFirst(q, ds[m]) \in P[s \cup {m}] /\ q \in Seq(D)
      BY <1>4, <1>6, <3>1
    <3>. QED
      BY <1>5, <3>2
  <2>2. \A m \in 1..n : \A s \in SUBSET (1..(m - 1)) : \A q \in P[s] :
           F[<<q, m>>] \in P[s \cup {m}]
    BY <2>1
  <2> HIDE DEF n
  <2>. QED
    BY <1>1, <1>3, <2>2, Pliegue
<1>8. ASSUME NEW s \in SUBSET (1..n), s # {}
      PROVE  /\ Max(s) \in 1..n /\ s \ {Max(s)} \in SUBSET (1..n)
             /\ (s \ {Max(s)}) \cup {Max(s)} = s
  <2>1. Max(s) \in s
    BY <1>1, <1>8, MaximoEnPosiciones
  <2>. QED
    BY <2>1
<1> DEFINE G(f) == f = [s \in SUBSET (1..n) |->
                          IF s = {} THEN r ELSE RemoveFirst(f[s \ {Max(s)}], ds[Max(s)])]
<1>9. G(g)
  <2>1. g = [s \in SUBSET (1..n) |-> g[s]]
    BY <1>7 DEF EsPliegue
  <2>2. ASSUME NEW s \in SUBSET (1..n)
        PROVE  g[s] = IF s = {} THEN r ELSE RemoveFirst(g[s \ {Max(s)}], ds[Max(s)])
    <3>1. CASE s = {}
      BY <1>7, <3>1 DEF EsPliegue
    <3>2. CASE s # {}
      <4>1. /\ g[s] = F[<<g[s \ {Max(s)}], Max(s)>>] /\ g[s \ {Max(s)}] \in Seq(D)
            /\ Max(s) \in 1..n
        BY <1>6, <1>7, <1>8, <3>2 DEF EsPliegue
      <4>. QED
        BY <1>5, <3>2, <4>1
    <3>. QED
      BY <3>1, <3>2
  <2>. QED
    BY <2>1, <2>2
<1>10. FoldLeft(RemoveFirst, r, ds) = (CHOOSE f : G(f))[1..n]
  <2>1. FoldLeft(RemoveFirst, r, ds) =
           (CHOOSE f : f = [s \in SUBSET DOMAIN ds |->
                             IF s = {} THEN r
                             ELSE RemoveFirst(f[s \ {Max(s)}], ds[Max(s)])])[DOMAIN ds]
    BY DEF FoldLeft, MapThenFoldSet
  <2>. QED
    BY <1>1, <2>1
<1> HIDE DEF G
<1>11. PICK f : G(f) /\ FoldLeft(RemoveFirst, r, ds) = f[1..n]
  BY <1>9, <1>10
<1>12. ASSUME NEW s \in SUBSET (1..n)
       PROVE  /\ s = {} => f[s] = r
              /\ s # {} => f[s] = RemoveFirst(f[s \ {Max(s)}], ds[Max(s)])
  BY <1>11 DEF G
<1>13. f[1..n] \in P[1..n]
  <2>1. f[{}] \in P[{}]
    <3>1. {} \in SUBSET (1..n)
      OBVIOUS
    <3>2. f[{}] = r
      BY <1>12, <3>1, Zenon
    <3>. QED
      BY <1>3, <3>2
  <2>2. ASSUME NEW s \in SUBSET (1..n), s # {} /\ f[s \ {Max(s)}] \in P[s \ {Max(s)}]
        PROVE  f[s] \in P[s]
    <3>1. RemoveFirst(f[s \ {Max(s)}], ds[Max(s)]) \in P[(s \ {Max(s)}) \cup {Max(s)}]
      BY <1>4, <1>8, <2>2
    <3>. QED
      BY <1>8, <1>12, <2>2, <3>1
  <2> HIDE DEF n
  <2>. QED
    BY <1>1, <2>1, <2>2, PliegueDentro
<1>. QED
  BY <1>2, <1>11, <1>13 DEF Resto

-----------------------------------------------------------------------------
(* The hole that the algorithm takes *)

\* There is always one, among those that are large enough.
LEMMA HayMejor ==
    ASSUME NEW tam, HuecosBien(huecos_libres), Candidatos(tam) # {}
    PROVE  /\ BuscarHueco(tam) \in Candidatos(tam)
           /\ \A j \in Candidatos(tam) : EsMejor(BuscarHueco(tam), j)
<1> DEFINE C == Candidatos(tam)
           n == Len(huecos_libres)
           Z(i) == TamanioHueco(huecos_libres[i])
           Zs == {Z(i) : i \in C}
<1>1. n \in Nat /\ C \subseteq 1..n /\ C \subseteq Nat /\ C # {}
  <2>1. huecos_libres \in Seq(Hueco)
    BY DEF HuecosBien
  <2>2. n \in Nat /\ DOMAIN huecos_libres = 1..n
    BY <2>1, NumerosDeHuecos
  <2>3. C \subseteq 1..n
    BY <2>2 DEF Candidatos
  <2>. QED
    BY <2>2, <2>3
<1>2. \A i \in C : Z(i) \in Nat /\ Z(i) <= TAM_MEMORIA
  <2>1. huecos_libres \in Seq(Hueco)
    BY DEF HuecosBien
  <2>2. ASSUME NEW i \in C
        PROVE  Z(i) \in Nat /\ Z(i) <= TAM_MEMORIA
    <3> DEFINE h == huecos_libres[i]
    <3>1. /\ h.inicio \in Nat /\ h.fin \in Nat /\ h.inicio <= h.fin /\ h.fin < TAM_MEMORIA
          /\ Z(i) = h.fin - h.inicio + 1
      BY <1>1, <2>1, NumerosDeHuecos DEF HuecosBien, TamanioHueco
    <3>2. TAM_MEMORIA \in Nat
      BY MemoriaAssumption
    <3> HIDE DEF h, Z
    <3>. QED
      BY <3>1, <3>2
  <2>. QED
    BY <2>2
<1>3. \A i, j \in C : EsMejor(i, j) <=>
         CASE algoritmo_asignacion = "BEST"  -> Z(i) < Z(j) \/ (Z(i) = Z(j) /\ i >= j)
           [] algoritmo_asignacion = "FIRST" -> i <= j
           [] OTHER                          -> Z(i) > Z(j) \/ (Z(i) = Z(j) /\ i >= j)
  BY DEF EsMejor
<1>4. BuscarHueco(tam) = CHOOSE i \in C : \A j \in C : EsMejor(i, j)
  BY DEF BuscarHueco
<1> HIDE DEF C, n, Z
<1>5. Zs \subseteq Nat /\ Zs # {} /\ \A z \in Zs : z <= TAM_MEMORIA
  BY <1>1, <1>2
\* The later of the holes of a size.
<1>6. ASSUME NEW z \in Zs
      PROVE  \E i \in C : Z(i) = z /\ \A j \in C : Z(j) = z => i >= j
  <2> DEFINE K == {i \in C : Z(i) = z}
  <2>1. K \subseteq Nat /\ K # {} /\ \A j \in K : j <= n
    BY <1>1
  <2>2. Max(K) \in K /\ \A j \in K : j <= Max(K)
    <3> HIDE DEF K
    <3>. QED
      BY <1>1, <2>1, MaximoDe
  <2>3. PICK i \in K : \A j \in K : j <= i
    BY <2>2
  <2>. QED
    BY <1>1, <2>3
<1>7. \E i \in C : \A j \in C : EsMejor(i, j)
  <2>1. CASE algoritmo_asignacion = "FIRST"
    <3>1. PICK i \in C : \A j \in C : i <= j
      BY <1>1, BuenOrden
    <3>. QED
      BY <1>3, <2>1, <3>1
  <2>2. CASE algoritmo_asignacion = "BEST"
    <3> HIDE DEF Zs
    <3>1. PICK z \in Zs : \A y \in Zs : z <= y
      BY <1>5, BuenOrden
    <3>2. PICK i \in C : Z(i) = z /\ \A j \in C : Z(j) = z => i >= j
      BY <1>6
    <3>3. ASSUME NEW j \in C
          PROVE  Z(i) < Z(j) \/ (Z(i) = Z(j) /\ i >= j)
      <4>1. Z(j) \in Zs
        BY DEF Zs
      <4>2. Z(i) <= Z(j) /\ Z(i) \in Nat /\ Z(j) \in Nat
        BY <1>2, <3>1, <3>2, <4>1
      <4>. QED
        BY <3>2, <4>2
    <3>. QED
      BY <1>3, <2>2, <3>3
  <2>3. CASE algoritmo_asignacion # "FIRST" /\ algoritmo_asignacion # "BEST"
    <3> HIDE DEF Zs
    <3>1. PICK z \in Zs : \A y \in Zs : y <= z
      <4>1. TAM_MEMORIA \in Nat
        BY MemoriaAssumption
      <4>. QED
        BY <1>5, <4>1, MaximoDe
    <3>2. PICK i \in C : Z(i) = z /\ \A j \in C : Z(j) = z => i >= j
      BY <1>6
    <3>3. ASSUME NEW j \in C
          PROVE  Z(i) > Z(j) \/ (Z(i) = Z(j) /\ i >= j)
      <4>1. Z(j) \in Zs
        BY DEF Zs
      <4>2. Z(j) <= Z(i) /\ Z(i) \in Nat /\ Z(j) \in Nat
        BY <1>2, <3>1, <3>2, <4>1
      <4>. QED
        BY <3>2, <4>2
    <3>. QED
      BY <1>3, <2>3, <3>3
  <2>. QED
    BY <2>1, <2>2, <2>3
<1>8. BuscarHueco(tam) \in C /\ \A j \in C : EsMejor(BuscarHueco(tam), j)
  BY <1>4, <1>7
<1>. QED
  BY <1>8 DEF C

-----------------------------------------------------------------------------
(* The tables *)

\* A table: segment 0 first, the others of V and once each.
TablaBien(tabla, V) ==
    /\ tabla \in Seq(Descriptor) /\ Len(tabla) > 0 /\ tabla[1] = Compartido
    /\ \A i, j \in 1..Len(tabla) : tabla[i] = tabla[j] => i = j
    /\ \A i \in 1..Len(tabla) : tabla[i] \in V

EnTabla(d, tabla) == \E i \in 1..Len(tabla) : tabla[i] = d

\* The list of live segments and the tables are about the same segments, and two tables
\* share none but segment 0.
TablasBien(activos, S, tablas) ==
    /\ Lista(activos, Descriptor, Compartido, DOMAIN S)
    /\ \A d \in DOMAIN S : S[d].segmento_id = 0 <=> d = Compartido
    /\ \A p \in DOMAIN tablas : TablaBien(tablas[p], DOMAIN S)
    /\ \A p, q \in DOMAIN tablas : \A d \in DOMAIN S :
          EnTabla(d, tablas[p]) /\ EnTabla(d, tablas[q]) => p = q \/ d = Compartido
    /\ \A d \in DOMAIN S \ {Compartido} : \E p \in DOMAIN tablas : EnTabla(d, tablas[p])

\* A table that starts with the first live segment, segment 0, fits with the others.
LEMMA AbreTabla ==
    ASSUME NEW A, NEW S, NEW T, TablasBien(A, S, T), NEW p, p \notin DOMAIN T
    PROVE  TablasBien(A, S, [q \in DOMAIN T \cup {p} |-> IF q = p THEN <<Head(A)>> ELSE T[q]])
<1> DEFINE U == [q \in DOMAIN T \cup {p} |-> IF q = p THEN <<Head(A)>> ELSE T[q]]
<1>1. Head(A) = Compartido /\ Compartido \in DOMAIN S /\ Compartido \in Descriptor
  BY MemoriaAssumption, LenProperties DEF TablasBien, Lista
<1>2. /\ DOMAIN U = DOMAIN T \cup {p} /\ U[p] = <<Compartido>>
      /\ \A q \in DOMAIN T : U[q] = T[q]
  BY <1>1
<1> HIDE DEF U
<1>3. TablaBien(U[p], DOMAIN S) /\ \A d : EnTabla(d, U[p]) => d = Compartido
  <2> DEFINE t == <<Compartido>>
  <2>1. t \in Seq(Descriptor) /\ Len(t) = 1 /\ t[1] = Compartido /\ 1..1 = {1}
    BY <1>1
  <2>2. U[p] = t
    BY <1>2
  <2> HIDE DEF t
  <2>3. Len(t) > 0 /\ \A i \in 1..Len(t) : i = 1
    BY <2>1
  <2>4. /\ \A i, j \in 1..Len(t) : t[i] = t[j] => i = j
        /\ \A i \in 1..Len(t) : t[i] = Compartido
    BY <2>1, <2>3
  <2>5. TablaBien(t, DOMAIN S)
    BY <1>1, <2>1, <2>3, <2>4 DEF TablaBien
  <2>6. \A d : EnTabla(d, t) => d = Compartido
    BY <2>4 DEF EnTabla
  <2>. QED
    BY <2>2, <2>5, <2>6
<1>4. \A q \in DOMAIN U : TablaBien(U[q], DOMAIN S)
  BY <1>2, <1>3 DEF TablasBien
<1>5. \A q, r \in DOMAIN U : \A d \in DOMAIN S :
         EnTabla(d, U[q]) /\ EnTabla(d, U[r]) => q = r \/ d = Compartido
  BY <1>2, <1>3 DEF TablasBien
<1>6. \A d \in DOMAIN S \ {Compartido} : \E q \in DOMAIN U : EnTabla(d, U[q])
  BY <1>2 DEF TablasBien
<1>7. TablasBien(A, S, U)
  BY <1>4, <1>5, <1>6 DEF TablasBien
<1>. QED
  BY <1>7 DEF U

\* A segment that nobody had joins the list of live ones and one table.
LEMMA AgregaSegmento ==
    ASSUME NEW A, NEW S, NEW T, TablasBien(A, S, T), NEW p \in DOMAIN T,
           NEW d \in Descriptor, d \notin DOMAIN S,
           NEW R, DOMAIN R = DOMAIN S \cup {d}, R[d].segmento_id # 0,
           \A e \in DOMAIN S : R[e] = S[e],
           NEW U, DOMAIN U = DOMAIN T, U[p] = Append(T[p], d),
           \A q \in DOMAIN T : q # p => U[q] = T[q]
    PROVE  TablasBien(Append(A, d), R, U)
<1> DEFINE B == Append(A, d)
<1>1. DOMAIN R = DOMAIN S \cup {d} /\ \A e \in DOMAIN S : R[e] = S[e]
  OBVIOUS
<1>2. DOMAIN U = DOMAIN T /\ U[p] = Append(T[p], d) /\ \A q \in DOMAIN T : q # p => U[q] = T[q]
  OBVIOUS
<1>3. Compartido \in DOMAIN S /\ d # Compartido
  BY LenProperties DEF TablasBien, Lista
<1>4. Lista(B, Descriptor, Compartido, DOMAIN R)
  <2>1. /\ A \in Seq(Descriptor) /\ Len(A) \in Nat /\ Len(A) > 0 /\ A[1] = Compartido
        /\ \A i, j \in 1..Len(A) : A[i] = A[j] => i = j
        /\ DOMAIN S = {A[i] : i \in 1..Len(A)}
    BY LenProperties DEF TablasBien, Lista
  <2>2. /\ B \in Seq(Descriptor) /\ Len(B) = Len(A) + 1
        /\ \A i \in 1..Len(A) : B[i] = A[i]
        /\ B[Len(A) + 1] = d
    BY <2>1, AppendProperties
  <2> HIDE DEF B
  <2>3. \A i \in 1..(Len(A) + 1) : i \in 1..Len(A) \/ i = Len(A) + 1
    BY <2>1
  <2>4. Len(B) > 0 /\ B[1] = Compartido
    BY <2>1, <2>2
  <2>5. \A i, j \in 1..(Len(A) + 1) : B[i] = B[j] => i = j
    BY <2>1, <2>2, <2>3
  <2>6. DOMAIN R = {B[i] : i \in 1..(Len(A) + 1)}
    <3>1. \A i \in 1..Len(A) : i \in 1..(Len(A) + 1)
      BY <2>1
    <3>2. Len(A) + 1 \in 1..(Len(A) + 1)
      BY <2>1
    <3>. QED
      BY <1>1, <2>1, <2>2, <2>3, <3>1, <3>2
  <2>. QED
    BY <2>2, <2>4, <2>5, <2>6 DEF Lista
<1> HIDE DEF B
<1>5. \A e \in DOMAIN R : R[e].segmento_id = 0 <=> e = Compartido
  BY <1>1, <1>3 DEF TablasBien
<1>6. /\ TablaBien(U[p], DOMAIN R)
      /\ \A e : EnTabla(e, U[p]) <=> EnTabla(e, T[p]) \/ e = d
  <2> DEFINE t == T[p]
             u == U[p]
  <2>1. TablaBien(t, DOMAIN S)
    BY DEF TablasBien
  <2>2. t \in Seq(Descriptor) /\ Len(t) \in Nat
    BY <2>1, LenProperties DEF TablaBien
  <2>3. u = Append(t, d)
    BY <1>2
  <2> HIDE DEF t, u
  <2>4. /\ u \in Seq(Descriptor) /\ Len(u) = Len(t) + 1
        /\ \A i \in 1..Len(t) : u[i] = t[i]
        /\ u[Len(t) + 1] = d
    BY <2>2, <2>3, AppendProperties
  <2>5. \A i \in 1..(Len(t) + 1) : i \in 1..Len(t) \/ i = Len(t) + 1
    BY <2>2
  <2>6. /\ \A i \in 1..Len(t) : i \in 1..(Len(t) + 1)
        /\ Len(t) + 1 \in 1..(Len(t) + 1)
    BY <2>2
  <2>7. Len(u) > 0 /\ u[1] = Compartido
    BY <2>1, <2>2, <2>4 DEF TablaBien
  <2>8. \A i, j \in 1..(Len(t) + 1) : u[i] = u[j] => i = j
    BY <2>1, <2>4, <2>5 DEF TablaBien
  <2>9. \A i \in 1..(Len(t) + 1) : u[i] \in DOMAIN R
    BY <1>1, <2>1, <2>4, <2>5 DEF TablaBien
  <2>10. \A e : EnTabla(e, u) <=> EnTabla(e, t) \/ e = d
    BY <2>4, <2>5, <2>6 DEF EnTabla
  <2>11. TablaBien(u, DOMAIN R)
    BY <2>4, <2>7, <2>8, <2>9 DEF TablaBien
  <2>. QED
    BY <2>10, <2>11 DEF t, u
<1>7. \A q \in DOMAIN U : TablaBien(U[q], DOMAIN R)
  <2>1. \A q \in DOMAIN T : TablaBien(T[q], DOMAIN S)
    BY DEF TablasBien
  <2>2. \A q \in DOMAIN T : TablaBien(T[q], DOMAIN R)
    BY <1>1, <2>1 DEF TablaBien
  <2>. QED
    BY <1>2, <1>6, <2>2
<1>8. \A q \in DOMAIN T : ~EnTabla(d, T[q])
  BY DEF TablasBien, TablaBien, EnTabla
<1>9. \A q, r \in DOMAIN U : \A e \in DOMAIN R :
         EnTabla(e, U[q]) /\ EnTabla(e, U[r]) => q = r \/ e = Compartido
  <2>1. \A q, r \in DOMAIN T : \A e \in DOMAIN S :
           EnTabla(e, T[q]) /\ EnTabla(e, T[r]) => q = r \/ e = Compartido
    BY DEF TablasBien
  <2>. QED
    BY <1>1, <1>2, <1>6, <1>8, <2>1
<1>10. \A e \in DOMAIN R \ {Compartido} : \E q \in DOMAIN U : EnTabla(e, U[q])
  <2>1. \A e \in DOMAIN S \ {Compartido} : \E q \in DOMAIN T : EnTabla(e, T[q])
    BY DEF TablasBien
  <2>. QED
    BY <1>1, <1>2, <1>6, <2>1
<1>11. TablasBien(B, R, U)
  BY <1>4, <1>5, <1>7, <1>9, <1>10 DEF TablasBien
<1>. QED
  BY <1>11 DEF B

\* What leaves the list of live segments leaves the tables.
LEMMA QuitaSegmentos ==
    ASSUME NEW A, NEW S, NEW T, TablasBien(A, S, T),
           NEW ds \in Seq(Descriptor), \A i \in 1..Len(ds) : ds[i] # Compartido,
           NEW V, V = DOMAIN S \ ToSet(ds), NEW U, DOMAIN U \subseteq DOMAIN T,
           \A q \in DOMAIN U : TablaBien(U[q], V),
           \A q \in DOMAIN U : \A e : EnTabla(e, U[q]) => EnTabla(e, T[q]),
           \A q \in DOMAIN T : \A e \in V \ {Compartido} :
              EnTabla(e, T[q]) => q \in DOMAIN U /\ EnTabla(e, U[q])
    PROVE  TablasBien(FoldLeft(RemoveFirst, A, ds), [e \in V |-> S[e]], U)
<1> DEFINE B == FoldLeft(RemoveFirst, A, ds)
           R == [e \in V |-> S[e]]
<1>1. ToSet(ds) = {ds[i] : i \in 1..Len(ds)}
  <2>1. DOMAIN ds = 1..Len(ds)
    BY LenProperties
  <2>. QED
    BY <2>1 DEF ToSet
<1>2. Lista(B, Descriptor, Compartido, V)
  <2>1. Lista(A, Descriptor, Compartido, DOMAIN S)
    BY DEF TablasBien
  <2>2. Lista(B, Descriptor, Compartido, DOMAIN S \ {ds[i] : i \in 1..Len(ds)})
    BY <2>1, OlvidaLista
  <2> HIDE DEF B
  <2>. QED
    BY <1>1, <2>2
<1>3. DOMAIN R = V /\ (\A e \in V : R[e] = S[e]) /\ V \subseteq DOMAIN S
  OBVIOUS
<1> HIDE DEF B, R
<1>4. \A e \in V : R[e].segmento_id = 0 <=> e = Compartido
  BY <1>3 DEF TablasBien
<1>5. \A q, r \in DOMAIN U : \A e \in V :
         EnTabla(e, U[q]) /\ EnTabla(e, U[r]) => q = r \/ e = Compartido
  <2>1. \A q, r \in DOMAIN T : \A e \in DOMAIN S :
           EnTabla(e, T[q]) /\ EnTabla(e, T[r]) => q = r \/ e = Compartido
    BY DEF TablasBien
  <2>. QED
    BY <1>3, <2>1
<1>6. \A e \in V \ {Compartido} : \E q \in DOMAIN U : EnTabla(e, U[q])
  <2>1. \A e \in DOMAIN S \ {Compartido} : \E q \in DOMAIN T : EnTabla(e, T[q])
    BY DEF TablasBien
  <2>. QED
    BY <1>3, <2>1
<1>7. TablasBien(B, R, U)
  BY <1>2, <1>3, <1>4, <1>5, <1>6 DEF TablasBien
<1>. QED
  BY <1>7 DEF B, R

\* A table without one of its own segments.
LEMMA SacaDeTabla ==
    ASSUME NEW V, NEW tabla, TablaBien(tabla, V), NEW k \in 1..Len(tabla), k # 1
    PROVE  /\ TablaBien(RemoveAt(tabla, k), V \ {tabla[k]})
           /\ \A e : EnTabla(e, RemoveAt(tabla, k)) <=> EnTabla(e, tabla) /\ e # tabla[k]
<1> DEFINE u == RemoveAt(tabla, k)
           d == tabla[k]
<1>1. /\ tabla \in Seq(Descriptor) /\ Len(tabla) \in Nat /\ Len(tabla) > 0
      /\ tabla[1] = Compartido
      /\ \A i, j \in 1..Len(tabla) : tabla[i] = tabla[j] => i = j
      /\ \A i \in 1..Len(tabla) : tabla[i] \in V
  BY LenProperties DEF TablaBien
<1>2. /\ u \in Seq(Descriptor) /\ Len(u) = Len(tabla) - 1
      /\ \A i \in 1..(Len(tabla) - 1) : u[i] = IF i < k THEN tabla[i] ELSE tabla[i + 1]
  BY <1>1, RemoveAtProperties
<1> HIDE DEF u
<1>3. ASSUME NEW i \in 1..(Len(tabla) - 1)
      PROVE  \E j \in 1..Len(tabla) : /\ j # k /\ u[i] = tabla[j]
                                      /\ j = IF i < k THEN i ELSE i + 1
  <2> DEFINE j == IF i < k THEN i ELSE i + 1
  <2>1. j \in 1..Len(tabla) /\ j # k
    BY <1>1
  <2>2. u[i] = tabla[j]
    BY <1>2
  <2>. QED
    BY <2>1, <2>2
<1>4. ASSUME NEW j \in 1..Len(tabla), j # k
      PROVE  \E i \in 1..(Len(tabla) - 1) : u[i] = tabla[j]
  <2> DEFINE i == IF j < k THEN j ELSE j - 1
  <2>1. i \in 1..(Len(tabla) - 1) /\ (i < k => i = j) /\ (~(i < k) => i + 1 = j)
    BY <1>1, <1>4
  <2> HIDE DEF i
  <2>2. u[i] = tabla[j]
    BY <1>2, <2>1
  <2>. QED
    BY <2>1, <2>2
<1>5. \A e : EnTabla(e, u) <=> EnTabla(e, tabla) /\ e # d
  <2>1. \A j \in 1..Len(tabla) : tabla[j] = d <=> j = k
    BY <1>1
  <2>2. ASSUME NEW e, EnTabla(e, u)
        PROVE  EnTabla(e, tabla) /\ e # d
    <3>1. PICK i \in 1..(Len(tabla) - 1) : u[i] = e
      BY <1>2, <2>2 DEF EnTabla
    <3>2. PICK j \in 1..Len(tabla) : j # k /\ u[i] = tabla[j]
      BY <1>3
    <3>. QED
      BY <2>1, <3>1, <3>2 DEF EnTabla
  <2>3. ASSUME NEW e, EnTabla(e, tabla), e # d
        PROVE  EnTabla(e, u)
    <3>1. PICK j \in 1..Len(tabla) : tabla[j] = e /\ j # k
      BY <2>1, <2>3 DEF EnTabla
    <3>2. PICK i \in 1..(Len(tabla) - 1) : u[i] = tabla[j]
      BY <1>4, <3>1
    <3>. QED
      BY <1>2, <3>1, <3>2 DEF EnTabla
  <2>. QED
    BY <2>2, <2>3
<1>6. TablaBien(u, V \ {d})
  <2>1. Len(tabla) > 1 /\ k > 1 /\ 1 \in 1..(Len(tabla) - 1)
    BY <1>1
  <2>2. Len(u) > 0 /\ u[1] = Compartido
    BY <1>1, <1>2, <2>1
  <2>3. ASSUME NEW i \in 1..Len(u), NEW j \in 1..Len(u), u[i] = u[j]
        PROVE  i = j
    <3>1. PICK a \in 1..Len(tabla) : u[i] = tabla[a] /\ a = IF i < k THEN i ELSE i + 1
      BY <1>2, <1>3
    <3>2. PICK b \in 1..Len(tabla) : u[j] = tabla[b] /\ b = IF j < k THEN j ELSE j + 1
      BY <1>2, <1>3
    <3>3. a = b
      BY <1>1, <2>3, <3>1, <3>2
    <3>. QED
      BY <1>1, <1>2, <3>1, <3>2, <3>3
  <2>4. \A i \in 1..Len(u) : u[i] \in V \ {d}
    <3>1. \A e : EnTabla(e, tabla) => e \in V
      BY <1>1 DEF EnTabla
    <3>2. \A i \in 1..Len(u) : EnTabla(u[i], u)
      BY DEF EnTabla
    <3>. QED
      BY <1>5, <3>1, <3>2
  <2>. QED
    BY <1>2, <2>2, <2>3, <2>4 DEF TablaBien
<1>. QED
  BY <1>5, <1>6 DEF u

\* Tail leaves out segment 0 and nothing else.
LEMMA ColaDeTabla ==
    ASSUME NEW V, NEW tabla, TablaBien(tabla, V)
    PROVE  /\ \A d : d \in ToSet(Tail(tabla)) <=> EnTabla(d, tabla) /\ d # Compartido
           /\ ToSet(Tail(tabla)) = {tabla[i] : i \in (1..Len(tabla)) \ {1}}
<1> DEFINE ds == Tail(tabla)
<1>1. /\ tabla \in Seq(Descriptor) /\ Len(tabla) \in Nat /\ Len(tabla) > 0
      /\ tabla[1] = Compartido
      /\ \A i, j \in 1..Len(tabla) : tabla[i] = tabla[j] => i = j
  BY LenProperties DEF TablaBien
<1>2. /\ ds \in Seq(Descriptor) /\ Len(ds) = Len(tabla) - 1
      /\ \A i \in 1..Len(ds) : ds[i] = tabla[i + 1]
  <2>1. tabla # << >>
    BY <1>1
  <2>. QED
    BY <1>1, <2>1, HeadTailProperties
<1> HIDE DEF ds
<1>3. ToSet(ds) = {tabla[i] : i \in (1..Len(tabla)) \ {1}}
  <2>1. ToSet(ds) = {ds[i] : i \in 1..Len(ds)}
    <3>1. DOMAIN ds = 1..Len(ds)
      BY <1>2, LenProperties
    <3>. QED
      BY <3>1 DEF ToSet
  <2>2. \A i \in 1..Len(ds) : i + 1 \in (1..Len(tabla)) \ {1} /\ ds[i] = tabla[i + 1]
    BY <1>1, <1>2
  <2>3. ASSUME NEW i \in (1..Len(tabla)) \ {1}
        PROVE  \E j \in 1..Len(ds) : ds[j] = tabla[i]
    <3> DEFINE j == i - 1
    <3>1. j \in 1..Len(ds) /\ j + 1 = i
      BY <1>1, <1>2
    <3> HIDE DEF j
    <3>. QED
      BY <2>2, <3>1
  <2> DEFINE I == (1..Len(tabla)) \ {1}
  <2>4. (\A i \in 1..Len(ds) : \E j \in I : ds[i] = tabla[j])
        /\ \A j \in I : \E i \in 1..Len(ds) : ds[i] = tabla[j]
    BY <2>2, <2>3
  <2> HIDE DEF I
  <2>5. ToSet(ds) = {tabla[i] : i \in I}
    BY <2>1, <2>4
  <2>. QED
    BY <2>5 DEF I
<1>4. \A i \in 1..Len(tabla) : tabla[i] = Compartido <=> i = 1
  <2>1. 1 \in 1..Len(tabla)
    BY <1>1
  <2>. QED
    BY <1>1, <2>1
<1>. QED
  BY <1>3, <1>4 DEF EnTabla, ds

\* The tables say nothing of where the segments are.
LEMMA MismasTablas ==
    ASSUME NEW A, NEW S, NEW T, TablasBien(A, S, T),
           NEW R, DOMAIN R = DOMAIN S, \A e \in DOMAIN S : R[e].segmento_id = S[e].segmento_id
    PROVE  TablasBien(A, R, T)
  BY DEF TablasBien

-----------------------------------------------------------------------------
(* The inductive invariant *)

InvMemoria ==
    /\ algoritmo_asignacion \in Algoritmos
    /\ DOMAIN tablas_segmentos \subseteq Pid
    /\ espacio_usuario \in [Direccion -> Byte]
    /\ respuesta \in Respuestas
    /\ pedido \in Pedido \cup {SinPedido}
    /\ segmento \in [DOMAIN segmento -> Segmento]
    /\ Particion(huecos_libres, segmento, DOMAIN segmento)
    /\ TablasBien(segmentos_activos, segmento, tablas_segmentos)

\* Where the segments are is all that counts of them.
LEMMA MismaParticion ==
    ASSUME NEW H, NEW S, NEW V, Particion(H, S, V), NEW W, W \subseteq V, NEW T,
           \A d \in W : T[d] = S[d], Particion(H, S, W)
    PROVE  Particion(H, T, W)
<1>1. SegmentosBien(T, W)
  BY DEF Particion, SegmentosBien
<1>2. \A a \in Direccion : (\A d \in W : ~Dentro(T[d], a)) <=> (\A d \in W : ~Dentro(S[d], a))
  BY DEF Dentro
<1>. QED
  BY <1>1, <1>2 DEF Particion

\* iniciar_estructuras and the creation of segment 0 establish the invariant.
LEMMA InvMemoriaInit == Init => InvMemoria
<1> SUFFICES ASSUME Init
             PROVE  InvMemoria
  OBVIOUS
<1> DEFINE h == [inicio |-> 0, fin |-> TAM_MEMORIA - 1]
           H == <<h>>
           V == {Compartido}
<1>1. /\ TAM_MEMORIA \in Nat /\ TAM_SEGMENTO_0 \in Nat \ {0} /\ TAM_SEGMENTO_0 <= TAM_MEMORIA
      /\ TAM_SEGMENTO_0 \in 1..TAM_MEMORIA /\ Compartido \in Descriptor /\ 0 \in Byte
  BY MemoriaAssumption
<1>2. h \in Hueco /\ h.inicio = 0 /\ h.fin = TAM_MEMORIA - 1 /\ 0 \in Direccion
  BY <1>1 DEF Hueco, Direccion
<1> HIDE DEF h
<1>3. H \in Seq(Hueco) /\ Len(H) = 1 /\ H[1] = h /\ 1 \in 1..Len(H)
  BY <1>2
<1> HIDE DEF H
<1>4. HuecosBien(H)
  <2>1. \A i \in 1..Len(H) : i = 1
    BY <1>3
  <2>2. H[1].inicio <= H[1].fin
    BY <1>1, <1>2, <1>3
  <2>3. \A i, j \in 1..Len(H) : ~(i < j)
    BY <2>1
  <2>. QED
    BY <1>3, <2>1, <2>2, <2>3 DEF HuecosBien
<1>5. Particion(H, segmento, {})
  <2>1. \A a \in Direccion : EnHueco(a, H)
    BY <1>1, <1>2, <1>3 DEF EnHueco, Direccion
  <2>. QED
    BY <1>4, <2>1 DEF Particion, SegmentosBien
<1>6. /\ DOMAIN segmento = V
      /\ segmento[Compartido] = [segmento_id |-> 0, inicio |-> 0, tam_segmento |-> TAM_SEGMENTO_0]
      /\ segmento[Compartido] \in Segmento
      /\ segmento \in [V -> Segmento]
  <2>1. [segmento_id |-> 0, inicio |-> 0, tam_segmento |-> TAM_SEGMENTO_0] \in Segmento
    BY <1>1, <1>2 DEF Segmento
  <2>. QED
    BY <2>1 DEF Init
<1>7. Particion(huecos_libres, segmento, V)
  <2>1. huecos_libres = ActualizarHueco(H, 1, H[1].inicio + TAM_SEGMENTO_0, H[1].fin)
    <3>1. H[1].inicio + TAM_SEGMENTO_0 = TAM_SEGMENTO_0 /\ H[1].fin = TAM_MEMORIA - 1
      BY <1>1, <1>2, <1>3
    <3>. QED
      BY <3>1 DEF Init, H, h
  <2>2. TamanioHueco(H[1]) >= TAM_SEGMENTO_0
    BY <1>1, <1>2, <1>3 DEF TamanioHueco
  <2>3. segmento[Compartido].inicio = H[1].inicio
        /\ segmento[Compartido].tam_segmento = TAM_SEGMENTO_0
    BY <1>2, <1>3, <1>6
  <2>4. Particion(huecos_libres, segmento, {} \cup {Compartido})
    BY <1>1, <1>3, <1>5, <1>6, <2>1, <2>2, <2>3, OcupaHueco
  <2>5. {} \cup {Compartido} = V
    OBVIOUS
  <2> HIDE DEF V
  <2>. QED
    BY <2>4, <2>5
<1>8. TablasBien(segmentos_activos, segmento, tablas_segmentos)
  <2> DEFINE A == <<Compartido>>
  <2>1. A \in Seq(Descriptor) /\ Len(A) = 1 /\ A[1] = Compartido
    BY <1>1
  <2>2. segmentos_activos = A /\ DOMAIN tablas_segmentos = {}
    BY DEF Init
  <2> HIDE DEF A
  <2>3. \A i \in 1..Len(A) : i = 1
    BY <2>1
  <2>4. V = {A[i] : i \in 1..Len(A)}
    BY <2>1, <2>3
  <2>5. Lista(A, Descriptor, Compartido, DOMAIN segmento)
    BY <1>6, <2>1, <2>3, <2>4 DEF Lista
  <2>6. \A d \in DOMAIN segmento : segmento[d].segmento_id = 0 <=> d = Compartido
    BY <1>6
  <2>7. DOMAIN segmento \ {Compartido} = {}
    BY <1>6
  <2>. QED
    BY <2>2, <2>5, <2>6, <2>7 DEF TablasBien
<1>9. espacio_usuario \in [Direccion -> Byte]
  BY <1>1 DEF Init
<1>. QED
  BY <1>6, <1>7, <1>8, <1>9 DEF InvMemoria, Init, Respuestas

\* What the steps leave alone, by parts.
Enteros ==
    /\ algoritmo_asignacion' \in Algoritmos
    /\ respuesta' \in Respuestas
    /\ pedido' \in Pedido \cup {SinPedido}

\* An answer that settles the request leaves the protocol well typed.
LEMMA ResolverEntero == InvMemoria /\ Resolver => Enteros
  BY DEF InvMemoria, Resolver, Enteros, Respuestas

\* MEMORY_CREATE_TABLE keeps the invariant.
LEMMA PasoCreateTable ==
    ASSUME InvMemoria, NEW p \in Pid, MemoryCreateTable(p)
    PROVE  InvMemoria'
<1>1. Enteros
  BY ResolverEntero DEF MemoryCreateTable
<1>2. /\ huecos_libres' = huecos_libres /\ segmento' = segmento
      /\ segmentos_activos' = segmentos_activos /\ espacio_usuario' = espacio_usuario
  BY DEF MemoryCreateTable
<1>3. DOMAIN tablas_segmentos' \subseteq Pid
  BY DEF MemoryCreateTable, InvMemoria
<1>4. TablasBien(segmentos_activos, segmento, tablas_segmentos')
  <2>1. TablasBien(segmentos_activos, segmento, tablas_segmentos)
    BY DEF InvMemoria
  <2>2. p \notin DOMAIN tablas_segmentos
    BY DEF MemoryCreateTable
  <2>3. tablas_segmentos' = [q \in DOMAIN tablas_segmentos \cup {p} |->
                               IF q = p THEN <<Head(segmentos_activos)>> ELSE tablas_segmentos[q]]
    BY DEF MemoryCreateTable
  <2>. QED
    BY <2>1, <2>2, <2>3, AbreTabla
<1>. QED
  BY <1>1, <1>2, <1>3, <1>4 DEF InvMemoria, Enteros

\* MEMORY_DELETE_TABLE keeps the invariant: the space of every segment of the table but
\* segment 0 goes back to the holes, and those segments leave the lists.
LEMMA PasoDeleteTable ==
    ASSUME InvMemoria, NEW p \in Pid, MemoryDeleteTable(p)
    PROVE  InvMemoria'
<1> DEFINE tabla == tablas_segmentos[p]
           ds == Tail(tabla)
           D == DOMAIN segmento
           V == D \ ToSet(ds)
<1>1. Enteros
  BY ResolverEntero DEF MemoryDeleteTable
<1>2. /\ p \in DOMAIN tablas_segmentos
      /\ huecos_libres' = HuecosLiberados(tabla)
      /\ segmentos_activos' = FoldLeft(RemoveFirst, segmentos_activos, ds)
      /\ segmento' = [d \in V |-> segmento[d]]
      /\ tablas_segmentos' = [q \in DOMAIN tablas_segmentos \ {p} |-> tablas_segmentos[q]]
      /\ espacio_usuario' = espacio_usuario
  BY DEF MemoryDeleteTable, OlvidarSegmentos
<1>3. /\ TablasBien(segmentos_activos, segmento, tablas_segmentos)
      /\ Particion(huecos_libres, segmento, D)
      /\ segmento \in [D -> Segmento]
  BY DEF InvMemoria
<1>4. TablaBien(tabla, D)
  BY <1>2, <1>3 DEF TablasBien
<1>5. /\ tabla \in Seq(Descriptor) /\ Len(tabla) \in Nat /\ Len(tabla) > 0
      /\ tabla[1] = Compartido
      /\ \A i, j \in 1..Len(tabla) : tabla[i] = tabla[j] => i = j
      /\ \A i \in 1..Len(tabla) : tabla[i] \in D
  BY <1>4, LenProperties DEF TablaBien
<1> HIDE DEF tabla, D
<1>6. /\ ds \in Seq(Descriptor) /\ Len(ds) = Len(tabla) - 1
      /\ \A i \in 1..Len(ds) : ds[i] = tabla[i + 1]
  <2>1. tabla # << >>
    BY <1>5
  <2>. QED
    BY <1>5, <2>1, HeadTailProperties
<1> HIDE DEF ds
<1>7. ToSet(ds) = {tabla[i] : i \in (1..Len(tabla)) \ {1}}
  BY <1>4, ColaDeTabla DEF ds
<1>8. Particion(huecos_libres', segmento', V)
  <2>1. tabla \in Seq(D)
    <3>1. tabla = [i \in 1..Len(tabla) |-> tabla[i]]
      BY <1>5, LenProperties
    <3>. QED
      BY <1>5, <3>1, IsASeq
  <2>2. \A i \in 1..Len(tabla) : segmento[tabla[i]].segmento_id = 0 <=> i = 1
    <3>1. \A d \in D : segmento[d].segmento_id = 0 <=> d = Compartido
      BY <1>3 DEF TablasBien, D
    <3>2. 1 \in 1..Len(tabla)
      BY <1>5
    <3>. QED
      BY <1>5, <3>1, <3>2
  <2>3. Particion(HuecosLiberados(tabla), segmento,
                  D \ {tabla[i] : i \in (1..Len(tabla)) \ {1}})
    BY <1>3, <1>5, <2>1, <2>2, LiberaTabla
  <2>4. Particion(huecos_libres', segmento, V)
    BY <1>2, <1>7, <2>3
  <2>5. \A d \in V : segmento'[d] = segmento[d]
    BY <1>2
  <2>. QED
    BY <2>4, <2>5, MismaParticion
<1>9. TablasBien(segmentos_activos', segmento', tablas_segmentos')
  <2> DEFINE U == tablas_segmentos'
             T == tablas_segmentos
  <2>1. DOMAIN U = DOMAIN T \ {p} /\ \A q \in DOMAIN U : U[q] = T[q]
    BY <1>2
  <2>2. TablasBien(segmentos_activos, segmento, T)
    BY <1>3
  <2>3. \A i \in 1..Len(ds) : ds[i] # Compartido
    <3>1. 1 \in 1..Len(tabla) /\ \A i \in 1..Len(ds) : i + 1 \in 1..Len(tabla) /\ i + 1 # 1
      BY <1>5, <1>6
    <3>. QED
      BY <1>5, <1>6, <3>1
  <2>4. \A d : d \in ToSet(ds) <=> EnTabla(d, tabla) /\ d # Compartido
    BY <1>4, ColaDeTabla DEF ds
  <2> HIDE DEF U, T
  <2>5. ASSUME NEW q \in DOMAIN U
        PROVE  TablaBien(U[q], V)
    <3>1. q \in DOMAIN T /\ q # p /\ U[q] = T[q] /\ TablaBien(T[q], D)
      BY <2>1, <2>2 DEF TablasBien, D
    <3>2. \A d \in D : EnTabla(d, T[q]) /\ EnTabla(d, tabla) => d = Compartido
      <4>1. tabla = T[p] /\ p \in DOMAIN T
        BY <1>2 DEF tabla, T
      <4>. QED
        BY <2>2, <3>1, <4>1 DEF TablasBien, D
    <3>3. \A i \in 1..Len(T[q]) : T[q][i] \in D /\ EnTabla(T[q][i], T[q])
      BY <3>1 DEF TablaBien, EnTabla
    <3>4. \A i \in 1..Len(T[q]) : T[q][i] \in V
      BY <2>4, <3>2, <3>3
    <3> HIDE DEF V
    <3>. QED
      BY <3>1, <3>4 DEF TablaBien
  <2>6. \A q \in DOMAIN U : \A e : EnTabla(e, U[q]) => EnTabla(e, T[q])
    BY <2>1
  <2>7. ASSUME NEW q \in DOMAIN T, NEW e \in V \ {Compartido}, EnTabla(e, T[q])
        PROVE  q \in DOMAIN U /\ EnTabla(e, U[q])
    <3>1. q # p
      BY <2>4, <2>7 DEF tabla, T
    <3>. QED
      BY <2>1, <2>7, <3>1
  <2>8. TablasBien(FoldLeft(RemoveFirst, segmentos_activos, ds), [e \in V |-> segmento[e]], U)
    <3>1. DOMAIN U \subseteq DOMAIN T /\ V = DOMAIN segmento \ ToSet(ds)
      BY <2>1 DEF D
    <3> HIDE DEF V
    <3>. QED
      BY <1>6, <2>2, <2>3, <2>5, <2>6, <2>7, <3>1, QuitaSegmentos
  <2>. QED
    BY <1>2, <2>8 DEF U
<1>10. /\ DOMAIN segmento' = V /\ segmento' \in [V -> Segmento]
       /\ DOMAIN tablas_segmentos' \subseteq Pid
  <2>1. DOMAIN tablas_segmentos \subseteq Pid
    BY DEF InvMemoria
  <2>. QED
    BY <1>2, <1>3, <2>1
<1> HIDE DEF V
<1>. QED
  BY <1>1, <1>2, <1>8, <1>9, <1>10 DEF InvMemoria, Enteros

\* MEMORY_CREATE_SEGMENT keeps the invariant: the new segment takes the start of a hole.
LEMMA PasoCreateSegment ==
    ASSUME InvMemoria, NEW p \in Pid, NEW id \in SegmentoId, NEW tam \in Tamanios,
           NEW reenviado \in BOOLEAN, MemoryCreateSegment(p, id, tam, reenviado)
    PROVE  InvMemoria'
<1>1. Enteros
  BY ResolverEntero DEF MemoryCreateSegment
<1>2. PICK d \in Descriptor : CrearSegmento(p, id, tam, d)
  BY DEF MemoryCreateSegment
<1>3. /\ p \in DOMAIN tablas_segmentos /\ Candidatos(tam) # {}
      /\ espacio_usuario' = espacio_usuario
  BY DEF MemoryCreateSegment, PuedePedir
<1> DEFINE i == BuscarHueco(tam)
           H == huecos_libres
           S == segmento
           D == DOMAIN segmento
           base == H[i].inicio
           s == [segmento_id |-> id, inicio |-> base, tam_segmento |-> tam]
<1>4. /\ d \notin D
      /\ segmento' = [e \in D \cup {d} |-> IF e = d THEN s ELSE S[e]]
      /\ huecos_libres' = ActualizarHueco(H, i, base + tam, H[i].fin)
      /\ segmentos_activos' = Append(segmentos_activos, d)
      /\ tablas_segmentos' = [tablas_segmentos EXCEPT ![p] = Append(@, d)]
  BY <1>2 DEF CrearSegmento
<1>5. /\ TablasBien(segmentos_activos, S, tablas_segmentos)
      /\ Particion(H, S, D) /\ HuecosBien(H) /\ H \in Seq(Hueco)
      /\ S \in [D -> Segmento]
  BY DEF InvMemoria, Particion, HuecosBien
<1>6. id # 0 /\ id \in SegmentoId /\ tam \in Nat \ {0}
  BY MemoriaAssumption
<1>7. i \in 1..Len(H) /\ TamanioHueco(H[i]) >= tam
  <2>1. BuscarHueco(tam) \in Candidatos(tam)
    BY <1>3, <1>5, HayMejor
  <2>2. DOMAIN H = 1..Len(H)
    BY <1>5, NumerosDeHuecos
  <2>. QED
    BY <2>1, <2>2 DEF Candidatos
<1> HIDE DEF i
<1>8. s \in Segmento /\ s.inicio = H[i].inicio /\ s.tam_segmento = tam /\ s.segmento_id = id
  <2>1. /\ H[i] \in Hueco /\ base \in Nat /\ H[i].fin \in Nat /\ base <= H[i].fin
        /\ H[i].fin < TAM_MEMORIA
    BY <1>5, <1>7, NumerosDeHuecos DEF HuecosBien
  <2>2. base \in Direccion
    BY <2>1 DEF Hueco
  <2>3. tam \in 1..TAM_MEMORIA
    <3>1. TAM_MEMORIA \in Nat /\ H[i].fin - base + 1 >= tam
      BY <1>7, MemoriaAssumption DEF TamanioHueco
    <3> HIDE DEF base, H
    <3>. QED
      BY <1>6, <2>1, <3>1 DEF base
  <2> HIDE DEF base, H
  <2>. QED
    BY <1>6, <2>2, <2>3 DEF Segmento, base
<1> HIDE DEF s
<1>9. /\ DOMAIN segmento' = D \cup {d} /\ segmento'[d] = s
      /\ \A e \in D : segmento'[e] = S[e]
      /\ segmento' \in [D \cup {d} -> Segmento]
  BY <1>4, <1>5, <1>8
<1>10. Particion(huecos_libres', segmento', D \cup {d})
  <2> DEFINE T == segmento'
  <2>1. \A e \in D : T[e] = S[e]
    BY <1>9
  <2>2. T[d] \in Segmento /\ T[d].inicio = H[i].inicio /\ T[d].tam_segmento = tam
    BY <1>8, <1>9
  <2>3. Particion(ActualizarHueco(H, i, H[i].inicio + tam, H[i].fin), T, D \cup {d})
    <3> HIDE DEF T, H, S, D
    <3>. QED
      BY <1>4, <1>5, <1>6, <1>7, <2>1, <2>2, OcupaHueco
  <2>. QED
    BY <1>4, <2>3
<1>11. TablasBien(segmentos_activos', segmento', tablas_segmentos')
  <2> DEFINE A == segmentos_activos
             T == tablas_segmentos
             U == tablas_segmentos'
             R == segmento'
  <2>1. /\ TablasBien(A, S, T) /\ p \in DOMAIN T /\ d \notin DOMAIN S
        /\ DOMAIN R = DOMAIN S \cup {d} /\ \A e \in DOMAIN S : R[e] = S[e]
    BY <1>3, <1>4, <1>5, <1>9
  <2>2. R[d].segmento_id # 0
    BY <1>6, <1>8, <1>9
  <2>3. /\ DOMAIN U = DOMAIN T /\ U[p] = Append(T[p], d)
        /\ \A q \in DOMAIN T : q # p => U[q] = T[q]
    BY <1>3, <1>4
  <2> HIDE DEF A, S, T, U, R
  <2>4. TablasBien(Append(A, d), R, U)
    BY <2>1, <2>2, <2>3, AgregaSegmento
  <2>. QED
    BY <1>4, <2>4 DEF A, U, R
<1>12. DOMAIN tablas_segmentos' \subseteq Pid
  BY <1>4 DEF InvMemoria
<1>. QED
  BY <1>1, <1>3, <1>9, <1>10, <1>11, <1>12 DEF InvMemoria, Enteros

\* MEMORY_DELETE_SEGMENT keeps the invariant, and takes exactly one segment of the process.
LEMMA PasoDeleteSegment ==
    ASSUME InvMemoria, NEW p \in Pid, NEW id \in SegmentoId, MemoryDeleteSegment(p, id)
    PROVE  /\ InvMemoria'
           /\ \E d \in DOMAIN segmento \ {Compartido} :
                 /\ EnTabla(d, tablas_segmentos[p])
                 /\ DOMAIN segmento' = DOMAIN segmento \ {d}
                 /\ \A e : EnTabla(e, tablas_segmentos'[p]) <=>
                           EnTabla(e, tablas_segmentos[p]) /\ e # d
<1> DEFINE tabla == tablas_segmentos[p]
           I == {i \in 1..Len(tabla) : segmento[tabla[i]].segmento_id = id}
           k == SelectInSeq(tabla, LAMBDA e : segmento[e].segmento_id = id)
           d == tabla[k]
           D == DOMAIN segmento
           ds == <<d>>
           V == D \ ToSet(ds)
<1>1. Enteros
  BY ResolverEntero DEF MemoryDeleteSegment
<1>2. /\ p \in DOMAIN tablas_segmentos /\ k # 0
      /\ huecos_libres' = ConsolidarHuecos(huecos_libres, segmento[d].inicio,
                                           segmento[d].tam_segmento)
      /\ segmentos_activos' = FoldLeft(RemoveFirst, segmentos_activos, ds)
      /\ segmento' = [e \in V |-> segmento[e]]
      /\ tablas_segmentos' = [tablas_segmentos EXCEPT ![p] = RemoveAt(tabla, k)]
      /\ espacio_usuario' = espacio_usuario
  BY DEF MemoryDeleteSegment, OlvidarSegmentos
<1>3. /\ TablasBien(segmentos_activos, segmento, tablas_segmentos)
      /\ Particion(huecos_libres, segmento, D)
      /\ segmento \in [D -> Segmento]
  BY DEF InvMemoria
<1>4. TablaBien(tabla, D)
  BY <1>2, <1>3 DEF TablasBien
<1>5. k = IF I # {} THEN Min(I) ELSE 0
  BY DEF SelectInSeq
<1> HIDE DEF k, tabla
<1>6. /\ tabla \in Seq(Descriptor) /\ Len(tabla) \in Nat /\ Len(tabla) > 0
      /\ tabla[1] = Compartido
      /\ \A i, j \in 1..Len(tabla) : tabla[i] = tabla[j] => i = j
      /\ \A i \in 1..Len(tabla) : tabla[i] \in D
  BY <1>4, LenProperties DEF TablaBien
<1>7. k \in I
  <2>1. I \in SUBSET (1..Len(tabla))
    OBVIOUS
  <2> HIDE DEF I
  <2>. QED
    BY <1>2, <1>5, <1>6, <2>1, PrimeroDe
<1>8. k \in 1..Len(tabla) /\ segmento[d].segmento_id = id
  BY <1>7
<1>9. /\ d \in D /\ d \in Descriptor /\ d # Compartido /\ k # 1
  <2>1. id # 0
    BY MemoriaAssumption
  <2>2. d \in D
    BY <1>6, <1>8
  <2>3. d # Compartido
    BY <1>3, <1>8, <2>1, <2>2 DEF TablasBien
  <2>4. d \in Descriptor
    BY <1>6, <1>8, ElementOfSeq
  <2>. QED
    BY <1>6, <2>2, <2>3, <2>4
<1>10. /\ ds \in Seq(Descriptor) /\ Len(ds) = 1 /\ ds[1] = d /\ ToSet(ds) = {d}
       /\ \A i \in 1..Len(ds) : ds[i] # Compartido
  <2>1. ds \in Seq(Descriptor) /\ Len(ds) = 1 /\ ds[1] = d /\ DOMAIN ds = {1}
    BY <1>9
  <2>2. \A i \in 1..Len(ds) : i = 1
    BY <2>1
  <2>. QED
    BY <1>9, <2>1, <2>2 DEF ToSet
<1> HIDE DEF d, ds, I
<1>11. V = D \ {d}
  BY <1>10
<1>12. Particion(huecos_libres', segmento', V)
  <2>1. Particion(huecos_libres', segmento, V)
    BY <1>2, <1>3, <1>9, <1>11, LiberaSegmento
  <2>2. \A e \in V : segmento'[e] = segmento[e]
    BY <1>2
  <2> HIDE DEF V
  <2>. QED
    BY <2>1, <2>2, MismaParticion
<1>13. TablasBien(segmentos_activos', segmento', tablas_segmentos')
  <2> DEFINE T == tablas_segmentos
             U == tablas_segmentos'
             u == RemoveAt(tabla, k)
  <2>1. /\ DOMAIN U = DOMAIN T /\ U[p] = u
        /\ \A q \in DOMAIN T : q # p => U[q] = T[q]
    BY <1>2
  <2>2. TablasBien(segmentos_activos, segmento, T) /\ tabla = T[p] /\ p \in DOMAIN T
    BY <1>2, <1>3 DEF tabla
  <2>3. /\ u \in Seq(Descriptor) /\ Len(u) = Len(tabla) - 1
        /\ \A i \in 1..(Len(tabla) - 1) : u[i] = IF i < k THEN tabla[i] ELSE tabla[i + 1]
    BY <1>6, <1>8, RemoveAtProperties
  <2> HIDE DEF u, U, T, V, D
  <2>4. TablaBien(u, D \ {d}) /\ \A e : EnTabla(e, u) <=> EnTabla(e, tabla) /\ e # d
    BY <1>4, <1>8, <1>9, SacaDeTabla DEF u, d, D
  <2>6. \A e : EnTabla(e, u) <=> EnTabla(e, tabla) /\ e # d
    BY <2>4
  <2>7. TablaBien(u, V)
    BY <1>11, <2>4
  <2>8. ASSUME NEW q \in DOMAIN U
        PROVE  TablaBien(U[q], V)
    <3>1. CASE q = p
      BY <2>1, <2>7, <3>1
    <3>2. CASE q # p
      <4>1. q \in DOMAIN T /\ U[q] = T[q] /\ TablaBien(T[q], D)
        BY <2>1, <2>2, <3>2 DEF TablasBien, D
      <4>2. EnTabla(d, tabla)
        BY <1>8 DEF EnTabla, d
      <4>3. ~EnTabla(d, T[q])
        BY <1>9, <2>2, <3>2, <4>1, <4>2 DEF TablasBien, D
      <4>4. \A i \in 1..Len(T[q]) : T[q][i] \in D /\ T[q][i] # d
        BY <4>1, <4>3 DEF TablaBien, EnTabla
      <4>5. \A i \in 1..Len(T[q]) : T[q][i] \in V
        BY <1>11, <4>4
      <4>. QED
        BY <4>1, <4>5 DEF TablaBien
    <3>. QED
      BY <3>1, <3>2
  <2>9. \A q \in DOMAIN U : \A e : EnTabla(e, U[q]) => EnTabla(e, T[q])
    BY <2>1, <2>2, <2>6
  <2>10. ASSUME NEW q \in DOMAIN T, NEW e \in V \ {Compartido}, EnTabla(e, T[q])
         PROVE  q \in DOMAIN U /\ EnTabla(e, U[q])
    BY <1>11, <2>1, <2>2, <2>6, <2>10
  <2>11. TablasBien(FoldLeft(RemoveFirst, segmentos_activos, ds), [e \in V |-> segmento[e]], U)
    <3>1. DOMAIN U \subseteq DOMAIN T /\ V = DOMAIN segmento \ ToSet(ds)
      BY <2>1 DEF D, V
    <3>. QED
      BY <1>10, <2>2, <2>8, <2>9, <2>10, <3>1, QuitaSegmentos
  <2>. QED
    BY <1>2, <2>11 DEF U
<1>14. /\ DOMAIN segmento' = V /\ segmento' \in [V -> Segmento]
       /\ DOMAIN tablas_segmentos' \subseteq Pid
  <2>1. DOMAIN tablas_segmentos \subseteq Pid
    BY DEF InvMemoria
  <2>. QED
    BY <1>2, <1>3, <2>1
<1>15. \A e : EnTabla(e, tablas_segmentos'[p]) <=> EnTabla(e, tabla) /\ e # d
  <2>1. tablas_segmentos'[p] = RemoveAt(tabla, k)
    BY <1>2
  <2>2. \A e : EnTabla(e, RemoveAt(tabla, k)) <=> EnTabla(e, tabla) /\ e # d
    BY <1>4, <1>8, <1>9, SacaDeTabla DEF d
  <2> HIDE DEF d
  <2>. QED
    BY <2>1, <2>2
<1>16. EnTabla(d, tabla)
  BY <1>8 DEF EnTabla, d
<1> HIDE DEF V
<1>17. InvMemoria'
  BY <1>1, <1>2, <1>12, <1>13, <1>14 DEF InvMemoria, Enteros
<1>. QED
  BY <1>9, <1>11, <1>14, <1>15, <1>16, <1>17 DEF tabla

\* MEMORY_COMPACT keeps the invariant, the live segments and their bytes.
LEMMA PasoCompact ==
    ASSUME InvMemoria, MemoryCompact
    PROVE  /\ InvMemoria'
           /\ DOMAIN segmento' = DOMAIN segmento
           /\ MismosDatos([segmento |-> segmento, bytes |-> espacio_usuario],
                          [segmento |-> segmento', bytes |-> espacio_usuario'], DOMAIN segmento)
<1> DEFINE V == DOMAIN segmento
           esp == [huecos |-> huecos_libres, segmento |-> segmento, bytes |-> espacio_usuario]
           final == FoldLeft(Deslizar, esp, segmentos_activos)
<1>1. /\ huecos_libres' = final.huecos /\ segmento' = final.segmento
      /\ espacio_usuario' = final.bytes
      /\ respuesta' = "MEMORY_COMPACT"
      /\ UNCHANGED <<algoritmo_asignacion, segmentos_activos, tablas_segmentos, pedido>>
  BY DEF MemoryCompact
<1>2. /\ TablasBien(segmentos_activos, segmento, tablas_segmentos)
      /\ Particion(huecos_libres, segmento, V) /\ huecos_libres \in Seq(Hueco)
      /\ segmento \in [V -> Segmento] /\ espacio_usuario \in [Direccion -> Byte]
  BY DEF InvMemoria, Particion, HuecosBien
<1>3. /\ esp \in Espacio(V) /\ esp.huecos = huecos_libres /\ esp.segmento = segmento
      /\ esp.bytes = espacio_usuario
  BY <1>2 DEF Espacio
<1>4. segmentos_activos \in Seq(V)
  <2>1. Lista(segmentos_activos, Descriptor, Compartido, V)
    BY <1>2 DEF TablasBien
  <2>2. /\ segmentos_activos = [i \in 1..Len(segmentos_activos) |-> segmentos_activos[i]]
        /\ Len(segmentos_activos) \in Nat
        /\ \A i \in 1..Len(segmentos_activos) : segmentos_activos[i] \in V
    BY <2>1, LenProperties DEF Lista
  <2> HIDE DEF V
  <2>. QED
    BY <2>2, IsASeq
<1> HIDE DEF V, esp
<1>5. /\ final \in Espacio(V)
      /\ Particion(final.huecos, final.segmento, V)
      /\ MismosDatos(esp, final, V)
  BY <1>2, <1>3, <1>4, Compacta
<1> HIDE DEF final
<1>6. segmento' \in [V -> Segmento] /\ espacio_usuario' \in [Direccion -> Byte]
  BY <1>1, <1>5 DEF Espacio
<1>7. \A e \in V : segmento'[e].segmento_id = segmento[e].segmento_id
  BY <1>1, <1>3, <1>5 DEF MismosDatos
<1>8. TablasBien(segmentos_activos', segmento', tablas_segmentos')
  BY <1>1, <1>2, <1>6, <1>7, MismasTablas DEF V
<1>9. Particion(huecos_libres', segmento', V)
  BY <1>1, <1>5
<1>10. InvMemoria'
  <2>1. /\ algoritmo_asignacion' \in Algoritmos /\ DOMAIN tablas_segmentos' \subseteq Pid
        /\ respuesta' \in Respuestas /\ pedido' \in Pedido \cup {SinPedido}
    BY <1>1 DEF InvMemoria, Respuestas
  <2>2. DOMAIN segmento' = V
    BY <1>6
  <2>. QED
    BY <1>6, <1>8, <1>9, <2>1, <2>2 DEF InvMemoria
<1>11. MismosDatos([segmento |-> segmento, bytes |-> espacio_usuario],
                   [segmento |-> segmento', bytes |-> espacio_usuario'], V)
  BY <1>1, <1>3, <1>5 DEF MismosDatos
<1>. QED
  BY <1>6, <1>10, <1>11 DEF V

\* The answer that asks for a compaction keeps the invariant.
LEMMA PasoNeedsToCompact ==
    ASSUME InvMemoria, NEW p \in Pid, NEW id \in SegmentoId, NEW tam \in Tamanios,
           NEW reenviado \in BOOLEAN, MemoryNeedsToCompact(p, id, tam, reenviado)
    PROVE  InvMemoria'
<1>1. UNCHANGED <<algoritmo_asignacion, huecos_libres, segmentos_activos, segmento,
                  tablas_segmentos, espacio_usuario>>
  BY DEF MemoryNeedsToCompact, listas
<1>2. respuesta' \in Respuestas /\ pedido' \in Pedido
  BY DEF MemoryNeedsToCompact, Respuestas, Pedido
<1>. QED
  BY <1>1, <1>2 DEF InvMemoria

\* The answer that refuses a creation keeps the invariant.
LEMMA PasoOutOfMemory ==
    ASSUME InvMemoria, NEW p \in Pid, NEW id \in SegmentoId, NEW tam \in Tamanios,
           NEW reenviado \in BOOLEAN, MemoryOutOfMemory(p, id, tam, reenviado)
    PROVE  InvMemoria'
<1>1. Enteros
  BY ResolverEntero DEF MemoryOutOfMemory
<1>2. UNCHANGED <<huecos_libres, segmentos_activos, segmento, tablas_segmentos,
   espacio_usuario>>
  BY DEF MemoryOutOfMemory, listas
<1>. QED
  BY <1>1, <1>2 DEF InvMemoria, Enteros

\* A write keeps the invariant.
LEMMA PasoWriteAddress ==
    ASSUME InvMemoria, NEW p \in Pid, NEW d \in DOMAIN segmento, NEW k \in Direccion,
           NEW b \in Byte, MemoryWriteAddress(p, d, k, b)
    PROVE  InvMemoria'
<1>1. UNCHANGED <<algoritmo_asignacion, huecos_libres, segmentos_activos, segmento,
                  tablas_segmentos, respuesta, pedido>>
  BY DEF MemoryWriteAddress, listas, protocolo
<1>2. espacio_usuario' \in [Direccion -> Byte]
  BY DEF MemoryWriteAddress, InvMemoria
<1>. QED
  BY <1>1, <1>2 DEF InvMemoria

\* Every step keeps the invariant.
LEMMA InvMemoriaNext == InvMemoria /\ [Next]_memoria => InvMemoria'
<1> SUFFICES ASSUME InvMemoria, [Next]_memoria
             PROVE  InvMemoria'
  OBVIOUS
<1>1. ASSUME NEW p \in Pid, MemoryCreateTable(p)
      PROVE  InvMemoria'
  BY <1>1, PasoCreateTable
<1>2. ASSUME NEW p \in Pid, MemoryDeleteTable(p)
      PROVE  InvMemoria'
  BY <1>2, PasoDeleteTable
<1>3. ASSUME NEW p \in Pid, NEW id \in SegmentoId, MemoryDeleteSegment(p, id)
      PROVE  InvMemoria'
  BY <1>3, PasoDeleteSegment
<1>4. ASSUME NEW p \in Pid, NEW id \in SegmentoId, NEW tam \in Tamanios,
             NEW reenviado \in BOOLEAN, MemoryCreateSegment(p, id, tam, reenviado)
      PROVE  InvMemoria'
  BY <1>4, PasoCreateSegment
<1>5. ASSUME NEW p \in Pid, NEW id \in SegmentoId, NEW tam \in Tamanios,
             NEW reenviado \in BOOLEAN, MemoryNeedsToCompact(p, id, tam, reenviado)
      PROVE  InvMemoria'
  BY <1>5, PasoNeedsToCompact
<1>6. ASSUME NEW p \in Pid, NEW id \in SegmentoId, NEW tam \in Tamanios,
             NEW reenviado \in BOOLEAN, MemoryOutOfMemory(p, id, tam, reenviado)
      PROVE  InvMemoria'
  BY <1>6, PasoOutOfMemory
<1>7. ASSUME NEW p \in Pid, NEW d \in DOMAIN segmento, NEW k \in Direccion, NEW b \in Byte,
             MemoryWriteAddress(p, d, k, b)
      PROVE  InvMemoria'
  BY <1>7, PasoWriteAddress
<1>8. CASE MemoryCompact
  BY <1>8, PasoCompact
<1>9. CASE UNCHANGED memoria
  BY <1>9 DEF memoria, listas, protocolo, InvMemoria
<1>. QED
  BY <1>1, <1>2, <1>3, <1>4, <1>5, <1>6, <1>7, <1>8, <1>9 DEF Next

\* Each byte is of one segment or of one hole, once: the invariant at every address.
LEMMA InvMemoriaParticion == InvMemoria => EspacioParticionado
<1> SUFFICES ASSUME InvMemoria, NEW a \in Direccion
             PROVE  Cardinality({d \in DOMAIN segmento : a \in Ocupa(d)})
                       + Cardinality({i \in DOMAIN huecos_libres : a \in Libra(huecos_libres[i])})
                    = 1
  BY DEF EspacioParticionado
<1> DEFINE D == DOMAIN segmento
           H == huecos_libres
           Ds == {d \in D : a \in Ocupa(d)}
           Hs == {i \in DOMAIN H : a \in Libra(H[i])}
<1>1. /\ HuecosBien(H) /\ H \in Seq(Hueco) /\ SegmentosBien(segmento, D)
      /\ EnHueco(a, H) <=> \A d \in D : ~Dentro(segmento[d], a)
  BY DEF InvMemoria, Particion, HuecosBien
<1>2. a \in Nat
  BY DEF Direccion
<1>3. \A d \in D : a \in Ocupa(d) <=> Dentro(segmento[d], a)
  <2>1. ASSUME NEW d \in D
        PROVE  a \in Ocupa(d) <=> Dentro(segmento[d], a)
    <3>1. segmento[d].inicio \in Nat /\ segmento[d].tam_segmento \in Nat
      BY <1>1, NumerosDeSegmento DEF SegmentosBien
    <3>. QED
      BY <1>2, <3>1 DEF Ocupa, Dentro
  <2>. QED
    BY <2>1
<1>4. /\ DOMAIN H = 1..Len(H) /\ Len(H) \in Nat
      /\ \A i \in 1..Len(H) : /\ a \in Libra(H[i]) <=> H[i].inicio <= a /\ a <= H[i].fin
                              /\ H[i].inicio \in Nat /\ H[i].fin \in Nat
  <2>1. /\ DOMAIN H = 1..Len(H) /\ Len(H) \in Nat
        /\ \A i \in 1..Len(H) : H[i].inicio \in Nat /\ H[i].fin \in Nat
    BY <1>1, NumerosDeHuecos
  <2>2. ASSUME NEW i \in 1..Len(H)
        PROVE  a \in Libra(H[i]) <=> H[i].inicio <= a /\ a <= H[i].fin
    BY <1>2, <2>1 DEF Libra
  <2>. QED
    BY <2>1, <2>2
<1> HIDE DEF D, H
<1>5. CASE EnHueco(a, H)
  <2>1. Ds = {}
    BY <1>1, <1>3, <1>5
  <2>2. PICK i \in 1..Len(H) : H[i].inicio <= a /\ a <= H[i].fin
    BY <1>5 DEF EnHueco
  <2>3. ASSUME NEW j \in 1..Len(H), H[j].inicio <= a, a <= H[j].fin
        PROVE  j = i
    <3>1. i < j => H[i].fin + 1 < H[j].inicio
      BY <1>1 DEF HuecosBien
    <3>2. j < i => H[j].fin + 1 < H[i].inicio
      BY <1>1 DEF HuecosBien
    <3>3. /\ H[i].inicio \in Nat /\ H[i].fin \in Nat
          /\ H[j].inicio \in Nat /\ H[j].fin \in Nat
      BY <1>4
    <3>4. ~(i < j) /\ ~(j < i)
      BY <1>2, <2>2, <2>3, <3>1, <3>2, <3>3
    <3>. QED
      BY <1>4, <3>4
  <2>4. Hs = {i}
    BY <1>4, <2>2, <2>3
  <2>5. Cardinality(Ds) = 0 /\ Cardinality(Hs) = 1
    BY <2>1, <2>4, FS_EmptySet, FS_Singleton
  <2>. QED
    BY <2>5 DEF D, H
<1>6. CASE ~EnHueco(a, H)
  <2>1. Hs = {}
    BY <1>4, <1>6 DEF EnHueco
  <2>2. PICK d \in D : Dentro(segmento[d], a)
    BY <1>1, <1>6
  <2>3. ASSUME NEW e \in D, Dentro(segmento[e], a)
        PROVE  e = d
    <3> SUFFICES ASSUME e # d
                 PROVE  FALSE
      OBVIOUS
    <3>1. /\ segmento[d] \in Segmento /\ segmento[e] \in Segmento
          /\ Aparte(segmento[d], segmento[e])
      BY <1>1 DEF SegmentosBien
    <3>2. /\ segmento[d].inicio \in Nat /\ segmento[d].tam_segmento \in Nat
          /\ segmento[e].inicio \in Nat /\ segmento[e].tam_segmento \in Nat
      BY <3>1, NumerosDeSegmento
    <3>. QED
      BY <1>2, <2>2, <2>3, <3>1, <3>2 DEF Aparte, Dentro
  <2>4. Ds = {d}
    BY <1>3, <2>2, <2>3
  <2>5. Cardinality(Ds) = 1 /\ Cardinality(Hs) = 0
    BY <2>1, <2>4, FS_EmptySet, FS_Singleton
  <2>. QED
    BY <2>5 DEF D, H
<1>. QED
  BY <1>5, <1>6

\* The invariant keeps the holes in order and apart.
LEMMA InvMemoriaConsolidados == InvMemoria => HuecosConsolidados
<1> SUFFICES ASSUME InvMemoria
             PROVE  HuecosConsolidados
  OBVIOUS
<1>1. HuecosBien(huecos_libres)
  BY DEF InvMemoria, Particion
<1>2. DOMAIN huecos_libres = 1..Len(huecos_libres)
  BY <1>1, LenProperties DEF HuecosBien
<1>. QED
  BY <1>1, <1>2 DEF HuecosConsolidados, HuecosBien

\* The invariant implies the type invariant.
LEMMA InvMemoriaTipo == InvMemoria => TipoMemoria
<1> SUFFICES ASSUME InvMemoria
             PROVE  TipoMemoria
  OBVIOUS
<1>1. huecos_libres \in Seq(Hueco)
  BY DEF InvMemoria, Particion, HuecosBien
<1>2. segmentos_activos \in Seq(Descriptor) /\ DOMAIN segmento \subseteq Descriptor
  <2>1. Lista(segmentos_activos, Descriptor, Compartido, DOMAIN segmento)
    BY DEF InvMemoria, TablasBien
  <2>. QED
    BY <2>1, ElementOfSeq DEF Lista
<1>3. \A p \in DOMAIN tablas_segmentos : tablas_segmentos[p] \in Seq(Descriptor)
  BY DEF InvMemoria, TablasBien, TablaBien
<1>4. \A d \in DOMAIN segmento : segmento[d] \in Segmento
  BY DEF InvMemoria
<1>. QED
  BY <1>1, <1>2, <1>3, <1>4 DEF InvMemoria, TipoMemoria

\* The invariant makes the list of live segments and the tables agree.
LEMMA InvMemoriaTablas == InvMemoria => TablasCoinciden
<1> SUFFICES ASSUME InvMemoria
             PROVE  TablasCoinciden
  OBVIOUS
<1> DEFINE A == segmentos_activos
           T == tablas_segmentos
           D == DOMAIN segmento
           n == Len(A)
<1>1. TablasBien(A, segmento, T)
  BY DEF InvMemoria
<1>2. /\ A \in Seq(Descriptor) /\ n \in Nat /\ n > 0 /\ A[1] = Compartido
      /\ DOMAIN A = 1..n
      /\ \A i, j \in 1..n : A[i] = A[j] => i = j
      /\ D = {A[i] : i \in 1..n}
  BY <1>1, LenProperties DEF TablasBien, Lista
<1>3. \A p \in DOMAIN T : TablaBien(T[p], D)
  BY <1>1 DEF TablasBien
<1> HIDE DEF A, T, D, n
<1>4. Head(A) = Compartido
  BY <1>2
<1>5. ToSet(A) = D
  BY <1>2 DEF ToSet
<1>6. n = Cardinality(D)
  <2> DEFINE f == [i \in 1..n |-> A[i]]
  <2>1. f \in Bijection(1..n, D)
    <3>1. f \in [1..n -> D]
      BY <1>2
    <3>2. \A i, j \in 1..n : f[i] = f[j] => i = j
      BY <1>2
    <3>3. \A d \in D : \E i \in 1..n : f[i] = d
      BY <1>2
    <3> HIDE DEF f
    <3>. QED
      BY <3>1, <3>2, <3>3, Fun_IsBij
  <2>2. ExistsBijection(1..n, D)
    BY <2>1 DEF ExistsBijection
  <2>. QED
    BY <1>2, <2>2, FS_CountingElements
<1>7. \A p \in DOMAIN T : Head(T[p]) = Compartido
  BY <1>3 DEF TablaBien
<1>8. ASSUME NEW d \in Descriptor \ {Compartido}
      PROVE  Cardinality(Lugares(d)) = IF d \in D THEN 1 ELSE 0
  <2>1. \A l : l \in Lugares(d) <=>
           \E p \in DOMAIN T : \E i \in 1..Len(T[p]) : T[p][i] = d /\ l = <<p, i>>
    <3>1. \A p \in DOMAIN T : DOMAIN T[p] = 1..Len(T[p])
      BY <1>3, LenProperties DEF TablaBien
    <3>. QED
      BY <3>1 DEF Lugares, T
  <2>2. CASE d \in D
    <3>1. PICK p \in DOMAIN T : EnTabla(d, T[p])
      BY <1>1, <2>2 DEF TablasBien, D
    <3>2. PICK i \in 1..Len(T[p]) : T[p][i] = d
      BY <3>1 DEF EnTabla
    <3>3. ASSUME NEW q \in DOMAIN T, NEW j \in 1..Len(T[q]), T[q][j] = d
          PROVE  q = p /\ j = i
      <4>1. q = p
        BY <1>1, <2>2, <3>1, <3>3 DEF TablasBien, EnTabla, D
      <4>. QED
        BY <1>3, <3>2, <3>3, <4>1 DEF TablaBien
    <3>4. Lugares(d) = {<<p, i>>}
      BY <2>1, <3>2, <3>3
    <3>. QED
      BY <2>2, <3>4, FS_Singleton
  <2>3. CASE d \notin D
    <3>1. Lugares(d) = {}
      BY <1>3, <2>1, <2>3 DEF TablaBien
    <3>. QED
      BY <2>3, <3>1, FS_EmptySet
  <2>. QED
    BY <2>2, <2>3
<1>. QED
  BY <1>4, <1>5, <1>6, <1>7, <1>8 DEF TablasCoinciden, A, T, D, n

\* The invariant holds in every state.
LEMMA InvMemoriaSiempre == Spec => []InvMemoria
<1>1. Init => InvMemoria
  BY InvMemoriaInit
<1>2. InvMemoria /\ [Next]_memoria => InvMemoria'
  BY InvMemoriaNext
<1>. QED
  BY <1>1, <1>2, PTL DEF Spec

\* Every variable keeps its type: no hole and no segment leaves the memory.
THEOREM TipoMemoriaSiempre == Spec => []TipoMemoria
<1>1. InvMemoria => TipoMemoria
  BY InvMemoriaTipo
<1>. QED
  BY <1>1, InvMemoriaSiempre, PTL

\* Every byte belongs to exactly one live segment or to exactly one hole, after any
\* sequence of creations, deletions and compactions.
THEOREM EspacioParticionadoSiempre == Spec => []EspacioParticionado
<1>1. InvMemoria => EspacioParticionado
  BY InvMemoriaParticion
<1>. QED
  BY <1>1, InvMemoriaSiempre, PTL

\* The list of holes is in order of address and no two holes touch.
THEOREM HuecosConsolidadosSiempre == Spec => []HuecosConsolidados
<1>1. InvMemoria => HuecosConsolidados
  BY InvMemoriaConsolidados
<1>. QED
  BY <1>1, InvMemoriaSiempre, PTL

\* The list of live segments and the tables agree on which segments there are.
THEOREM TablasCoincidenSiempre == Spec => []TablasCoinciden
<1>1. InvMemoria => TablasCoinciden
  BY InvMemoriaTablas
<1>. QED
  BY <1>1, InvMemoriaSiempre, PTL

-----------------------------------------------------------------------------
(* The fit of a new segment *)

\* The holes of the list are the free runs of bytes.
LEMMA HuecosSonTramos ==
    ASSUME InvMemoria
    PROVE  /\ \A i \in 1..Len(huecos_libres) : huecos_libres[i] \in Tramos
           /\ \A t \in Tramos : \E i \in 1..Len(huecos_libres) : t = huecos_libres[i]
<1> DEFINE H == huecos_libres
           n == Len(H)
<1>1. HuecosBien(H) /\ H \in Seq(Hueco) /\ TAM_MEMORIA \in Nat
  BY MemoriaAssumption DEF InvMemoria, Particion, HuecosBien
<1>2. /\ n \in Nat
      /\ \A i \in 1..n : /\ H[i] \in Hueco
                         /\ H[i].inicio \in Nat /\ H[i].fin \in Nat
                         /\ H[i].inicio <= H[i].fin /\ H[i].fin < TAM_MEMORIA
  BY <1>1, NumerosDeHuecos DEF HuecosBien
<1>3. \A i, j \in 1..n : i < j => H[i].fin + 1 < H[j].inicio
  BY <1>1 DEF HuecosBien
<1>4. \A a : a \in Libres <=> a \in Direccion /\ EnHueco(a, H)
  <2>1. ASSUME NEW a \in Direccion
        PROVE  (\A d \in DOMAIN segmento : a \notin Ocupa(d)) <=> EnHueco(a, H)
    <3>1. EnHueco(a, H) <=> \A d \in DOMAIN segmento : ~Dentro(segmento[d], a)
      BY DEF InvMemoria, Particion
    <3>2. ASSUME NEW d \in DOMAIN segmento
          PROVE  a \in Ocupa(d) <=> Dentro(segmento[d], a)
      <4>1. segmento[d].inicio \in Nat /\ segmento[d].tam_segmento \in Nat
        BY NumerosDeSegmento DEF InvMemoria, Particion, SegmentosBien
      <4>2. a \in Nat
        BY DEF Direccion
      <4>. QED
        BY <4>1, <4>2 DEF Ocupa, Dentro
    <3>. QED
      BY <3>1, <3>2
  <2>. QED
    BY <2>1 DEF Libres
<1> HIDE DEF H, n
<1>5. \A a : a \in Direccion <=> a \in Nat /\ a < TAM_MEMORIA
  BY <1>1 DEF Direccion
\* A free address next to a hole is of the hole.
<1>6. ASSUME NEW i \in 1..n, NEW j \in 1..n, NEW a \in Nat, H[j].inicio <= a, a <= H[j].fin,
             H[i].inicio <= a + 1, a <= H[i].fin + 1
      PROVE  j = i
  <2>1. i < j => H[i].fin + 1 < H[j].inicio
    BY <1>3
  <2>2. j < i => H[j].fin + 1 < H[i].inicio
    BY <1>3
  <2>3. H[i].inicio \in Nat /\ H[i].fin \in Nat /\ H[j].inicio \in Nat /\ H[j].fin \in Nat
    BY <1>2
  <2>4. ~(i < j) /\ ~(j < i)
    BY <1>6, <2>1, <2>2, <2>3
  <2>. QED
    BY <1>2, <2>4
<1>7. ASSUME NEW i \in 1..n
      PROVE  H[i] \in Tramos
  <2> DEFINE ini == H[i].inicio
             fin == H[i].fin
  <2>1. ini \in Nat /\ fin \in Nat /\ ini <= fin /\ fin < TAM_MEMORIA /\ H[i] \in Hueco
    BY <1>2
  <2> HIDE DEF ini, fin
  <2>2. \A a \in ini..fin : a \in Libres
    <3>1. ASSUME NEW a \in ini..fin
          PROVE  a \in Direccion /\ EnHueco(a, H)
      <4>1. a \in Nat /\ ini <= a /\ a <= fin /\ a < TAM_MEMORIA
        BY <1>1, <2>1
      <4>. QED
        BY <1>5, <4>1 DEF EnHueco, ini, fin, n
    <3>. QED
      BY <1>4, <3>1
  <2>3. ini - 1 \notin Libres
    <3> SUFFICES ASSUME ini - 1 \in Libres
                 PROVE  FALSE
      OBVIOUS
    <3>1. PICK a \in Nat : a = ini - 1
      BY <1>4, <1>5
    <3>2. PICK j \in 1..n : H[j].inicio <= a /\ a <= H[j].fin
      BY <1>4, <3>1 DEF EnHueco, n
    <3>3. ini <= a + 1 /\ a <= fin + 1 /\ a < ini
      BY <2>1, <3>1
    <3>4. j = i
      BY <1>6, <3>2, <3>3 DEF ini, fin
    <3>. QED
      BY <2>1, <3>2, <3>3, <3>4 DEF ini
  <2>4. fin + 1 \notin Libres
    <3> SUFFICES ASSUME fin + 1 \in Libres
                 PROVE  FALSE
      OBVIOUS
    <3>1. PICK a \in Nat : a = fin + 1
      BY <2>1
    <3>2. PICK j \in 1..n : H[j].inicio <= a /\ a <= H[j].fin
      BY <1>4, <3>1 DEF EnHueco, n
    <3>3. ini <= a + 1 /\ a <= fin + 1 /\ fin < a
      BY <2>1, <3>1
    <3>4. j = i
      BY <1>6, <3>2, <3>3 DEF ini, fin
    <3>. QED
      BY <2>1, <3>2, <3>3, <3>4 DEF fin
  <2>. QED
    BY <2>1, <2>2, <2>3, <2>4 DEF Tramos, Libra, ini, fin
<1>8. ASSUME NEW t \in Tramos
      PROVE  \E i \in 1..n : t = H[i]
  <2> DEFINE ini == t.inicio
             fin == t.fin
  <2>1. /\ t \in Hueco /\ ini <= fin /\ ini \in Nat /\ fin \in Nat
        /\ ini < TAM_MEMORIA /\ fin < TAM_MEMORIA
        /\ ini - 1 \notin Libres /\ fin + 1 \notin Libres
        /\ \A a \in ini..fin : a \in Libres
    BY <1>5 DEF Tramos, Libra, Hueco
  <2> HIDE DEF ini, fin
  <2>2. ini \in Libres /\ fin \in Libres
    BY <2>1
  <2>3. PICK i \in 1..n : H[i].inicio <= ini /\ ini <= H[i].fin
    BY <1>4, <2>2 DEF EnHueco, n
  <2>4. /\ H[i].inicio \in Nat /\ H[i].fin \in Nat /\ H[i] \in Hueco
        /\ H[i].inicio <= H[i].fin /\ H[i].fin < TAM_MEMORIA
    BY <1>2
  <2>5. H[i].inicio = ini
    <3> SUFFICES ASSUME H[i].inicio < ini
                 PROVE  FALSE
      BY <2>1, <2>3, <2>4
    <3>1. PICK a \in Nat : a = ini - 1
      BY <2>1, <2>4
    <3>2. a \in Direccion /\ H[i].inicio <= a /\ a <= H[i].fin
      BY <1>1, <1>5, <2>1, <2>3, <2>4, <3>1
    <3>3. a \in Libres
      BY <1>4, <3>2 DEF EnHueco, n
    <3>. QED
      BY <2>1, <3>1, <3>3
  <2>6. ~(fin < H[i].fin)
    <3> SUFFICES ASSUME fin < H[i].fin
                 PROVE  FALSE
      OBVIOUS
    <3>1. PICK a \in Nat : a = fin + 1
      BY <2>1
    <3>2. a \in Direccion /\ H[i].inicio <= a /\ a <= H[i].fin
      BY <1>1, <1>5, <2>1, <2>3, <2>4, <3>1
    <3>3. a \in Libres
      BY <1>4, <3>2 DEF EnHueco, n
    <3>. QED
      BY <2>1, <3>1, <3>3
  <2>7. ~(H[i].fin < fin)
    <3> SUFFICES ASSUME H[i].fin < fin
                 PROVE  FALSE
      OBVIOUS
    <3>1. PICK a \in Nat : a = H[i].fin + 1
      BY <2>4
    <3>2. a \in ini..fin
      BY <2>1, <2>3, <2>4, <3>1
    <3>3. PICK j \in 1..n : H[j].inicio <= a /\ a <= H[j].fin
      BY <1>4, <2>1, <3>2 DEF EnHueco, n
    <3>4. H[i].inicio <= a + 1 /\ a <= H[i].fin + 1 /\ H[i].fin < a
      BY <2>4, <3>1
    <3>5. j = i
      BY <1>6, <3>3, <3>4
    <3>. QED
      BY <2>4, <3>3, <3>4, <3>5
  <2>8. H[i].fin = fin
    BY <2>1, <2>4, <2>6, <2>7
  <2>9. t = H[i]
    BY <2>1, <2>4, <2>5, <2>8 DEF Hueco, ini, fin
  <2>. QED
    BY <2>9
<1>. QED
  BY <1>7, <1>8 DEF H, n

\* The algorithm would rather have the run t than the run u.
Prefiere(t, u) ==
    CASE algoritmo_asignacion = "FIRST" -> t.inicio <= u.inicio
      [] algoritmo_asignacion = "BEST"  -> TamanioHueco(t) <= TamanioHueco(u)
      [] OTHER                          -> TamanioHueco(t) >= TamanioHueco(u)

\* What AjusteSegunAlgoritmo says of one new segment.
Ajustado(d) ==
    LET tam == segmento'[d].tam_segmento
        aptos == {t \in Tramos : TamanioHueco(t) >= tam}
    IN  \E t \in aptos :
           /\ t.inicio = segmento'[d].inicio
           /\ \A u \in aptos : Prefiere(t, u)

\* The hole buscar_hueco picks is the free run the algorithm asks for.
LEMMA AjustaCreateSegment ==
    ASSUME InvMemoria, NEW p \in Pid, NEW id \in SegmentoId, NEW tam \in Tamanios,
           NEW reenviado \in BOOLEAN, MemoryCreateSegment(p, id, tam, reenviado),
           NEW d \in DOMAIN segmento' \ DOMAIN segmento
    PROVE  Ajustado(d)
<1> DEFINE i == BuscarHueco(tam)
           H == huecos_libres
           n == Len(H)
           aptos == {t \in Tramos : TamanioHueco(t) >= tam}
<1>1. /\ segmento'[d].inicio = H[i].inicio /\ segmento'[d].tam_segmento = tam
      /\ Candidatos(tam) # {}
  <2>1. PICK e \in Descriptor : CrearSegmento(p, id, tam, e)
    BY DEF MemoryCreateSegment
  <2>2. segmento' = [f \in DOMAIN segmento \cup {e} |->
                        IF f = e THEN [segmento_id |-> id, inicio |-> H[i].inicio,
                                       tam_segmento |-> tam]
                                 ELSE segmento[f]]
    BY <2>1 DEF CrearSegmento
  <2>3. d = e
    BY <2>2
  <2>4. segmento'[d] = [segmento_id |-> id, inicio |-> H[i].inicio, tam_segmento |-> tam]
    BY <2>2, <2>3
  <2>. QED
    BY <2>4 DEF MemoryCreateSegment
<1>2. HuecosBien(H) /\ H \in Seq(Hueco)
  BY DEF InvMemoria, Particion, HuecosBien
<1>3. /\ DOMAIN H = 1..n /\ n \in Nat
      /\ \A j \in 1..n : /\ H[j].inicio \in Nat /\ H[j].fin \in Nat /\ H[j].inicio <= H[j].fin
                         /\ TamanioHueco(H[j]) \in Nat
  <2>1. /\ DOMAIN H = 1..n /\ n \in Nat
        /\ \A j \in 1..n : H[j].inicio \in Nat /\ H[j].fin \in Nat /\ H[j].inicio <= H[j].fin
    BY <1>2, NumerosDeHuecos DEF HuecosBien
  <2>2. \A j \in 1..n : TamanioHueco(H[j]) \in Nat
    BY <2>1 DEF TamanioHueco
  <2>. QED
    BY <2>1, <2>2
<1>4. \A j, k \in 1..n : j < k => H[j].fin + 1 < H[k].inicio
  BY <1>2 DEF HuecosBien
<1>5. Candidatos(tam) = {j \in 1..n : TamanioHueco(H[j]) >= tam}
  BY <1>3 DEF Candidatos
<1>6. i \in Candidatos(tam) /\ \A j \in Candidatos(tam) : EsMejor(i, j)
  BY <1>1, <1>2, HayMejor
<1>7. i \in 1..n /\ TamanioHueco(H[i]) >= tam
  BY <1>5, <1>6
<1>8. H[i] \in aptos
  BY <1>7, HuecosSonTramos
<1>9. \A u \in aptos : \E j \in 1..n : u = H[j] /\ EsMejor(i, j)
  <2>1. ASSUME NEW u \in aptos
        PROVE  \E j \in 1..n : u = H[j] /\ EsMejor(i, j)
    <3>1. PICK j \in 1..n : u = H[j]
      BY HuecosSonTramos
    <3>2. j \in Candidatos(tam)
      BY <1>5, <3>1
    <3>. QED
      BY <1>6, <3>1, <3>2
  <2>. QED
    BY <2>1
<1>10. ASSUME NEW j \in 1..n, EsMejor(i, j)
       PROVE  Prefiere(H[i], H[j])
  <2> DEFINE ti == TamanioHueco(H[i])
             tj == TamanioHueco(H[j])
  <2>1. ti \in Nat /\ tj \in Nat /\ i \in 1..n
    BY <1>3, <1>7
  <2>2. /\ algoritmo_asignacion = "BEST" => ti < tj \/ (ti = tj /\ i >= j)
        /\ algoritmo_asignacion = "FIRST" => i <= j
        /\ algoritmo_asignacion # "FIRST" /\ algoritmo_asignacion # "BEST" =>
              ti > tj \/ (ti = tj /\ i >= j)
    BY <1>10 DEF EsMejor
  <2> HIDE DEF ti, tj, i
  <2>3. CASE algoritmo_asignacion = "FIRST"
    <3>1. i <= j
      BY <2>2, <2>3
    <3>2. H[i].inicio <= H[j].inicio
      <4>1. i = j \/ i < j
        BY <1>3, <2>1, <3>1
      <4>2. i < j => H[i].fin + 1 < H[j].inicio
        BY <1>4, <2>1
      <4>3. H[i].inicio \in Nat /\ H[i].fin \in Nat /\ H[j].inicio \in Nat
            /\ H[i].inicio <= H[i].fin
        BY <1>3, <2>1
      <4>. QED
        BY <4>1, <4>2, <4>3
    <3>. QED
      BY <2>3, <3>2 DEF Prefiere
  <2>4. CASE algoritmo_asignacion = "BEST"
    <3>1. ti <= tj
      BY <2>1, <2>2, <2>4
    <3>. QED
      BY <2>4, <3>1 DEF ti, tj, Prefiere
  <2>5. CASE algoritmo_asignacion # "FIRST" /\ algoritmo_asignacion # "BEST"
    <3>1. ti >= tj
      BY <2>1, <2>2, <2>5
    <3>. QED
      BY <2>5, <3>1 DEF ti, tj, Prefiere
  <2>. QED
    BY <2>3, <2>4, <2>5
<1> HIDE DEF i, H, n
<1>11. \A u \in aptos : Prefiere(H[i], u)
  <2>1. ASSUME NEW u \in aptos
        PROVE  Prefiere(H[i], u)
    <3>1. PICK j \in 1..n : u = H[j] /\ EsMejor(i, j)
      BY <1>9
    <3>. QED
      BY <1>10, <3>1
  <2>. QED
    BY <2>1
<1>. QED
  BY <1>1, <1>8, <1>11 DEF Ajustado

\* Only MEMORY_CREATE_SEGMENT makes a segment, and it fits as the algorithm says.
LEMMA AjustaNext == InvMemoria /\ [Next]_memoria =>
                       \A d \in DOMAIN segmento' \ DOMAIN segmento : Ajustado(d)
<1> SUFFICES ASSUME InvMemoria, [Next]_memoria, NEW d \in DOMAIN segmento' \ DOMAIN segmento
             PROVE  Ajustado(d)
  OBVIOUS
<1>1. ASSUME NEW p \in Pid, MemoryCreateTable(p)
      PROVE  FALSE
  BY <1>1 DEF MemoryCreateTable
<1>2. ASSUME NEW p \in Pid, MemoryDeleteTable(p)
      PROVE  FALSE
  BY <1>2 DEF MemoryDeleteTable, OlvidarSegmentos
<1>3. ASSUME NEW p \in Pid, NEW id \in SegmentoId, MemoryDeleteSegment(p, id)
      PROVE  FALSE
  BY <1>3 DEF MemoryDeleteSegment, OlvidarSegmentos
<1>4. ASSUME NEW p \in Pid, NEW id \in SegmentoId, NEW tam \in Tamanios,
             NEW reenviado \in BOOLEAN, MemoryCreateSegment(p, id, tam, reenviado)
      PROVE  Ajustado(d)
  BY <1>4, AjustaCreateSegment
<1>5. ASSUME NEW p \in Pid, NEW id \in SegmentoId, NEW tam \in Tamanios,
             NEW reenviado \in BOOLEAN, MemoryNeedsToCompact(p, id, tam, reenviado)
      PROVE  FALSE
  BY <1>5 DEF MemoryNeedsToCompact, listas
<1>6. ASSUME NEW p \in Pid, NEW id \in SegmentoId, NEW tam \in Tamanios,
             NEW reenviado \in BOOLEAN, MemoryOutOfMemory(p, id, tam, reenviado)
      PROVE  FALSE
  BY <1>6 DEF MemoryOutOfMemory, listas
<1>7. ASSUME NEW p \in Pid, NEW e \in DOMAIN segmento, NEW k \in Direccion, NEW b \in Byte,
             MemoryWriteAddress(p, e, k, b)
      PROVE  FALSE
  BY <1>7 DEF MemoryWriteAddress, listas
<1>8. ASSUME MemoryCompact
      PROVE  FALSE
  BY <1>8, PasoCompact
<1>9. ASSUME UNCHANGED memoria
      PROVE  FALSE
  BY <1>9 DEF memoria, listas
<1>. QED
  BY <1>1, <1>2, <1>3, <1>4, <1>5, <1>6, <1>7, <1>8, <1>9 DEF Next

\* A new segment starts at the start of a free run where it fits: the lowest, the
\* smallest or the largest of those, as ALGORITMO_ASIGNACION says.
THEOREM AjusteSiempre == Spec => AjusteSegunAlgoritmo
<1>1. InvMemoria /\ [Next]_memoria =>
        [\A d \in DOMAIN segmento' \ DOMAIN segmento :
          LET tam == segmento'[d].tam_segmento
              aptos == {t \in Tramos : TamanioHueco(t) >= tam}
          IN  \E t \in aptos :
                 /\ t.inicio = segmento'[d].inicio
                 /\ \A u \in aptos :
                       CASE algoritmo_asignacion = "FIRST" -> t.inicio <= u.inicio
                         [] algoritmo_asignacion = "BEST"  -> TamanioHueco(t) <= TamanioHueco(u)
                         [] OTHER                          -> TamanioHueco(t) >= TamanioHueco(u)
        ]_memoria
  BY AjustaNext DEF Ajustado, Prefiere
<1>. QED
  BY <1>1, InvMemoriaSiempre, PTL DEF Spec, AjusteSegunAlgoritmo

-----------------------------------------------------------------------------
(* Memoria implements the store of segments *)

\* What the processes see of a segment, and of all the live ones.
Contenido(d) == [k \in 0..(segmento[d].tam_segmento - 1) |->
                    espacio_usuario[segmento[d].inicio + k]]
Celda(d) == [id |-> segmento[d].segmento_id, duenos |-> Duenos(d), contenido |-> Contenido(d)]
Celdas == [d \in DOMAIN segmento |-> Celda(d)]
Procesos == DOMAIN tablas_segmentos

\* The definitions of the store, seen through the mapping.
LEMMA DefinicionesDelAlmacen ==
    /\ Almacen!InitAlmacen <=>
          /\ Procesos = {}
          /\ \E c \in [0..(TAM_SEGMENTO_0 - 1) -> Byte] :
                Celdas = [d \in {Compartido} |-> [id |-> 0, duenos |-> {}, contenido |-> c]]
    /\ Almacen!almacenVars = <<Celdas, Procesos>>
    /\ \A p : Almacen!Propios(p) = {d \in DOMAIN Celdas : d # Compartido /\ p \in Celdas[d].duenos}
    /\ \A p : Almacen!AbrirTabla(p) <=>
          /\ p \notin Procesos
          /\ Procesos' = Procesos \cup {p}
          /\ Celdas' = [Celdas EXCEPT ![Compartido].duenos = @ \cup {p}]
    /\ \A p : Almacen!CerrarTabla(p) <=>
          /\ p \in Procesos
          /\ Procesos' = Procesos \ {p}
          /\ Celdas' = [d \in DOMAIN Celdas \ Almacen!Propios(p) |->
                           [Celdas[d] EXCEPT !.duenos = @ \ {p}]]
    /\ \A p, id, n : Almacen!CrearSegmentoDe(p, id, n) <=>
          /\ p \in Procesos
          /\ \E d \in Descriptor \ DOMAIN Celdas, c \in [0..(n - 1) -> Byte] :
                Celdas' = [e \in DOMAIN Celdas \cup {d} |->
                              IF e = d THEN [id |-> id, duenos |-> {p}, contenido |-> c]
                                       ELSE Celdas[e]]
          /\ Procesos' = Procesos
    /\ \A p, d : Almacen!EliminarSegmentoDe(p, d) <=>
          /\ d \in Almacen!Propios(p)
          /\ Celdas' = [e \in DOMAIN Celdas \ {d} |-> Celdas[e]]
          /\ Procesos' = Procesos
    /\ \A p, d, k, b : Almacen!EscribirEn(p, d, k, b) <=>
          /\ p \in Celdas[d].duenos
          /\ k \in DOMAIN Celdas[d].contenido
          /\ Celdas' = [Celdas EXCEPT ![d].contenido[k] = b]
          /\ Procesos' = Procesos
    /\ Almacen!NextAlmacen <=>
          \E p \in Pid :
             \/ Almacen!AbrirTabla(p)
             \/ Almacen!CerrarTabla(p)
             \/ \E id \in SegmentoId, n \in Tamanios : Almacen!CrearSegmentoDe(p, id, n)
             \/ \E d \in DOMAIN Celdas :
                   \/ Almacen!EliminarSegmentoDe(p, d)
                   \/ \E k \in DOMAIN Celdas[d].contenido, b \in Byte :
                         Almacen!EscribirEn(p, d, k, b)
<1>1. Almacen!InitAlmacen <=>
          /\ Procesos = {}
          /\ \E c \in [0..(TAM_SEGMENTO_0 - 1) -> Byte] :
                Celdas = [d \in {Compartido} |-> [id |-> 0, duenos |-> {}, contenido |-> c]]
  BY DEF Almacen!InitAlmacen, Almacen!Contenidos, Celdas, Celda, Contenido, Procesos
<1>2. Almacen!almacenVars = <<Celdas, Procesos>>
  BY DEF Almacen!almacenVars, Celdas, Celda, Contenido, Procesos
<1>3. \A p : Almacen!Propios(p) = {d \in DOMAIN Celdas : d # Compartido /\ p \in Celdas[d].duenos}
  BY DEF Almacen!Propios, Celdas, Celda, Contenido
<1>4. \A p : Almacen!AbrirTabla(p) <=>
          /\ p \notin Procesos
          /\ Procesos' = Procesos \cup {p}
          /\ Celdas' = [Celdas EXCEPT ![Compartido].duenos = @ \cup {p}]
  BY DEF Almacen!AbrirTabla, Celdas, Celda, Contenido, Procesos
<1>5. \A p : Almacen!CerrarTabla(p) <=>
          /\ p \in Procesos
          /\ Procesos' = Procesos \ {p}
          /\ Celdas' = [d \in DOMAIN Celdas \ Almacen!Propios(p) |->
                           [Celdas[d] EXCEPT !.duenos = @ \ {p}]]
  BY DEF Almacen!CerrarTabla, Celdas, Celda, Contenido, Procesos
<1>6. \A p, id, n : Almacen!CrearSegmentoDe(p, id, n) <=>
          /\ p \in Procesos
          /\ \E d \in Descriptor \ DOMAIN Celdas, c \in [0..(n - 1) -> Byte] :
                Celdas' = [e \in DOMAIN Celdas \cup {d} |->
                              IF e = d THEN [id |-> id, duenos |-> {p}, contenido |-> c]
                                       ELSE Celdas[e]]
          /\ Procesos' = Procesos
  BY DEF Almacen!CrearSegmentoDe, Almacen!Contenidos, Celdas, Celda, Contenido, Procesos
<1>7. \A p, d : Almacen!EliminarSegmentoDe(p, d) <=>
          /\ d \in Almacen!Propios(p)
          /\ Celdas' = [e \in DOMAIN Celdas \ {d} |-> Celdas[e]]
          /\ Procesos' = Procesos
  BY DEF Almacen!EliminarSegmentoDe, Celdas, Celda, Contenido, Procesos
<1>8. \A p, d, k, b : Almacen!EscribirEn(p, d, k, b) <=>
          /\ p \in Celdas[d].duenos
          /\ k \in DOMAIN Celdas[d].contenido
          /\ Celdas' = [Celdas EXCEPT ![d].contenido[k] = b]
          /\ Procesos' = Procesos
  BY DEF Almacen!EscribirEn, Celdas, Celda, Contenido, Procesos
<1>9. Almacen!NextAlmacen <=>
          \E p \in Pid :
             \/ Almacen!AbrirTabla(p)
             \/ Almacen!CerrarTabla(p)
             \/ \E id \in SegmentoId, n \in Tamanios : Almacen!CrearSegmentoDe(p, id, n)
             \/ \E d \in DOMAIN Celdas :
                   \/ Almacen!EliminarSegmentoDe(p, d)
                   \/ \E k \in DOMAIN Celdas[d].contenido, b \in Byte :
                         Almacen!EscribirEn(p, d, k, b)
  BY DEF Almacen!NextAlmacen, Celdas, Celda, Contenido
<1>. QED
  BY <1>1, <1>2, <1>3, <1>4, <1>5, <1>6, <1>7, <1>8, <1>9

\* What the three lists say of the store.
LEMMA PartesDeCeldas ==
    /\ DOMAIN Celdas = DOMAIN segmento
    /\ \A d \in DOMAIN segmento : Celdas[d] = Celda(d)
    /\ \A d : /\ Celda(d).id = segmento[d].segmento_id
              /\ Celda(d).duenos = Duenos(d)
              /\ Celda(d).contenido = Contenido(d)
    /\ \A d, p : p \in Duenos(d) <=> p \in Procesos /\ EnTabla(d, tablas_segmentos[p])
  BY DEF Celdas, Celda, Duenos, EnTabla, Contains, Procesos

\* The same of the next state.
LEMMA PartesDeCeldasSig ==
    /\ Celdas' = [d \in DOMAIN segmento' |-> Celda(d)']
    /\ \A d : Celda(d)' = [id |-> segmento'[d].segmento_id, duenos |-> Duenos(d)',
                           contenido |-> Contenido(d)']
    /\ \A d, p : p \in Duenos(d)' <=> p \in Procesos' /\ EnTabla(d, tablas_segmentos'[p])
  BY DEF Celdas, Celda, Duenos, EnTabla, Contains, Procesos

\* A segment that stays where it was keeps its contents while the bytes do.
LEMMA MismoContenido ==
    ASSUME espacio_usuario' = espacio_usuario, NEW d, segmento'[d] = segmento[d]
    PROVE  Contenido(d)' = Contenido(d)
  BY DEF Contenido

\* Tables that have the same segment in the same processes give it the same owners.
LEMMA MismosDuenos ==
    ASSUME NEW d, NEW P,
           \A q : q \in Procesos' /\ EnTabla(d, tablas_segmentos'[q]) <=> q \in P
    PROVE  Duenos(d)' = P
  BY PartesDeCeldasSig

\* Segment 0 is in every table, and a table has live segments only.
LEMMA TablasYSegmentos ==
    ASSUME InvMemoria
    PROVE  /\ Compartido \in DOMAIN segmento
           /\ \A p \in Procesos : /\ TablaBien(tablas_segmentos[p], DOMAIN segmento)
                                  /\ EnTabla(Compartido, tablas_segmentos[p])
           /\ \A p \in Procesos : \A d : EnTabla(d, tablas_segmentos[p]) => d \in DOMAIN segmento
           /\ Head(segmentos_activos) = Compartido
<1>1. TablasBien(segmentos_activos, segmento, tablas_segmentos)
  BY DEF InvMemoria
<1>2. Lista(segmentos_activos, Descriptor, Compartido, DOMAIN segmento)
  BY <1>1 DEF TablasBien
<1>3. Len(segmentos_activos) \in Nat /\ segmentos_activos \in Seq(Descriptor)
  BY <1>2, LenProperties DEF Lista
<1>4. 1 \in 1..Len(segmentos_activos)
  BY <1>2, <1>3 DEF Lista
<1>5. Compartido \in DOMAIN segmento
  BY <1>2, <1>4 DEF Lista
<1>6. Head(segmentos_activos) = Compartido
  <2>1. segmentos_activos # << >>
    BY <1>4
  <2>. QED
    BY <1>2, <1>3, <2>1, HeadTailProperties DEF Lista
<1>7. ASSUME NEW p \in Procesos
      PROVE  /\ TablaBien(tablas_segmentos[p], DOMAIN segmento)
             /\ EnTabla(Compartido, tablas_segmentos[p])
             /\ \A d : EnTabla(d, tablas_segmentos[p]) => d \in DOMAIN segmento
  <2>1. TablaBien(tablas_segmentos[p], DOMAIN segmento)
    BY <1>1 DEF TablasBien, Procesos
  <2>2. Len(tablas_segmentos[p]) \in Nat
    BY <2>1, LenProperties DEF TablaBien
  <2>3. 1 \in 1..Len(tablas_segmentos[p])
    BY <2>1, <2>2 DEF TablaBien
  <2>. QED
    BY <2>1, <2>3 DEF TablaBien, EnTabla
<1>. QED
  BY <1>5, <1>6, <1>7

\* The store starts with segment 0 and without processes.
LEMMA AlmacenInit == Init => Almacen!InitAlmacen
<1> SUFFICES ASSUME Init
             PROVE  Almacen!InitAlmacen
  OBVIOUS
<1>1. /\ DOMAIN segmento = {Compartido} /\ segmento[Compartido].segmento_id = 0
      /\ segmento[Compartido].tam_segmento = TAM_SEGMENTO_0
      /\ segmento[Compartido].inicio = 0
  BY DEF Init
<1>2. Procesos = {}
  BY DEF Init, Procesos
<1>3. Contenido(Compartido) \in [0..(TAM_SEGMENTO_0 - 1) -> Byte]
  <2>1. TAM_SEGMENTO_0 \in Nat /\ TAM_MEMORIA \in Nat /\ TAM_SEGMENTO_0 <= TAM_MEMORIA /\ 0 \in Byte
    BY MemoriaAssumption
  <2>2. \A k \in 0..(TAM_SEGMENTO_0 - 1) : 0 + k \in Direccion
    BY <2>1 DEF Direccion
  <2>3. \A a \in Direccion : espacio_usuario[a] \in Byte
    BY <2>1 DEF Init
  <2>. QED
    BY <1>1, <2>2, <2>3 DEF Contenido
<1>4. Duenos(Compartido) = {}
  BY <1>2, PartesDeCeldas
<1>5. Celda(Compartido) = [id |-> 0, duenos |-> {}, contenido |-> Contenido(Compartido)]
  BY <1>1, <1>4 DEF Celda
<1>6. Celdas = [d \in {Compartido} |-> [id |-> 0, duenos |-> {},
                                        contenido |-> Contenido(Compartido)]]
  BY <1>1, <1>5 DEF Celdas
<1>. QED
  BY <1>2, <1>3, <1>6, DefinicionesDelAlmacen

\* MEMORY_CREATE_TABLE makes one more owner of segment 0.
LEMMA AlmacenCreateTable ==
    ASSUME InvMemoria, NEW p \in Pid, MemoryCreateTable(p)
    PROVE  Almacen!AbrirTabla(p)
<1>1. /\ p \notin Procesos
      /\ segmento' = segmento /\ espacio_usuario' = espacio_usuario
      /\ tablas_segmentos' = [q \in Procesos \cup {p} |->
                               IF q = p THEN <<Compartido>> ELSE tablas_segmentos[q]]
  BY TablasYSegmentos DEF MemoryCreateTable, Procesos
<1>2. Procesos' = Procesos \cup {p}
  BY <1>1 DEF Procesos
<1>3. \A d : EnTabla(d, <<Compartido>>) <=> d = Compartido
  BY DEF EnTabla
<1>4. ASSUME NEW d \in DOMAIN segmento
      PROVE  Duenos(d)' = IF d = Compartido THEN Duenos(d) \cup {p} ELSE Duenos(d)
  <2>1. ASSUME NEW q
        PROVE  q \in Procesos' /\ EnTabla(d, tablas_segmentos'[q]) <=>
                  q \in Duenos(d) \/ (q = p /\ d = Compartido)
    <3>1. CASE q = p
      <4>1. tablas_segmentos'[q] = <<Compartido>>
        BY <1>1, <3>1
      <4>2. q \notin Duenos(d)
        BY <1>1, <3>1, PartesDeCeldas
      <4>. QED
        BY <1>2, <1>3, <3>1, <4>1, <4>2
    <3>2. CASE q # p
      <4>1. q \in Procesos => tablas_segmentos'[q] = tablas_segmentos[q]
        BY <1>1, <3>2
      <4>. QED
        BY <1>2, <3>2, <4>1, PartesDeCeldas
    <3>. QED
      BY <3>1, <3>2
  <2>2. \A q : q \in Duenos(d)' <=> q \in Duenos(d) \/ (q = p /\ d = Compartido)
    BY <2>1, PartesDeCeldasSig
  <2>3. CASE d = Compartido
    <3>1. Duenos(d)' = Duenos(d) \cup {p}
      BY <2>2, <2>3
    <3>. QED
      BY <2>3, <3>1
  <2>4. CASE d # Compartido
    <3>1. Duenos(d)' = Duenos(d)
      BY <2>2, <2>4 DEF Duenos
    <3>. QED
      BY <2>4, <3>1
  <2>. QED
    BY <2>3, <2>4
<1>5. ASSUME NEW d \in DOMAIN segmento
      PROVE  Celda(d)' = IF d = Compartido THEN [Celda(d) EXCEPT !.duenos = @ \cup {p}]
                                           ELSE Celda(d)
  <2>1. Contenido(d)' = Contenido(d) /\ segmento'[d] = segmento[d]
    BY <1>1, MismoContenido
  <2>2. Celda(d)' = [id |-> segmento[d].segmento_id, duenos |-> Duenos(d)',
                     contenido |-> Contenido(d)]
    BY <2>1, PartesDeCeldasSig
  <2>. QED
    BY <1>4, <2>2 DEF Celda
<1>6. Celdas' = [Celdas EXCEPT ![Compartido].duenos = @ \cup {p}]
  <2>1. Celdas' = [d \in DOMAIN segmento |->
                      IF d = Compartido THEN [Celda(d) EXCEPT !.duenos = @ \cup {p}] ELSE Celda(d)]
    BY <1>1, <1>5, PartesDeCeldasSig
  <2>. QED
    BY <2>1, TablasYSegmentos DEF Celdas
<1>. QED
  BY <1>1, <1>2, <1>6, DefinicionesDelAlmacen

\* MEMORY_DELETE_TABLE takes the segments of the process and leaves segment 0 to the others.
LEMMA AlmacenDeleteTable ==
    ASSUME InvMemoria, NEW p \in Pid, MemoryDeleteTable(p)
    PROVE  Almacen!CerrarTabla(p)
<1> DEFINE P == Almacen!Propios(p)
<1>1. /\ p \in Procesos
      /\ segmento' = [d \in DOMAIN segmento \ ToSet(Tail(tablas_segmentos[p])) |-> segmento[d]]
      /\ tablas_segmentos' = [q \in Procesos \ {p} |-> tablas_segmentos[q]]
      /\ espacio_usuario' = espacio_usuario
  BY DEF MemoryDeleteTable, OlvidarSegmentos, Procesos
<1>2. Procesos' = Procesos \ {p}
  BY <1>1 DEF Procesos
<1>3. P = ToSet(Tail(tablas_segmentos[p]))
  <2>1. \A d : d \in ToSet(Tail(tablas_segmentos[p])) <=>
                  EnTabla(d, tablas_segmentos[p]) /\ d # Compartido
    BY <1>1, TablasYSegmentos, ColaDeTabla
  <2>2. \A d : d \in P <=> d \in DOMAIN segmento /\ d # Compartido /\ p \in Duenos(d)
    BY PartesDeCeldas, DefinicionesDelAlmacen
  <2>3. \A d : d \in P <=> d # Compartido /\ EnTabla(d, tablas_segmentos[p])
    BY <1>1, <2>2, PartesDeCeldas, TablasYSegmentos
  <2>. QED
    BY <2>1, <2>3
<1> HIDE DEF P
<1>4. ASSUME NEW d \in DOMAIN segmento \ P
      PROVE  Duenos(d)' = Duenos(d) \ {p}
  <2>1. \A q : q \in Procesos' /\ EnTabla(d, tablas_segmentos'[q]) <=> q \in Duenos(d) \ {p}
    BY <1>1, <1>2, PartesDeCeldas
  <2>. QED
    BY <2>1, PartesDeCeldasSig
<1>5. ASSUME NEW d \in DOMAIN segmento \ P
      PROVE  Celda(d)' = [Celda(d) EXCEPT !.duenos = @ \ {p}]
  <2>1. segmento'[d] = segmento[d]
    BY <1>1, <1>3
  <2>2. Contenido(d)' = Contenido(d)
    BY <1>1, <2>1, MismoContenido
  <2>3. Celda(d)' = [id |-> segmento[d].segmento_id, duenos |-> Duenos(d) \ {p},
                     contenido |-> Contenido(d)]
    BY <1>4, <2>1, <2>2, PartesDeCeldasSig
  <2>. QED
    BY <2>3 DEF Celda
<1>6. Celdas' = [d \in DOMAIN Celdas \ P |-> [Celdas[d] EXCEPT !.duenos = @ \ {p}]]
  <2>1. DOMAIN segmento' = DOMAIN segmento \ P
    BY <1>1, <1>3
  <2>2. Celdas' = [d \in DOMAIN segmento \ P |-> [Celda(d) EXCEPT !.duenos = @ \ {p}]]
    BY <1>5, <2>1, PartesDeCeldasSig
  <2>. QED
    BY <2>2 DEF Celdas
<1>. QED
  BY <1>1, <1>2, <1>6, DefinicionesDelAlmacen DEF P

\* The bytes of a segment are inside the memory.
LEMMA BytesDeSegmento ==
    ASSUME InvMemoria, NEW d \in DOMAIN segmento
    PROVE  /\ segmento[d].inicio \in Nat /\ segmento[d].tam_segmento \in Nat
           /\ \A k \in 0..(segmento[d].tam_segmento - 1) : segmento[d].inicio + k \in Direccion
           /\ Contenido(d) \in [0..(segmento[d].tam_segmento - 1) -> Byte]
<1>1. /\ segmento[d].inicio \in Nat /\ segmento[d].tam_segmento \in Nat
      /\ segmento[d].inicio + segmento[d].tam_segmento <= TAM_MEMORIA
  BY NumerosDeSegmento DEF InvMemoria, Particion, SegmentosBien
<1>2. \A k \in 0..(segmento[d].tam_segmento - 1) : segmento[d].inicio + k \in Direccion
  BY <1>1, MemoriaAssumption DEF Direccion
<1>3. espacio_usuario \in [Direccion -> Byte]
  BY DEF InvMemoria
<1>. QED
  BY <1>1, <1>2, <1>3 DEF Contenido

\* MEMORY_CREATE_SEGMENT gives the process a segment that nobody had.
LEMMA AlmacenCreateSegment ==
    ASSUME InvMemoria, NEW p \in Pid, NEW id \in SegmentoId, NEW tam \in Tamanios,
           NEW reenviado \in BOOLEAN, MemoryCreateSegment(p, id, tam, reenviado)
    PROVE  Almacen!CrearSegmentoDe(p, id, tam)
<1>1. PICK d \in Descriptor : CrearSegmento(p, id, tam, d)
  BY DEF MemoryCreateSegment
<1> DEFINE D == DOMAIN segmento
           T == tablas_segmentos
<1>2. p \in Procesos /\ espacio_usuario' = espacio_usuario
  BY DEF MemoryCreateSegment, PuedePedir, Procesos
<1>3. /\ d \notin D /\ DOMAIN segmento' = D \cup {d}
      /\ segmento'[d].segmento_id = id /\ segmento'[d].tam_segmento = tam
      /\ \A e \in D : segmento'[e] = segmento[e]
      /\ tablas_segmentos' = [T EXCEPT ![p] = Append(@, d)]
  BY <1>1 DEF CrearSegmento
<1>4. Procesos' = Procesos
  BY <1>3 DEF Procesos
<1>5. \A q \in Procesos : \A e : EnTabla(e, tablas_segmentos'[q]) <=>
                                    EnTabla(e, T[q]) \/ (q = p /\ e = d)
  <2>1. ASSUME NEW e
        PROVE  EnTabla(e, Append(T[p], d)) <=> EnTabla(e, T[p]) \/ e = d
    <3>1. T[p] \in Seq(Descriptor)
      BY <1>2, TablasYSegmentos DEF TablaBien
    <3>2. /\ Len(T[p]) \in Nat /\ Len(Append(T[p], d)) = Len(T[p]) + 1
          /\ Append(T[p], d)[Len(T[p]) + 1] = d
          /\ \A i \in 1..Len(T[p]) : Append(T[p], d)[i] = T[p][i]
      BY <3>1, AppendProperties, LenProperties
    <3> DEFINE n == Len(T[p])
               t == T[p]
               u == Append(T[p], d)
    <3>3. /\ n \in Nat /\ Len(u) = n + 1 /\ u[n + 1] = d /\ Len(t) = n
          /\ \A i \in 1..n : u[i] = t[i]
      BY <3>2
    <3> HIDE DEF n, t, u
    <3>4. EnTabla(e, u) <=> EnTabla(e, t) \/ e = d
      <4>1. n + 1 \in 1..(n + 1) /\ (\A i \in 1..n : i \in 1..(n + 1))
            /\ \A i \in 1..(n + 1) : i \in 1..n \/ i = n + 1
        BY <3>3
      <4>. QED
        BY <3>3, <4>1 DEF EnTabla
    <3>. QED
      BY <3>4 DEF t, u
  <2>2. tablas_segmentos'[p] = Append(T[p], d) /\ \A q \in Procesos : q # p =>
                                                     tablas_segmentos'[q] = T[q]
    BY <1>2, <1>3 DEF Procesos
  <2>. QED
    BY <2>1, <2>2
<1>6. Duenos(d)' = {p}
  <2>1. \A q \in Procesos : ~EnTabla(d, T[q])
    BY <1>3, TablasYSegmentos
  <2>2. \A q : q \in Duenos(d)' <=> q \in {p}
    BY <1>2, <1>4, <1>5, <2>1, PartesDeCeldasSig
  <2>. QED
    BY <2>2, PartesDeCeldasSig
<1>7. ASSUME NEW e \in D
      PROVE  Celda(e)' = Celda(e)
  <2>1. Duenos(e)' = Duenos(e)
    <3>1. \A q : q \in Procesos' /\ EnTabla(e, tablas_segmentos'[q]) <=> q \in Duenos(e)
      BY <1>3, <1>4, <1>5, PartesDeCeldas
    <3>. QED
      BY <3>1, MismosDuenos
  <2>2. Contenido(e)' = Contenido(e) /\ segmento'[e] = segmento[e]
    BY <1>2, <1>3, MismoContenido
  <2>. QED
    BY <2>1, <2>2, PartesDeCeldasSig DEF Celda
<1>8. Contenido(d)' \in [0..(tam - 1) -> Byte]
  <2>1. InvMemoria'
    BY PasoCreateSegment
  <2>2. (d \in DOMAIN segmento)'
    BY <1>3
  <2>3. (Contenido(d) \in [0..(segmento[d].tam_segmento - 1) -> Byte])'
    <3>1. /\ segmento'[d].inicio \in Nat /\ segmento'[d].tam_segmento \in Nat
          /\ segmento'[d].inicio + segmento'[d].tam_segmento <= TAM_MEMORIA
      BY <2>1, <2>2, NumerosDeSegmento DEF InvMemoria, Particion, SegmentosBien
    <3>2. \A k \in 0..(segmento'[d].tam_segmento - 1) : segmento'[d].inicio + k \in Direccion
      BY <3>1, MemoriaAssumption DEF Direccion
    <3>3. espacio_usuario' \in [Direccion -> Byte]
      BY <2>1 DEF InvMemoria
    <3>. QED
      BY <3>1, <3>2, <3>3 DEF Contenido
  <2>. QED
    BY <1>3, <2>3
<1>9. Celda(d)' = [id |-> id, duenos |-> {p}, contenido |-> Contenido(d)']
  BY <1>3, <1>6, PartesDeCeldasSig
<1>10. Celdas' = [e \in D \cup {d} |->
                     IF e = d THEN [id |-> id, duenos |-> {p}, contenido |-> Contenido(d)']
                              ELSE Celda(e)]
  BY <1>3, <1>7, <1>9, PartesDeCeldasSig
<1>11. Celdas' = [e \in DOMAIN Celdas \cup {d} |->
                     IF e = d THEN [id |-> id, duenos |-> {p}, contenido |-> Contenido(d)']
                              ELSE Celdas[e]]
  BY <1>3, <1>10 DEF Celdas
<1>12. \E c \in [0..(tam - 1) -> Byte] :
          Celdas' = [e \in DOMAIN Celdas \cup {d} |->
                        IF e = d THEN [id |-> id, duenos |-> {p}, contenido |-> c]
                                 ELSE Celdas[e]]
  BY <1>8, <1>11
<1>13. d \in Descriptor \ DOMAIN Celdas
  BY <1>3, PartesDeCeldas
<1>14. \E f \in Descriptor \ DOMAIN Celdas, c \in [0..(tam - 1) -> Byte] :
          Celdas' = [e \in DOMAIN Celdas \cup {f} |->
                        IF e = f THEN [id |-> id, duenos |-> {p}, contenido |-> c]
                                 ELSE Celdas[e]]
  <2> HIDE DEF D, T
  <2>. QED
    BY <1>12, <1>13, Zenon
<1> HIDE DEF D, T
<1>15. Almacen!CrearSegmentoDe(p, id, tam) <=>
          /\ p \in Procesos
          /\ \E f \in Descriptor \ DOMAIN Celdas, c \in [0..(tam - 1) -> Byte] :
                Celdas' = [e \in DOMAIN Celdas \cup {f} |->
                              IF e = f THEN [id |-> id, duenos |-> {p}, contenido |-> c]
                                       ELSE Celdas[e]]
          /\ Procesos' = Procesos
  BY DefinicionesDelAlmacen, Zenon
<1>. QED
  BY <1>2, <1>4, <1>14, <1>15, Zenon

\* MEMORY_DELETE_SEGMENT takes one segment of the process, never segment 0.
LEMMA AlmacenDeleteSegment ==
    ASSUME InvMemoria, NEW p \in Pid, NEW id \in SegmentoId, MemoryDeleteSegment(p, id)
    PROVE  \E d \in DOMAIN Celdas : Almacen!EliminarSegmentoDe(p, d)
<1>1. PICK d \in DOMAIN segmento \ {Compartido} :
         /\ EnTabla(d, tablas_segmentos[p])
         /\ DOMAIN segmento' = DOMAIN segmento \ {d}
         /\ \A e : EnTabla(e, tablas_segmentos'[p]) <=> EnTabla(e, tablas_segmentos[p]) /\ e # d
  BY PasoDeleteSegment
<1>2. /\ p \in Procesos /\ espacio_usuario' = espacio_usuario /\ Procesos' = Procesos
      /\ \A q \in Procesos : q # p => tablas_segmentos'[q] = tablas_segmentos[q]
      /\ \A e \in DOMAIN segmento' : segmento'[e] = segmento[e]
  BY DEF MemoryDeleteSegment, OlvidarSegmentos, Procesos
<1>3. ASSUME NEW e \in DOMAIN segmento \ {d}
      PROVE  Celda(e)' = Celda(e)
  <2>1. Duenos(e)' = Duenos(e)
    <3>1. \A q : q \in Procesos' /\ EnTabla(e, tablas_segmentos'[q]) <=> q \in Duenos(e)
      BY <1>1, <1>2, PartesDeCeldas
    <3>. QED
      BY <3>1, MismosDuenos
  <2>2. segmento'[e] = segmento[e]
    BY <1>1, <1>2
  <2>3. Contenido(e)' = Contenido(e)
    BY <1>2, <2>2, MismoContenido
  <2>. QED
    BY <2>1, <2>2, <2>3, PartesDeCeldasSig DEF Celda
<1>4. Celdas' = [e \in DOMAIN Celdas \ {d} |-> Celdas[e]]
  <2>1. Celdas' = [e \in DOMAIN segmento \ {d} |-> Celda(e)]
    BY <1>1, <1>3, PartesDeCeldasSig
  <2>. QED
    BY <2>1 DEF Celdas
<1>5. d \in Almacen!Propios(p) /\ d \in DOMAIN Celdas
  <2>1. p \in Duenos(d)
    BY <1>1, <1>2, PartesDeCeldas
  <2>. QED
    BY <1>1, <2>1, PartesDeCeldas, DefinicionesDelAlmacen
<1>. QED
  BY <1>2, <1>4, <1>5, DefinicionesDelAlmacen

\* A write changes one byte of the segment it is for, and of no other: no two segments
\* share an address.
LEMMA AlmacenWriteAddress ==
    ASSUME InvMemoria, NEW p \in Pid, NEW d \in DOMAIN segmento, NEW k \in Direccion,
           NEW b \in Byte, MemoryWriteAddress(p, d, k, b)
    PROVE  k \in DOMAIN Celdas[d].contenido /\ Almacen!EscribirEn(p, d, k, b)
<1> DEFINE x == segmento[d].inicio + k
<1>1. /\ p \in Procesos /\ k < segmento[d].tam_segmento
      /\ EnTabla(d, tablas_segmentos[p])
      /\ espacio_usuario' = [espacio_usuario EXCEPT ![x] = b]
      /\ segmento' = segmento /\ tablas_segmentos' = tablas_segmentos
  BY DEF MemoryWriteAddress, listas, Procesos, Contains, EnTabla
<1>2. TAM_MEMORIA \in Nat /\ k \in Nat
  BY MemoriaAssumption DEF Direccion
<1>3. segmento[d].inicio \in Nat /\ segmento[d].tam_segmento \in Nat
  BY BytesDeSegmento
<1>4. k \in 0..(segmento[d].tam_segmento - 1)
  BY <1>1, <1>2, <1>3
<1>5. x \in Direccion /\ x \in Nat
  BY <1>2, <1>3, <1>4, BytesDeSegmento
<1>6. DOMAIN espacio_usuario = Direccion
  BY DEF InvMemoria
<1>7. \A a : espacio_usuario'[a] = IF a = x /\ a \in Direccion THEN b ELSE espacio_usuario[a]
  BY <1>1, <1>5, <1>6
<1>8. Contenido(d)' = [Contenido(d) EXCEPT ![k] = b]
  <2>1. Contenido(d)' = [j \in 0..(segmento[d].tam_segmento - 1) |->
                            espacio_usuario'[segmento[d].inicio + j]]
    BY <1>1 DEF Contenido
  <2>2. ASSUME NEW j \in 0..(segmento[d].tam_segmento - 1)
        PROVE  espacio_usuario'[segmento[d].inicio + j] =
                  IF j = k THEN b ELSE espacio_usuario[segmento[d].inicio + j]
    <3>1. segmento[d].inicio + j = x <=> j = k
      BY <1>2, <1>3
    <3>. QED
      BY <1>5, <1>7, <3>1
  <2>. QED
    BY <1>4, <2>1, <2>2 DEF Contenido
<1>9. ASSUME NEW e \in DOMAIN segmento, e # d
      PROVE  Contenido(e)' = Contenido(e)
  <2>1. Aparte(segmento[d], segmento[e])
    BY <1>9 DEF InvMemoria, Particion, SegmentosBien
  <2>2. segmento[e].inicio \in Nat /\ segmento[e].tam_segmento \in Nat
    BY BytesDeSegmento
  <2>3. \A j \in 0..(segmento[e].tam_segmento - 1) : segmento[e].inicio + j # x
    BY <1>1, <1>2, <1>3, <2>1, <2>2 DEF Aparte
  <2>4. \A j \in 0..(segmento[e].tam_segmento - 1) :
           espacio_usuario'[segmento[e].inicio + j] = espacio_usuario[segmento[e].inicio + j]
    BY <1>7, <2>3
  <2>. QED
    BY <1>1, <2>4 DEF Contenido
<1> HIDE DEF x
<1>10. \A e : Duenos(e)' = Duenos(e)
  BY <1>1 DEF Duenos
<1>11. ASSUME NEW e \in DOMAIN segmento
       PROVE  Celda(e)' = IF e = d THEN [Celda(d) EXCEPT !.contenido[k] = b] ELSE Celda(e)
  <2>1. Celda(e)' = [id |-> segmento[e].segmento_id, duenos |-> Duenos(e),
                     contenido |-> Contenido(e)']
    BY <1>1, <1>10, PartesDeCeldasSig
  <2>. QED
    BY <1>8, <1>9, <2>1 DEF Celda
<1>12. Celdas' = [Celdas EXCEPT ![d].contenido[k] = b]
  <2>1. Celdas' = [e \in DOMAIN segmento |->
                      IF e = d THEN [Celda(d) EXCEPT !.contenido[k] = b] ELSE Celda(e)]
    BY <1>1, <1>11, PartesDeCeldasSig
  <2>. QED
    BY <2>1 DEF Celdas
<1>13. p \in Celdas[d].duenos /\ k \in DOMAIN Celdas[d].contenido
  <2>1. p \in Duenos(d)
    BY <1>1, PartesDeCeldas
  <2>2. k \in DOMAIN Contenido(d)
    BY <1>4 DEF Contenido
  <2>. QED
    BY <2>1, <2>2, PartesDeCeldas
<1>14. Procesos' = Procesos
  BY <1>1 DEF Procesos
<1>. QED
  BY <1>12, <1>13, <1>14, DefinicionesDelAlmacen

\* Compaction moves every segment with its bytes, and the processes see nothing.
LEMMA AlmacenCompact ==
    ASSUME InvMemoria, MemoryCompact
    PROVE  UNCHANGED Almacen!almacenVars
<1>1. /\ DOMAIN segmento' = DOMAIN segmento
      /\ MismosDatos([segmento |-> segmento, bytes |-> espacio_usuario],
                     [segmento |-> segmento', bytes |-> espacio_usuario'], DOMAIN segmento)
  BY PasoCompact
<1>2. tablas_segmentos' = tablas_segmentos
  BY DEF MemoryCompact
<1>3. \A e : Duenos(e)' = Duenos(e)
  BY <1>2 DEF Duenos
<1>4. ASSUME NEW e \in DOMAIN segmento
      PROVE  Celda(e)' = Celda(e)
  <2>1. /\ segmento'[e].segmento_id = segmento[e].segmento_id
        /\ segmento'[e].tam_segmento = segmento[e].tam_segmento
        /\ \A k \in 0..(segmento[e].tam_segmento - 1) :
              espacio_usuario'[segmento'[e].inicio + k] = espacio_usuario[segmento[e].inicio + k]
    BY <1>1 DEF MismosDatos
  <2>2. Contenido(e)' = Contenido(e)
    BY <2>1 DEF Contenido
  <2>. QED
    BY <1>3, <2>1, <2>2, PartesDeCeldasSig DEF Celda
<1>5. Celdas' = Celdas
  BY <1>1, <1>4, PartesDeCeldasSig DEF Celdas
<1>6. Procesos' = Procesos
  BY <1>2 DEF Procesos
<1>7. Almacen!almacenVars' = <<Celdas', Procesos'>>
  BY DefinicionesDelAlmacen DEF Almacen!almacenVars, Celdas, Celda, Contenido, Procesos
<1>. QED
  BY <1>5, <1>6, <1>7, DefinicionesDelAlmacen

\* A step that leaves the lists and the bytes alone is not seen.
LEMMA AlmacenQuieto ==
    ASSUME UNCHANGED <<listas, espacio_usuario>>
    PROVE  UNCHANGED Almacen!almacenVars
<1>1. segmento' = segmento /\ tablas_segmentos' = tablas_segmentos
      /\ espacio_usuario' = espacio_usuario
  BY DEF listas
<1>. QED
  BY <1>1 DEF Almacen!almacenVars, Duenos

\* Every step is a step of the store, or is not seen.
LEMMA AlmacenNext == InvMemoria /\ [Next]_memoria =>
                         [Almacen!NextAlmacen]_(Almacen!almacenVars)
<1> SUFFICES ASSUME InvMemoria, [Next]_memoria
             PROVE  Almacen!NextAlmacen \/ UNCHANGED Almacen!almacenVars
  OBVIOUS
<1>1. ASSUME NEW p \in Pid, MemoryCreateTable(p)
      PROVE  Almacen!NextAlmacen
  BY <1>1, AlmacenCreateTable, DefinicionesDelAlmacen
<1>2. ASSUME NEW p \in Pid, MemoryDeleteTable(p)
      PROVE  Almacen!NextAlmacen
  BY <1>2, AlmacenDeleteTable, DefinicionesDelAlmacen
<1>3. ASSUME NEW p \in Pid, NEW id \in SegmentoId, MemoryDeleteSegment(p, id)
      PROVE  Almacen!NextAlmacen
  BY <1>3, AlmacenDeleteSegment, DefinicionesDelAlmacen
<1>4. ASSUME NEW p \in Pid, NEW id \in SegmentoId, NEW tam \in Tamanios,
             NEW reenviado \in BOOLEAN, MemoryCreateSegment(p, id, tam, reenviado)
      PROVE  Almacen!NextAlmacen
  BY <1>4, AlmacenCreateSegment, DefinicionesDelAlmacen
<1>5. ASSUME NEW p \in Pid, NEW id \in SegmentoId, NEW tam \in Tamanios,
             NEW reenviado \in BOOLEAN, MemoryNeedsToCompact(p, id, tam, reenviado)
      PROVE  UNCHANGED Almacen!almacenVars
  BY <1>5, AlmacenQuieto DEF MemoryNeedsToCompact
<1>6. ASSUME NEW p \in Pid, NEW id \in SegmentoId, NEW tam \in Tamanios,
             NEW reenviado \in BOOLEAN, MemoryOutOfMemory(p, id, tam, reenviado)
      PROVE  UNCHANGED Almacen!almacenVars
  BY <1>6, AlmacenQuieto DEF MemoryOutOfMemory
<1>7. ASSUME NEW p \in Pid, NEW e \in DOMAIN segmento, NEW k \in Direccion, NEW b \in Byte,
             MemoryWriteAddress(p, e, k, b)
      PROVE  Almacen!NextAlmacen
  <2>1. k \in DOMAIN Celdas[e].contenido /\ Almacen!EscribirEn(p, e, k, b)
    BY <1>7, AlmacenWriteAddress
  <2>2. e \in DOMAIN Celdas
    BY PartesDeCeldas
  <2>. QED
    BY <2>1, <2>2, DefinicionesDelAlmacen
<1>8. ASSUME MemoryCompact
      PROVE  UNCHANGED Almacen!almacenVars
  BY <1>8, AlmacenCompact
<1>9. ASSUME UNCHANGED memoria
      PROVE  UNCHANGED Almacen!almacenVars
  BY <1>9, AlmacenQuieto DEF memoria
<1>. QED
  BY <1>1, <1>2, <1>3, <1>4, <1>5, <1>6, <1>7, <1>8, <1>9 DEF Next

\* Memoria implements the store of segments: whatever is created, deleted, written and
\* compacted, in whatever order, a process finds in its segments what was written in them.
THEOREM ImplementaElAlmacen == Spec => AlmacenRespetado
  BY InvMemoriaSiempre, AlmacenInit, AlmacenNext, PTL
     DEF Spec, AlmacenRespetado, Almacen!SpecAlmacen

=============================================================================
